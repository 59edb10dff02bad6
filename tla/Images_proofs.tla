------------------------------ MODULE Images_proofs ------------------------------
(***************************************************************************)
(* Proofs about Images, for any number of commands, references and images, *)
(* whatever interleaves and whatever is killed.                            *)
(***************************************************************************)
EXTENDS Images, FiniteSetTheorems, TLAPS

(* A command that is about to write its entry has the file open: an rmi that
   removed it moved the command to "unlinked". *)
EntryOpen == \A p \in Proc : pc[p] = "write" => catalog[job[p].ref] # NoFile

LEMMA LastTyped == ASSUME NEW m \in Manifest PROVE Last(m) \in Nat \ {0}
BY ImagesAssumption DEF Last

LEMMA BlobTyped ==
    ASSUME NEW m \in Manifest, NEW i \in Nat \ {0}, i <= Last(m)
    PROVE  Blobs[m][i] \in Digest
BY ImagesAssumption DEF Last

LEMMA SizeTyped ==
    ASSUME NEW e \in Entry PROVE EntrySize(e) \in Nat
<1>1. Len(Blobs[e.man]) \in Nat
  BY ImagesAssumption DEF Entry
<1>2. EntrySize(e) = Len(Blobs[e.man]) + 2 \/ EntrySize(e) = Len(Blobs[e.man]) + 1
  BY Zenon DEF EntrySize, Last
<1> QED
  BY <1>1, <1>2

LEMMA ExitTyped ==
    ASSUME TypeOK, NEW p \in Proc, Exit(p)
    PROVE  /\ pc' \in [Proc -> PC]
           /\ job' \in [Proc -> Job \cup {NoJob}]
           /\ \A q \in Proc :
                /\ pc'[q] # "idle" => job'[q] \in Job
                /\ pc'[q] \notin {"idle", "read", "failed"} => job'[q].man \in Manifest
           /\ idx' \in [Proc -> Nat \ {0}]
           /\ pc' = [pc EXCEPT ![p] = "idle"]
BY DEF TypeOK, Exit, PC, Man

LEMMA GotoTyped ==
    ASSUME TypeOK, NEW p \in Proc, NEW at \in PC, pc[p] # "idle", Goto(p, at),
           at \notin {"idle", "read", "failed"} => Man(p) \in Manifest
    PROVE  /\ pc' \in [Proc -> PC]
           /\ job' \in [Proc -> Job \cup {NoJob}]
           /\ \A q \in Proc :
                /\ pc'[q] # "idle" => job'[q] \in Job
                /\ pc'[q] \notin {"idle", "read", "failed"} => job'[q].man \in Manifest
           /\ idx' \in [Proc -> Nat \ {0}]
BY DEF TypeOK, Goto, Man

LEMMA BeginTyped ==
    ASSUME TypeOK, NEW p \in Proc, NEW at \in PC, NEW j \in Job, Begin(p, at, j),
           at \notin {"idle", "read", "failed"} => j.man \in Manifest
    PROVE  /\ pc' \in [Proc -> PC]
           /\ job' \in [Proc -> Job \cup {NoJob}]
           /\ \A q \in Proc :
                /\ pc'[q] # "idle" => job'[q] \in Job
                /\ pc'[q] \notin {"idle", "read", "failed"} => job'[q].man \in Manifest
           /\ idx' \in [Proc -> Nat \ {0}]
BY DEF TypeOK, Begin, Man

(* Who moves takes along no more than rivals, which keep downloading. *)
LEMMA MovedTyped ==
    ASSUME Cas!CasTypeOK, NEW p \in Proc, NEW at, Cas!Moved(p, at)
    PROVE  /\ client'[p] = at
           /\ \A q \in Proc \ {p} : \/ client'[q] = client[q]
                                   \/ {client[q], client'[q]} \subseteq {"fetching", "racing"}
           /\ at \in {"idle", "fetching", "racing", "holding"} =>
                client' \in [Proc -> {"idle", "fetching", "racing", "holding"}]
<1>1. PICK turned \in SUBSET Cas!Rivals(p) :
        client' = [q \in Proc |-> IF q = p THEN at
                                  ELSE IF q \in turned THEN Cas!Turned(client[q])
                                  ELSE client[q]]
  BY DEF Cas!Moved
<1>2. \A q \in Proc \ {p} : q \in turned => client[q] \in {"fetching", "racing"}
  BY DEF Cas!Rivals, Cas!Downloading
<1>3. client \in [Proc -> {"idle", "holding", "fetching", "racing"}]
  BY DEF Cas!CasTypeOK, Cas!Downloading
<1>4. \A q \in Proc : Cas!Turned(client[q]) \in {"fetching", "racing"}
  BY DEF Cas!Turned
<1> QED
  BY <1>1, <1>2, <1>3, <1>4

(* Of the others' clients, no step on the store moves more than that, whatever
   the one that makes it. *)
CasMove(p) ==
    /\ client' \in [Proc -> {"idle", "fetching", "racing", "holding"}]
    /\ want' \in [Proc -> Digest \cup {NoDigest}]
    /\ \A q \in Proc \ {p} :
         /\ want'[q] = want[q]
         /\ \/ client'[q] = client[q]
            \/ {client[q], client'[q]} \subseteq {"fetching", "racing"}

LEMMA CasMoves ==
    ASSUME Cas!CasTypeOK, NEW p \in Proc,
           \/ \E d \in Digest : Cas!Fetch(p, d) \/ Cas!Hit(p, d)
           \/ Cas!Race(p) \/ Cas!Store(p) \/ Cas!Leave(p)
           \/ UNCHANGED casVars
    PROVE  Cas!CasTypeOK' /\ CasMove(p)
<1> USE DEF Cas!CasTypeOK, Cas!Downloading, CasMove
<1>1. ASSUME NEW d \in Digest, Cas!Fetch(p, d) \/ Cas!Hit(p, d)
      PROVE  Cas!CasTypeOK' /\ CasMove(p)
  BY <1>1 DEF Cas!Fetch, Cas!Hit
<1>2. CASE Cas!Race(p)
  <2>1. PICK at \in {"fetching", client[p]} : Cas!Moved(p, at)
    BY <1>2 DEF Cas!Race
  <2>2. at \in {"fetching", "racing"} /\ client[p] \in {"fetching", "racing"}
    BY <1>2, <2>1 DEF Cas!Race
  <2>3. named' = named /\ want' = want /\ stored' \subseteq named
    BY <1>2 DEF Cas!Race
  <2> QED
    BY <2>1, <2>2, <2>3, MovedTyped
<1>3. CASE Cas!Store(p)
  <2>1. client[p] \in {"fetching", "racing"} /\ Cas!Moved(p, "holding") /\ want' = want
    BY <1>3 DEF Cas!Store
  <2>2. want[p] \in Digest
    BY <2>1
  <2>3. named' \subseteq Digest /\ stored' \subseteq named'
    BY <1>3, <2>2 DEF Cas!Store
  <2> QED
    BY <2>1, <2>2, <2>3, MovedTyped
<1>4. CASE Cas!Leave(p)
  <2>1. /\ Cas!Moved(p, "idle") /\ want' = [want EXCEPT ![p] = NoDigest]
        /\ named' = named /\ stored' = stored
    BY <1>4 DEF Cas!Leave
  <2> QED
    BY <2>1, MovedTyped
<1>5. CASE UNCHANGED casVars
  BY <1>5 DEF casVars
<1> QED
  BY <1>1, <1>2, <1>3, <1>4, <1>5

LEMMA InitTyped == Init => TypeOK /\ EntryOpen
BY ImagesAssumption DEF Init, TypeOK, EntryOpen, Cas!CasInit, Cas!CasTypeOK, PC

(* Whatever was in the file, what a save leaves there is a file. *)
LEMMA OverTyped ==
    ASSUME TypeOK, EntryOpen, NEW p \in Proc, pc[p] = "write"
    PROVE  /\ job[p].ref \in Ref /\ EntryOf(p) \in Entry
           /\ Over(catalog[job[p].ref], EntryOf(p)) \in File
<1>1. EntryOf(p) \in Entry /\ job[p].ref \in Ref
  BY DEF TypeOK, Man, Job, Entry, EntryOf
<1>2. catalog[job[p].ref] \in File
  BY <1>1 DEF TypeOK, EntryOpen
<1>3. EntrySize(EntryOf(p)) \in Nat
  BY <1>1, SizeTyped
<1> QED
  BY <1>1, <1>2, <1>3 DEF Over, File

(* No command at work comes from a place where it has none. *)
Onward ==
    \A q \in Proc :
        /\ pc'[q] # "idle" => pc[q] # "idle"
        /\ pc'[q] \notin {"idle", "read", "failed"} => pc[q] \notin {"idle", "read", "failed"}

(* The types, step by step. *)
LEMMA TypeStep ==
    ASSUME TypeOK, EntryOpen, [Next]_vars
    PROVE  TypeOK'
<1>1. ASSUME NEW p \in Proc, NEW r \in Ref, NEW o \in Root, NEW m \in Manifest,
             NEW u \in Unpack[r], StartPull(p, r, o, m, u)
      PROVE  TypeOK'
  <2>1. /\ [cmd |-> "pull", ref |-> r, root |-> o, man |-> m, unpack |-> u] \in Job
        /\ [cmd |-> "pull", ref |-> r, root |-> o, man |-> m, unpack |-> u].man = m
    BY ImagesAssumption DEF Job
  <2>2. "fetch" \in PC
    BY DEF PC
  <2> QED
    BY <1>1, <2>1, <2>2, BeginTyped DEF StartPull, TypeOK, casVars, Cas!CasTypeOK, Man
<1>2. ASSUME NEW p \in Proc, NEW r \in Ref, NEW o \in Root, StartRmi(p, r, o) PROVE TypeOK'
  <2>1. [cmd |-> "rmi", ref |-> r, root |-> o, man |-> NoManifest, unpack |-> FALSE] \in Job
    BY DEF Job
  <2>2. "read" \in PC
    BY DEF PC
  <2> QED
    BY <1>2, <2>1, <2>2, BeginTyped DEF StartRmi, TypeOK, casVars, Cas!CasTypeOK, Man
<1>3. ASSUME NEW p \in Proc, ReadEntry(p) PROVE TypeOK'
  <2>1. CASE Readable(job[p].ref)
    <3> DEFINE e == catalog[job[p].ref].body
    <3>1. job[p] \in Job /\ e \in Entry
      BY <1>3, <2>1 DEF ReadEntry, Readable, TypeOK, File, Job
    <3>2. [job[p] EXCEPT !.man = e.man, !.unpack = e.rootfs /\ e.root = job[p].root] \in Job
      BY <3>1 DEF Job, Entry
    <3>3. /\ pc' = [pc EXCEPT ![p] = "check"] /\ idx' = idx
          /\ job' = [job EXCEPT ![p] = [job[p] EXCEPT
               !.man = e.man, !.unpack = e.rootfs /\ e.root = job[p].root]]
      BY <1>3, <2>1 DEF ReadEntry
    <3>4. e.man \in Manifest
      BY <3>1 DEF Entry
    <3>5. /\ pc' \in [Proc -> PC] /\ job' \in [Proc -> Job \cup {NoJob}]
          /\ \A q \in Proc : q # p => pc'[q] = pc[q] /\ job'[q] = job[q]
          /\ job'[p] \in Job /\ job'[p].man = e.man
      BY <3>1, <3>2, <3>3 DEF TypeOK, PC, Job
    <3> QED
      BY <1>3, <3>3, <3>4, <3>5 DEF ReadEntry, TypeOK, casVars, Cas!CasTypeOK, Man
  <2>2. CASE ~Readable(job[p].ref)
    <3>1. "failed" \in PC
      BY DEF PC
    <3> QED
      BY <1>3, <2>2, <3>1, GotoTyped DEF ReadEntry, TypeOK, casVars, Cas!CasTypeOK, Man
  <2> QED
    BY <2>1, <2>2
<1>4. ASSUME NEW p \in Proc, RequestBlob(p) \/ BlobArrives(p) \/ BlobComes(p) PROVE TypeOK'
  <2>1. CASE RequestBlob(p)
    <3>1. Blobs[Man(p)][idx[p]] \in Digest
      BY <2>1, BlobTyped DEF RequestBlob, TypeOK
    <3>2. Cas!CasTypeOK'
      BY <2>1, <3>1, CasMoves DEF RequestBlob, TypeOK
    <3> QED
      BY <2>1, <3>2 DEF RequestBlob, TypeOK, Man
  <2>2. CASE BlobArrives(p) \/ BlobComes(p)
    <3>1. Cas!CasTypeOK'
      BY <2>2, CasMoves DEF BlobArrives, BlobComes, TypeOK
    <3> QED
      BY <2>2, <3>1 DEF BlobArrives, BlobComes, TypeOK, Man
  <2> QED
    BY <1>4, <2>1, <2>2
<1>5. ASSUME NEW p \in Proc, NextBlob(p) PROVE TypeOK'
  <2>1. Cas!CasTypeOK'
    BY <1>5, CasMoves DEF NextBlob, TypeOK
  <2>2. idx' \in [Proc -> Nat \ {0}]
    BY <1>5 DEF NextBlob, TypeOK
  <2>3. /\ pc' \in [Proc -> PC] /\ pc[p] = "fetch"
        /\ \A q \in Proc \ {p} : pc'[q] = pc[q]
    BY <1>5 DEF NextBlob, TypeOK, PC
  <2> QED
    BY <1>5, <2>1, <2>2, <2>3 DEF NextBlob, TypeOK, Man
<1>6. ASSUME NEW p \in Proc, FetchFails(p) PROVE TypeOK'
  <2>1. Cas!CasTypeOK'
    BY <1>6, CasMoves DEF FetchFails, TypeOK
  <2> QED
    BY <1>6, <2>1, ExitTyped DEF FetchFails, TypeOK, Man
<1>7. ASSUME NEW p \in Proc, Guard(p) \/ CheckRootfs(p) PROVE TypeOK'
  <2>1. pc' \in [Proc -> PC] /\ Onward
    BY <1>7 DEF Guard, CheckRootfs, Goto, TypeOK, PC, Onward
  <2> QED
    BY <1>7, <2>1 DEF Guard, CheckRootfs, Goto, TypeOK, casVars, Cas!CasTypeOK, Man, Onward
<1>8. ASSUME NEW p \in Proc, Clean(p) PROVE TypeOK'
  <2>1. pc' \in [Proc -> PC] /\ Onward
    BY <1>8 DEF Clean, TypeOK, PC, Onward
  <2>2. idx' \in [Proc -> Nat \ {0}]
    BY <1>8 DEF Clean, TypeOK
  <2> QED
    BY <1>8, <2>1, <2>2 DEF Clean, TypeOK, casVars, Cas!CasTypeOK, Man, Onward
<1>9. ASSUME NEW p \in Proc, Wipe(p) \/ RemoveDir(p) PROVE TypeOK'
  <2>1. /\ pc' \in [Proc -> PC] /\ Onward
        /\ job' = job /\ idx' = idx
    BY <1>9 DEF Wipe, RemoveDir, Goto, TypeOK, PC, Onward
  <2>2. items' \in [Manifest -> SUBSET Nat] /\ \A m \in Manifest : items'[m] \subseteq items[m]
    BY <1>9 DEF Wipe, RemoveDir, TypeOK
  <2>3. dirs' \subseteq dirs
    BY <1>9 DEF Wipe, RemoveDir
  <2> QED
    BY <1>9, <2>1, <2>2, <2>3 DEF Wipe, RemoveDir, TypeOK, casVars, Cas!CasTypeOK, Man, Onward
<1>10. ASSUME NEW p \in Proc, ApplyLayer(p) PROVE TypeOK'
  <2>1. /\ pc' \in [Proc -> PC] /\ Onward
        /\ idx' \in [Proc -> Nat \ {0}] /\ job' = job
    BY <1>10 DEF ApplyLayer, Goto, TypeOK, PC, Onward
  <2>2. Man(p) \in Manifest /\ idx[p] \in Nat \ {0} /\ idx[p] <= Last(Man(p))
    BY <1>10 DEF ApplyLayer, TypeOK, Man, Job
  <2>3. /\ items' \in [Manifest -> SUBSET Nat]
        /\ \A m \in Manifest : items'[m] \subseteq Marker..Last(m)
    BY <1>10, <2>2, LastTyped DEF ApplyLayer, TypeOK, Marker
  <2> QED
    BY <1>10, <2>1, <2>2, <2>3 DEF ApplyLayer, TypeOK, casVars, Cas!CasTypeOK, Man, Onward
<1>11. ASSUME NEW p \in Proc, WriteMarker(p) PROVE TypeOK'
  <2>1. /\ pc' \in [Proc -> PC] /\ Onward
        /\ job' = job /\ idx' = idx
    BY <1>11 DEF WriteMarker, Goto, TypeOK, PC, Onward
  <2>2. /\ items' \in [Manifest -> SUBSET Nat]
        /\ \A m \in Manifest : items'[m] \subseteq Marker..Last(m)
    BY <1>11, LastTyped DEF WriteMarker, TypeOK, Marker
  <2> QED
    BY <1>11, <2>1, <2>2 DEF WriteMarker, TypeOK, casVars, Cas!CasTypeOK, Man, Onward
<1>12. ASSUME NEW p \in Proc, OpenEntry(p) PROVE TypeOK'
  <2>1. "write" \in PC
    BY DEF PC
  <2>2. catalog' \in [Ref -> {NoFile} \cup File]
    BY <1>12 DEF OpenEntry, TypeOK, File
  <2> QED
    BY <1>12, <2>1, <2>2, GotoTyped DEF OpenEntry, TypeOK, casVars, Cas!CasTypeOK, Man, Onward
<1>13. ASSUME NEW p \in Proc, WriteEntry(p) PROVE TypeOK'
  <2>1. catalog' \in [Ref -> {NoFile} \cup File]
    BY <1>13, OverTyped DEF WriteEntry, TypeOK
  <2> QED
    BY <1>13, <2>1, ExitTyped DEF WriteEntry, TypeOK, casVars, Cas!CasTypeOK, Man, Onward
<1>14. ASSUME NEW p \in Proc, WriteLost(p) \/ Fail(p) PROVE TypeOK'
  BY <1>14, ExitTyped DEF WriteLost, Fail, TypeOK, casVars, Cas!CasTypeOK, Man, Onward
<1>15. ASSUME NEW p \in Proc, RemoveEntry(p) PROVE TypeOK'
  <2>1. CASE catalog[job[p].ref] = NoFile
    <3>1. "failed" \in PC
      BY DEF PC
    <3> QED
      BY <1>15, <2>1, <3>1, GotoTyped DEF RemoveEntry, TypeOK, casVars, Cas!CasTypeOK, Man, Onward
  <2>2. CASE catalog[job[p].ref] # NoFile
    <3>1. /\ pc' \in [Proc -> PC]
          /\ \A q \in Proc : pc'[q] # "idle" => q # p
          /\ Onward
      BY <1>15, <2>2 DEF RemoveEntry, TypeOK, PC, Onward
    <3>2. /\ job' \in [Proc -> Job \cup {NoJob}]
          /\ \A q \in Proc : q # p => job'[q] = job[q]
          /\ idx' \in [Proc -> Nat \ {0}]
      BY <1>15, <2>2 DEF RemoveEntry, TypeOK
    <3>3. catalog' \in [Ref -> {NoFile} \cup File]
      BY <1>15, <2>2 DEF RemoveEntry, TypeOK, File
    <3> QED
      BY <1>15, <2>2, <3>1, <3>2, <3>3 DEF RemoveEntry, TypeOK, casVars, Cas!CasTypeOK, Man, Onward
  <2> QED
    BY <2>1, <2>2
<1>16. ASSUME NEW p \in Proc, Kill(p) PROVE TypeOK'
  <2>1. Cas!CasTypeOK'
    BY <1>16, CasMoves DEF Kill, TypeOK
  <2>2. dirs' \subseteq Manifest
    BY <1>16 DEF Kill, TypeOK
  <2> QED
    BY <1>16, <2>1, <2>2, ExitTyped DEF Kill, TypeOK, Man
<1>17. CASE UNCHANGED vars
  BY <1>17 DEF vars, TypeOK, Cas!CasTypeOK, Man
<1> QED
  BY <1>1, <1>2, <1>3, <1>4, <1>5, <1>6, <1>7, <1>8, <1>9, <1>10, <1>11, <1>12,
     <1>13, <1>14, <1>15, <1>16, <1>17 DEF Next, Step

(* A file that a command has open to write keeps its name, or the command knows. *)
LEMMA EntryOpenStep ==
    ASSUME TypeOK, EntryOpen, [Next]_vars
    PROVE  EntryOpen'
<1> USE DEF TypeOK, EntryOpen
<1>1. ASSUME catalog' = catalog,
             \A q \in Proc : pc'[q] = "write" => pc[q] = "write" /\ job'[q] = job[q]
      PROVE  EntryOpen'
  BY <1>1
<1>2. ASSUME NEW p \in Proc, NEW r \in Ref, NEW o \in Root, NEW m \in Manifest,
             NEW u \in Unpack[r], StartPull(p, r, o, m, u)
      PROVE  EntryOpen'
  BY <1>2, <1>1 DEF StartPull, Begin
<1>3. ASSUME NEW p \in Proc, NEW r \in Ref, NEW o \in Root, StartRmi(p, r, o) PROVE EntryOpen'
  BY <1>3, <1>1 DEF StartRmi, Begin
<1>4. ASSUME NEW p \in Proc, RequestBlob(p) \/ BlobArrives(p) \/ BlobComes(p) \/ NextBlob(p)
      PROVE  EntryOpen'
  BY <1>4, <1>1 DEF RequestBlob, BlobArrives, BlobComes, NextBlob
<1>5. ASSUME NEW p \in Proc,
             Guard(p) \/ Clean(p) \/ Wipe(p) \/ RemoveDir(p) \/ ApplyLayer(p)
               \/ WriteMarker(p) \/ ReadEntry(p) \/ CheckRootfs(p)
      PROVE  EntryOpen'
  BY <1>5, <1>1 DEF Guard, Clean, Wipe, RemoveDir, ApplyLayer, WriteMarker, ReadEntry,
     CheckRootfs, Goto
<1>6. ASSUME NEW p \in Proc, FetchFails(p) \/ WriteLost(p) \/ Fail(p) \/ Kill(p) PROVE EntryOpen'
  BY <1>6, <1>1 DEF FetchFails, WriteLost, Fail, Kill, Exit
<1>7. ASSUME NEW p \in Proc, OpenEntry(p) PROVE EntryOpen'
  <2>1. catalog' = [catalog EXCEPT ![job[p].ref] = [size |-> 0, body |-> Torn]]
    BY <1>7 DEF OpenEntry
  <2>2. [size |-> 0, body |-> Torn] # NoFile
    BY ImagesAssumption DEF File
  <2>3. job' = job /\ \A q \in Proc : pc'[q] = "write" => pc[q] = "write" \/ q = p
    BY <1>7 DEF OpenEntry, Goto
  <2>4. job[p].ref \in Ref /\ \A q \in Proc : pc[q] = "write" => job[q].ref \in Ref
    BY <1>7 DEF OpenEntry, Job
  <2> QED
    BY <2>1, <2>2, <2>3, <2>4
<1>8. ASSUME NEW p \in Proc, WriteEntry(p) PROVE EntryOpen'
  <2> DEFINE e == EntryOf(p)
             r == job[p].ref
  <2>1. catalog' = [catalog EXCEPT ![r] = Over(catalog[r], e)]
    BY <1>8 DEF WriteEntry
  <2>2. Over(catalog[r], e) # NoFile
    BY <1>8, OverTyped, ImagesAssumption DEF WriteEntry
  <2> QED
    BY <1>8, <2>1, <2>2 DEF WriteEntry, Exit
<1>9. ASSUME NEW p \in Proc, RemoveEntry(p) PROVE EntryOpen'
  <2>1. CASE catalog[job[p].ref] = NoFile
    BY <1>9, <2>1, <1>1 DEF RemoveEntry, Goto
  <2>2. CASE catalog[job[p].ref] # NoFile
    <3>1. ASSUME NEW q \in Proc, pc'[q] = "write"
          PROVE  /\ pc[q] = "write" /\ job'[q] = job[q]
                 /\ job[q].ref # job[p].ref /\ job[q].ref \in Ref
      BY <1>9, <2>2, <3>1 DEF RemoveEntry, Job
    <3>2. catalog' = [catalog EXCEPT ![job[p].ref] = NoFile]
      BY <1>9, <2>2 DEF RemoveEntry
    <3> QED
      BY <3>1, <3>2
  <2> QED
    BY <2>1, <2>2
<1>10. CASE UNCHANGED vars
  BY <1>10, <1>1 DEF vars
<1> QED
  BY <1>2, <1>3, <1>4, <1>5, <1>6, <1>7, <1>8, <1>9, <1>10 DEF Next, Step

--------------------------------------------------------------------------------
(* The root keeps its types, whatever runs at once and whatever is killed. *)
THEOREM TypeCorrect == Spec => []TypeOK
<1>1. TypeOK /\ EntryOpen /\ [Next]_vars => TypeOK' /\ EntryOpen'
  BY TypeStep, EntryOpenStep
<1> QED
  BY <1>1, InitTyped, PTL DEF Spec

LEMMA OpenAlways == Spec => [](TypeOK /\ EntryOpen)
<1>1. TypeOK /\ EntryOpen /\ [Next]_vars => TypeOK' /\ EntryOpen'
  BY TypeStep, EntryOpenStep
<1> QED
  BY <1>1, InitTyped, PTL DEF Spec

--------------------------------------------------------------------------------
(* A step is one command's.  Of another it changes no more than its race for a
   blob, and its hold on an entry that is removed. *)
Acts(p) ==
    \/ \E r \in Ref, o \in Root, m \in Manifest : \E u \in Unpack[r] : StartPull(p, r, o, m, u)
    \/ \E r \in Ref, o \in Root : StartRmi(p, r, o)
    \/ Step(p) \/ BlobComes(p) \/ FetchFails(p) \/ Kill(p)

Others(p) ==
    \A q \in Proc \ {p} :
        /\ job'[q] = job[q] /\ idx'[q] = idx[q]
        /\ pc'[q] = pc[q] \/ (pc[q] = "write" /\ pc'[q] = "unlinked")

LEMMA NextActs == [Next]_vars => UNCHANGED vars \/ \E p \in Proc : Acts(p)
BY DEF Next, Acts

LEMMA ActsOthers == ASSUME TypeOK, NEW p \in Proc, Acts(p) PROVE Others(p)
<1> USE DEF TypeOK, Others
<1>1. CASE \/ \E r \in Ref, o \in Root, m \in Manifest : \E u \in Unpack[r] : StartPull(p, r, o, m, u)
           \/ \E r \in Ref, o \in Root : StartRmi(p, r, o)
  BY <1>1 DEF StartPull, StartRmi, Begin
<1>2. CASE RequestBlob(p) \/ BlobArrives(p) \/ BlobComes(p) \/ NextBlob(p)
  BY <1>2 DEF RequestBlob, BlobArrives, BlobComes, NextBlob
<1>3. CASE FetchFails(p) \/ Kill(p)
  BY <1>3 DEF FetchFails, Kill, Exit
<1>4. CASE Guard(p) \/ Clean(p) \/ Wipe(p) \/ RemoveDir(p) \/ ApplyLayer(p) \/ WriteMarker(p)
           \/ ReadEntry(p)
  BY <1>4 DEF Guard, Clean, Wipe, RemoveDir, ApplyLayer, WriteMarker, ReadEntry, Goto
<1>5. CASE OpenEntry(p) \/ WriteEntry(p) \/ WriteLost(p) \/ CheckRootfs(p) \/ Fail(p)
  BY <1>5 DEF OpenEntry, WriteEntry, WriteLost, CheckRootfs, Fail, Goto, Exit
<1>6. CASE RemoveEntry(p)
  BY <1>6 DEF RemoveEntry, Goto
<1> QED
  BY <1>1, <1>2, <1>3, <1>4, <1>5, <1>6 DEF Acts, Step

(* What the commands do to the store is what BlobCas lets its clients do: a pull
   asks for the blobs of its manifest, one at a time, and a command that ends or
   is killed gives up what it held. *)
CasAct(p) ==
    \/ \E d \in Digest : Cas!Fetch(p, d) \/ Cas!Hit(p, d)
    \/ Cas!Race(p) \/ Cas!Store(p) \/ Cas!Leave(p)
    \/ UNCHANGED casVars

LEMMA ActsCas == ASSUME TypeOK, NEW p \in Proc, Acts(p) PROVE CasAct(p)
<1>1. CASE RequestBlob(p)
  <2> DEFINE d == Blobs[Man(p)][idx[p]]
  <2>1. Man(p) \in Manifest /\ idx[p] \in Nat \ {0} /\ idx[p] <= Last(Man(p))
    BY <1>1 DEF TypeOK, RequestBlob
  <2>2. d \in Digest
    BY <2>1, BlobTyped
  <2>3. Cas!Fetch(p, d) \/ Cas!Hit(p, d)
    BY <1>1 DEF RequestBlob
  <2> QED
    BY <2>2, <2>3 DEF CasAct
<1>2. CASE BlobArrives(p) \/ BlobComes(p) \/ NextBlob(p) \/ FetchFails(p) \/ Kill(p)
  BY <1>2 DEF BlobArrives, BlobComes, NextBlob, FetchFails, Kill, CasAct
<1>3. CASE \/ \E r \in Ref, o \in Root, m \in Manifest : \E u \in Unpack[r] : StartPull(p, r, o, m, u)
           \/ \E r \in Ref, o \in Root : StartRmi(p, r, o)
           \/ Guard(p) \/ Clean(p) \/ Wipe(p) \/ RemoveDir(p) \/ ApplyLayer(p)
           \/ WriteMarker(p) \/ OpenEntry(p) \/ WriteEntry(p) \/ WriteLost(p)
           \/ ReadEntry(p) \/ CheckRootfs(p) \/ RemoveEntry(p) \/ Fail(p)
  BY <1>3 DEF StartPull, StartRmi, Guard, Clean, Wipe, RemoveDir, ApplyLayer, WriteMarker,
     OpenEntry, WriteEntry, WriteLost, ReadEntry, CheckRootfs, RemoveEntry, Fail, CasAct
<1> QED
  BY <1>1, <1>2, <1>3 DEF Acts, Step

LEMMA ActsMoves == ASSUME TypeOK, NEW p \in Proc, Acts(p) PROVE CasMove(p) /\ named \subseteq named'
<1>1. CasAct(p)
  BY ActsCas
<1>2. CasMove(p)
  BY <1>1, CasMoves DEF CasAct, TypeOK
<1>3. named \subseteq named'
  BY <1>1 DEF CasAct, Cas!Fetch, Cas!Hit, Cas!Race, Cas!Store, Cas!Leave, casVars
<1> QED
  BY <1>2, <1>3

(* The commands, on any root, whatever interleaves and whatever is killed, use the
   store as BlobCas: what FilesImplementCas proves of ContentStore is what they
   rely on (lib.rs, download_blob). *)
THEOREM UsesTheStore == Spec => Cas!CasSpec
<1>1. Init => Cas!CasInit
  BY DEF Init
<1>2. ASSUME TypeOK, [Next]_vars PROVE [Cas!CasNext]_Cas!casVars
  <2>1. CASE UNCHANGED vars
    BY <2>1 DEF vars, Cas!casVars
  <2>2. ASSUME NEW p \in Proc, Acts(p) PROVE [Cas!CasNext]_Cas!casVars
    BY <1>2, <2>2, ActsCas DEF CasAct, Cas!CasNext, Cas!casVars, casVars
  <2> QED
    BY <1>2, <2>1, <2>2, NextActs
<1> QED
  BY <1>1, <1>2, TypeCorrect, PTL DEF Spec, Cas!CasSpec

--------------------------------------------------------------------------------
(* Why an entry names blobs that are in the store: a pull counts the blobs it
   holds, and leaves the loop only with all of them.  No blob loses its name. *)
PresentAt(p) ==
    /\ pc[p] = "idle" => idx[p] = 1
    /\ pc[p] = "fetch" =>
        /\ job[p].cmd = "pull"
        /\ idx[p] <= Last(Man(p))
        /\ \A i \in 1..Last(Man(p)) : i < idx[p] => Blobs[Man(p)][i] \in named
    /\ client[p] # "idle" => pc[p] = "fetch" /\ want[p] = Blobs[Man(p)][idx[p]]
    /\ client[p] = "holding" => want[p] \in named
    /\ pc[p] \notin {"idle", "fetch", "failed"} /\ job[p].cmd = "pull" =>
          BlobsOf(Man(p)) \subseteq named
    /\ pc[p] \in {"guard", "clean", "apply", "save", "write", "unlinked"} => job[p].cmd = "pull"

PresentInv == EntryBlobsPresent /\ \A p \in Proc : PresentAt(p)

LEMMA OthersPresent ==
    ASSUME PresentInv, TypeOK, NEW p \in Proc, Acts(p), NEW q \in Proc, q # p
    PROVE  PresentAt(q)'
<1>1. /\ job'[q] = job[q] /\ idx'[q] = idx[q]
      /\ pc'[q] = pc[q] \/ (pc[q] = "write" /\ pc'[q] = "unlinked")
  BY ActsOthers DEF Others
<1>2. /\ want'[q] = want[q] /\ named \subseteq named'
      /\ client'[q] = client[q] \/ {client[q], client'[q]} \subseteq {"fetching", "racing"}
  BY ActsMoves DEF CasMove
<1>3. PresentAt(q)
  BY DEF PresentInv
<1> QED
  BY <1>1, <1>2, <1>3 DEF PresentAt, Man

(* Commands start and end without a blob. *)
LEMMA PresentEnds ==
    ASSUME PresentInv, TypeOK, NEW p \in Proc,
           \/ \E r \in Ref, o \in Root, m \in Manifest : \E u \in Unpack[r] : StartPull(p, r, o, m, u)
           \/ \E r \in Ref, o \in Root : StartRmi(p, r, o)
           \/ FetchFails(p) \/ Kill(p) \/ WriteEntry(p) \/ WriteLost(p) \/ Fail(p)
    PROVE  PresentAt(p)'
<1> USE DEF TypeOK, PresentInv, PresentAt
<1>1. ASSUME NEW r \in Ref, NEW o \in Root, NEW m \in Manifest, NEW u \in Unpack[r],
             StartPull(p, r, o, m, u)
      PROVE  PresentAt(p)'
  <2>1. Last(m) \in Nat \ {0} /\ Man(p)' = m
    BY <1>1, LastTyped DEF StartPull, Begin, Man
  <2> QED
    BY <1>1, <2>1 DEF StartPull, Begin, casVars
<1>2. ASSUME NEW r \in Ref, NEW o \in Root, StartRmi(p, r, o) PROVE PresentAt(p)'
  BY <1>2 DEF StartRmi, Begin, casVars
<1>3. CASE FetchFails(p) \/ Kill(p) \/ WriteEntry(p) \/ WriteLost(p) \/ Fail(p)
  <2>1. pc'[p] = "idle" /\ idx'[p] = 1
    BY <1>3 DEF FetchFails, Kill, WriteEntry, WriteLost, Fail, Exit
  <2>2. client'[p] = "idle"
    BY <1>3, MovedTyped DEF FetchFails, Kill, WriteEntry, WriteLost, Fail, Cas!Leave, casVars
  <2> QED
    BY <2>1, <2>2
<1> QED
  BY <1>1, <1>2, <1>3

(* A pull goes on to the next blob with the one it holds. *)
LEMMA PresentFetch ==
    ASSUME PresentInv, TypeOK, NEW p \in Proc,
           RequestBlob(p) \/ BlobArrives(p) \/ BlobComes(p) \/ NextBlob(p)
    PROVE  PresentAt(p)'
<1> DEFINE m == Man(p)
<1>1. /\ pc[p] = "fetch" /\ job' = job /\ job[p].cmd = "pull" /\ m \in Manifest
      /\ idx[p] \in Nat \ {0} /\ idx[p] <= Last(m) /\ Last(m) \in Nat
      /\ \A i \in 1..Last(m) : i < idx[p] => Blobs[m][i] \in named
      /\ client \in [Proc -> {"idle", "fetching", "racing", "holding"}]
      /\ want \in [Proc -> Digest \cup {NoDigest}]
  BY LastTyped DEF RequestBlob, BlobArrives, BlobComes, NextBlob, PresentInv, PresentAt, TypeOK,
     Cas!CasTypeOK, Cas!Downloading
<1>2. CASE RequestBlob(p)
  <2>1. pc' = pc /\ idx' = idx /\ named' = named /\ want'[p] = Blobs[m][idx[p]]
        /\ (client'[p] = "holding" => want'[p] \in named)
    BY <1>1, <1>2 DEF RequestBlob, Cas!Fetch, Cas!Hit
  <2> QED
    BY <1>1, <2>1 DEF PresentAt, Man
<1>3. CASE BlobArrives(p) \/ BlobComes(p)
  <2>1. /\ pc' = pc /\ idx' = idx /\ named \subseteq named' /\ want' = want
        /\ client[p] \in {"fetching", "racing"}
    BY <1>3 DEF BlobArrives, BlobComes, Cas!Store, Cas!Race, Cas!Downloading
  <2>2. client'[p] = "holding" => want[p] \in named'
    <3>1. CASE BlobArrives(p)
      BY <3>1 DEF BlobArrives, Cas!Store
    <3>2. CASE BlobComes(p)
      <4>1. PICK at \in {"fetching", client[p]} : Cas!Moved(p, at)
        BY <3>2 DEF BlobComes, Cas!Race
      <4> QED
        BY <2>1, <4>1, MovedTyped DEF TypeOK
    <3> QED
      BY <1>3, <3>1, <3>2
  <2>3. want[p] = Blobs[m][idx[p]]
    BY <2>1 DEF PresentInv, PresentAt
  <2> QED
    BY <1>1, <2>1, <2>2, <2>3 DEF PresentAt, Man
<1>4. CASE NextBlob(p)
  <2>1. /\ named' = named /\ idx'[p] = idx[p] + 1 /\ client'[p] = "idle"
        /\ Blobs[m][idx[p]] \in named
    BY <1>1, <1>4, MovedTyped DEF NextBlob, Cas!Leave, TypeOK, PresentInv, PresentAt
  <2>2. \A i \in 1..Last(m) : i < idx[p] + 1 => Blobs[m][i] \in named
    BY <1>1, <2>1
  <2>3. \/ pc'[p] = "failed"
        \/ pc'[p] = "fetch" /\ idx[p] + 1 <= Last(m)
        \/ pc'[p] = "guard" /\ idx[p] = Last(m)
    BY <1>1, <1>4 DEF NextBlob, TypeOK
  <2>4. idx[p] = Last(m) => BlobsOf(m) \subseteq named
    BY <1>1, <2>2 DEF BlobsOf
  <2> QED
    BY <1>1, <2>1, <2>2, <2>3, <2>4 DEF PresentAt, Man
<1> QED
  BY <1>2, <1>3, <1>4

LEMMA PresentWork ==
    ASSUME PresentInv, TypeOK, NEW p \in Proc,
           \/ Guard(p) \/ Clean(p) \/ Wipe(p) \/ RemoveDir(p) \/ ApplyLayer(p)
           \/ WriteMarker(p) \/ OpenEntry(p) \/ ReadEntry(p) \/ CheckRootfs(p) \/ RemoveEntry(p)
    PROVE  PresentAt(p)'
<1>1. /\ pc[p] \notin {"idle", "fetch", "failed"} /\ client[p] = "idle" /\ UNCHANGED casVars
      /\ PresentAt(p)
  BY DEF Guard, Clean, Wipe, RemoveDir, ApplyLayer, WriteMarker, OpenEntry, ReadEntry,
     CheckRootfs, RemoveEntry, PresentInv, PresentAt
<1>2. CASE Guard(p) \/ Clean(p) \/ Wipe(p) \/ RemoveDir(p) \/ ApplyLayer(p) \/ WriteMarker(p)
           \/ OpenEntry(p) \/ CheckRootfs(p)
  <2>1. job' = job /\ pc'[p] \notin {"idle", "fetch"}
    BY <1>1, <1>2 DEF Guard, Clean, Wipe, RemoveDir, ApplyLayer, WriteMarker, OpenEntry,
       CheckRootfs, Goto, TypeOK
  <2>2. pc'[p] \in {"guard", "clean", "apply", "save", "write", "unlinked"} => job[p].cmd = "pull"
    BY <1>1, <1>2 DEF Guard, Clean, Wipe, RemoveDir, ApplyLayer, WriteMarker, OpenEntry,
       CheckRootfs, Goto, TypeOK, PresentAt
  <2> QED
    BY <1>1, <2>1, <2>2 DEF PresentAt, casVars, Man
<1>3. CASE ReadEntry(p)
  <2>1. pc'[p] \in {"check", "failed"} /\ pc[p] = "read" /\ job[p] \in Job
    BY <1>1, <1>3 DEF ReadEntry, Goto, TypeOK
  <2>2. pc'[p] = "check" => Man(p)' = catalog[job[p].ref].body.man /\ Readable(job[p].ref)
    BY <1>3, <2>1 DEF ReadEntry, Goto, TypeOK, Man, Job
  <2>3. pc'[p] = "check" => BlobsOf(Man(p)') \subseteq named
    BY <2>1, <2>2 DEF PresentInv, EntryBlobsPresent, Job
  <2> QED
    BY <1>1, <2>1, <2>3 DEF PresentAt, casVars
<1>4. CASE RemoveEntry(p)
  <2>1. CASE pc'[p] = "idle"
    BY <1>1, <1>4, <2>1 DEF RemoveEntry, Goto, PresentAt, TypeOK, casVars
  <2>2. CASE pc'[p] # "idle"
    BY <1>1, <1>4, <2>2 DEF RemoveEntry, Goto, PresentAt, TypeOK, casVars
  <2> QED
    BY <2>1, <2>2
<1> QED
  BY <1>2, <1>3, <1>4

LEMMA EntriesPresent ==
    ASSUME PresentInv, TypeOK, EntryOpen, NEW p \in Proc, Acts(p)
    PROVE  EntryBlobsPresent'
<1> SUFFICES ASSUME NEW r \in Ref, Readable(r)'
             PROVE  BlobsOf(catalog'[r].body.man) \subseteq named'
  BY DEF EntryBlobsPresent, BlobsOf
<1>1. named \subseteq named'
  BY ActsMoves
<1>2. CASE WriteEntry(p) /\ r = job[p].ref
  <2>1. catalog'[r] = Over(catalog[r], EntryOf(p)) /\ BlobsOf(Man(p)) \subseteq named
    BY <1>2 DEF WriteEntry, TypeOK, PresentInv, PresentAt
  <2>2. Over(catalog[r], EntryOf(p)).body \in {Torn, EntryOf(p)}
    BY DEF Over
  <2>3. catalog'[r].body.man = Man(p)
    BY <2>1, <2>2 DEF Readable, EntryOf
  <2> QED
    BY <1>1, <2>1, <2>3
<1>3. CASE OpenEntry(p) /\ r = job[p].ref
  BY <1>3 DEF OpenEntry, Readable, TypeOK
<1>4. CASE ~(WriteEntry(p) \/ OpenEntry(p)) \/ r # job[p].ref
  <2>1. catalog'[r] = catalog[r] \/ catalog'[r] = NoFile
    BY <1>4 DEF Acts, Step, StartPull, StartRmi, RequestBlob, BlobArrives, BlobComes, NextBlob,
       FetchFails, Kill, Guard, Clean, Wipe, RemoveDir, ApplyLayer, WriteMarker, OpenEntry,
       WriteEntry, WriteLost, ReadEntry, CheckRootfs, RemoveEntry, Fail, TypeOK
  <2>2. Readable(r) /\ catalog'[r] = catalog[r]
    BY <2>1 DEF Readable
  <2> QED
    BY <1>1, <2>2 DEF PresentInv, EntryBlobsPresent
<1> QED
  BY <1>2, <1>3, <1>4

LEMMA PresentAlways == Spec => []PresentInv
<1>1. Init => PresentInv
  BY DEF Init, PresentInv, PresentAt, EntryBlobsPresent, Readable, Cas!CasInit
<1>2. ASSUME TypeOK, EntryOpen, PresentInv, [Next]_vars PROVE PresentInv'
  <2>1. CASE UNCHANGED vars
    BY <1>2, <2>1 DEF vars, PresentInv, PresentAt, EntryBlobsPresent, Readable, BlobsOf, Man
  <2>2. ASSUME NEW p \in Proc, Acts(p) PROVE PresentInv'
    <3>1. PresentAt(p)'
      BY <1>2, <2>2, PresentEnds, PresentFetch, PresentWork DEF Acts, Step
    <3> QED
      BY <1>2, <2>2, <3>1, OthersPresent, EntriesPresent DEF PresentInv
  <2> QED
    BY <1>2, <2>1, <2>2, NextActs
<1> QED
  BY <1>1, <1>2, OpenAlways, PTL DEF Spec

(* Whatever interleaves, races for a blob or is killed, an entry of the catalog
   names blobs that have a file in the store (lib.rs, download_blob). *)
THEOREM CatalogBlobsPresent == Spec => []EntryBlobsPresent
<1>1. PresentInv => EntryBlobsPresent
  BY DEF PresentInv
<1> QED
  BY <1>1, PresentAlways, PTL

(* Where downloads of one blob are kept apart, no client ever races and what has a
   name was verified. *)
CasCalm ==
    /\ Cas!CasTypeOK
    /\ stored = named
    /\ \A p \in Proc : client[p] # "racing"

LEMMA CasCalmAlways == ASSUME OneWriter PROVE Cas!CasSpec => []CasCalm
<1>1. Cas!CasInit => CasCalm
  BY DEF Cas!CasInit, CasCalm, Cas!CasTypeOK
<1>2. ASSUME CasCalm, [Cas!CasNext]_Cas!casVars PROVE CasCalm'
  <2> USE DEF CasCalm
  <2>1. CASE UNCHANGED Cas!casVars
    BY <1>2, <2>1 DEF Cas!casVars, Cas!CasTypeOK
  <2>2. ASSUME NEW p \in Proc, CasAct(p) PROVE CasCalm'
    <3>1. Cas!CasTypeOK'
      BY <1>2, <2>2, CasMoves DEF CasAct
    <3>2. ASSUME NEW at, Cas!Moved(p, at) PROVE \A q \in Proc \ {p} : client'[q] = client[q]
      BY <1>2, <3>2 DEF Cas!Moved, Cas!Rivals
    <3>3. ASSUME NEW at, Cas!Moved(p, at) PROVE client'[p] = at
      BY <1>2, <3>3, MovedTyped
    <3>4. CASE \E d \in Digest : Cas!Fetch(p, d) \/ Cas!Hit(p, d)
      BY <1>2, <3>1, <3>4 DEF Cas!Fetch, Cas!Hit, Cas!CasTypeOK
    <3>5. CASE Cas!Race(p)
      BY <1>2, <3>1, <3>2, <3>3, <3>5 DEF Cas!Race
    <3>6. CASE Cas!Store(p)
      BY <1>2, <3>1, <3>2, <3>3, <3>6 DEF Cas!Store
    <3>7. CASE Cas!Leave(p)
      BY <1>2, <3>1, <3>2, <3>3, <3>7 DEF Cas!Leave
    <3>8. CASE UNCHANGED casVars
      BY <1>2, <3>1, <3>8 DEF casVars
    <3> QED
      BY <2>2, <3>4, <3>5, <3>6, <3>7, <3>8 DEF CasAct
  <2> QED
    BY <1>2, <2>1, <2>2 DEF Cas!CasNext, CasAct
<1> QED
  BY <1>1, <1>2, PTL DEF Cas!CasSpec

(* So there an entry names blobs whose files have the content that was verified
   (lib.rs, pull).  StoreRaceDamage shows what becomes of one elsewhere. *)
THEOREM CatalogBlobsStored == ASSUME OneWriter PROVE Spec => []EntryBlobsStored
<1>1. PresentInv /\ CasCalm => EntryBlobsStored
  BY DEF PresentInv, CasCalm, EntryBlobsPresent, EntryBlobsStored
<1> QED
  BY <1>1, PresentAlways, UsesTheStore, CasCalmAlways, PTL

--------------------------------------------------------------------------------
(* Where commands on one reference are kept apart, the entry that is open is as
   empty as the open left it. *)
OnePerRef ==
    \A p, q \in Proc :
        p # q /\ pc[p] # "idle" /\ pc[q] # "idle" => job[p].ref # job[q].ref

OpenEmpty == \A p \in Proc : pc[p] = "write" => catalog[job[p].ref].size = 0

LEMMA StartsAlone ==
    ASSUME TypeOK, Serialized, OnePerRef, OpenEmpty, NEW p \in Proc,
           \/ \E r \in Ref, o \in Root, m \in Manifest : \E u \in Unpack[r] : StartPull(p, r, o, m, u)
           \/ \E r \in Ref, o \in Root : StartRmi(p, r, o)
    PROVE  OnePerRef' /\ OpenEmpty'
<1>1. PICK at \in {"fetch", "read"} : \E j : Begin(p, at, j) /\ catalog' = catalog
  BY DEF StartPull, StartRmi
<1>2. PICK j : Begin(p, at, j) /\ catalog' = catalog
  BY <1>1
<1>3. /\ pc'[p] = at /\ job'[p] = j /\ ~Busy(j.ref)
      /\ \A q \in Proc \ {p} : pc'[q] = pc[q] /\ job'[q] = job[q]
  BY <1>2 DEF Begin, TypeOK
<1>4. OnePerRef'
  BY <1>3 DEF OnePerRef, Busy
<1>5. OpenEmpty'
  BY <1>2, <1>3 DEF OpenEmpty
<1> QED
  BY <1>4, <1>5

LEMMA RunsAlone ==
    ASSUME TypeOK, OnePerRef, OpenEmpty, NEW p \in Proc,
           Step(p) \/ BlobComes(p) \/ FetchFails(p) \/ Kill(p)
    PROVE  OnePerRef' /\ OpenEmpty'
<1>1. pc[p] # "idle" /\ job[p].ref \in Ref /\ (pc'[p] = "idle" \/ job'[p].ref = job[p].ref)
  <2>1. CASE RequestBlob(p) \/ BlobArrives(p) \/ BlobComes(p) \/ NextBlob(p) \/ FetchFails(p)
             \/ Kill(p)
    BY <2>1 DEF RequestBlob, BlobArrives, BlobComes, NextBlob, FetchFails, Kill, Exit, TypeOK, Job
  <2>2. CASE Guard(p) \/ Clean(p) \/ Wipe(p) \/ RemoveDir(p) \/ ApplyLayer(p) \/ WriteMarker(p)
    BY <2>2 DEF Guard, Clean, Wipe, RemoveDir, ApplyLayer, WriteMarker, Goto, TypeOK, Job
  <2>3. CASE OpenEntry(p) \/ WriteEntry(p) \/ WriteLost(p) \/ CheckRootfs(p) \/ Fail(p)
             \/ RemoveEntry(p)
    BY <2>3 DEF OpenEntry, WriteEntry, WriteLost, CheckRootfs, Fail, RemoveEntry, Goto, Exit,
       TypeOK, Job
  <2>4. CASE ReadEntry(p)
    BY <2>4 DEF ReadEntry, Goto, TypeOK, Job
  <2> QED
    BY <2>1, <2>2, <2>3, <2>4 DEF Step
<1>2. Others(p)
  BY ActsOthers DEF Acts
<1>3. OnePerRef'
  BY <1>1, <1>2 DEF OnePerRef, Others
<1>4. \A r \in Ref : r # job[p].ref => catalog'[r] = catalog[r]
  BY <1>1 DEF Step, RequestBlob, BlobArrives, BlobComes, NextBlob, FetchFails, Kill, Guard,
     Clean, Wipe, RemoveDir, ApplyLayer, WriteMarker, OpenEntry, WriteEntry, WriteLost,
     ReadEntry, CheckRootfs, RemoveEntry, Fail, TypeOK
<1>5. pc'[p] = "write" => catalog'[job'[p].ref].size = 0
  <2>1. ASSUME pc'[p] = "write" PROVE OpenEntry(p)
    BY <1>1, <2>1 DEF Step, RequestBlob, BlobArrives, BlobComes, NextBlob, FetchFails, Kill,
       Guard, Clean, Wipe, RemoveDir, ApplyLayer, WriteMarker, WriteEntry, WriteLost,
       ReadEntry, CheckRootfs, RemoveEntry, Fail, Goto, Exit, TypeOK
  <2> QED
    BY <1>1, <2>1 DEF OpenEntry, Goto, TypeOK
<1>6. ASSUME NEW q \in Proc \ {p}, pc'[q] = "write" PROVE catalog'[job'[q].ref].size = 0
  <2>1. pc[q] = "write" /\ job'[q] = job[q] /\ job[q].ref \in Ref
    BY <1>2, <1>6 DEF Others, TypeOK, Job
  <2>2. job[q].ref # job[p].ref
    BY <1>1, <2>1 DEF OnePerRef
  <2> QED
    BY <1>4, <2>1, <2>2 DEF OpenEmpty
<1> QED
  BY <1>3, <1>5, <1>6 DEF OpenEmpty

LEMMA AloneAlways == ASSUME Serialized PROVE Spec => [](TypeOK /\ OnePerRef /\ OpenEmpty)
<1>1. Init => OnePerRef /\ OpenEmpty
  BY DEF Init, OnePerRef, OpenEmpty
<1>2. TypeOK /\ OnePerRef /\ OpenEmpty /\ [Next]_vars => OnePerRef' /\ OpenEmpty'
  <2>1. CASE UNCHANGED vars
    BY <2>1 DEF vars, OnePerRef, OpenEmpty
  <2> QED
    BY <2>1, StartsAlone, RunsAlone DEF Next
<1> QED
  BY <1>1, <1>2, TypeCorrect, PTL DEF Spec

(* Nothing that was written since is beyond the end of the entry. *)
LEMMA WritesWhole ==
    ASSUME TypeOK, NEW p \in Proc, WriteEntry(p), catalog[job[p].ref].size = 0
    PROVE  catalog'[job[p].ref].body = EntryOf(p)
<1> DEFINE r == job[p].ref
<1>1. r \in Ref /\ EntryOf(p) \in Entry
  BY DEF WriteEntry, TypeOK, Job, Entry, EntryOf, Man
<1>2. catalog[r].size = 0 /\ EntrySize(EntryOf(p)) \in Nat
  BY <1>1, SizeTyped
<1>3. catalog'[r] = Over(catalog[r], EntryOf(p))
  BY <1>1 DEF WriteEntry, TypeOK
<1>4. Over(catalog[r], EntryOf(p)) = [size |-> EntrySize(EntryOf(p)), body |-> EntryOf(p)]
  BY <1>2 DEF Over
<1> QED
  BY <1>3, <1>4

(* An entry is written whole, also over one that a killed pull left and whatever
   else runs on the root (catalog.rs, save). *)
THEOREM SavesReadable == ASSUME Serialized PROVE Spec => SavedReadable
<1>1. TypeOK /\ OnePerRef /\ OpenEmpty /\ [Next]_vars =>
        [\A p \in Proc : WriteEntry(p) => catalog'[job[p].ref].body = EntryOf(p)]_vars
  <2>1. ASSUME TypeOK, OpenEmpty, NEW p \in Proc, WriteEntry(p)
        PROVE  catalog'[job[p].ref].body = EntryOf(p)
    BY <2>1, WritesWhole DEF OpenEmpty, WriteEntry
  <2> QED
    BY <2>1
<1> QED
  BY <1>1, AloneAlways, PTL DEF Spec, SavedReadable

--------------------------------------------------------------------------------
(* From here on: commands on one reference are kept apart and no image belongs to
   two references, the conditions under which a rootfs directory is one command's
   at a time.  What is said of marks needs that no rmi is killed half way. *)

Apart ==
    /\ Serialized
    /\ \A r, s \in Ref : r # s => Published[r] \cap Published[s] = {}

RmisEnd == "rmi" \notin Killed

(* What holds of a running command: it works on an image of its reference; an rmi
   on what the entry names, once it has read it; the directory is as far as the
   command has got. *)
Found(p) == job[p].cmd = "pull" \/ pc[p] \notin {"read", "failed"}

JobOfRef(p) ==
    IF Found(p) THEN Man(p) \in Published[job[p].ref] ELSE Man(p) = NoManifest

Phase(p) ==
    /\ pc[p] \in {"fetch", "guard", "clean", "apply", "save", "write"} => job[p].cmd = "pull"
    /\ pc[p] \in {"read", "check", "unlink"} => job[p].cmd = "rmi"
    /\ pc[p] \in {"clean", "wipe", "rmdir", "apply"} => job[p].unpack
    /\ pc[p] # "unlinked"

RmiNames(p) ==
    job[p].cmd = "rmi" =>
        /\ catalog[job[p].ref] # NoFile
        /\ pc[p] = "failed" => ~Readable(job[p].ref)
        /\ Found(p) =>
             /\ Readable(job[p].ref)
             /\ catalog[job[p].ref].body.man = Man(p)
             /\ job[p].unpack <=> /\ catalog[job[p].ref].body.rootfs
                                 /\ catalog[job[p].ref].body.root = job[p].root

Progress(p) ==
    /\ pc[p] = "clean" => Marker \notin items[Man(p)]
    /\ pc[p] \in {"wipe", "rmdir"} =>
          Man(p) \in dirs /\ (job[p].cmd = "pull" => idx[p] = 2 /\ Marker \notin items[Man(p)])
    /\ pc[p] = "rmdir" => items[Man(p)] = {}
    /\ pc[p] = "apply" =>
          /\ idx[p] \in 2..(Last(Man(p)) + 1) /\ items[Man(p)] = 2..(idx[p] - 1)
          /\ idx[p] > 2 => Man(p) \in dirs
    /\ RmisEnd /\ pc[p] \in {"save", "write"} /\ job[p].unpack => Complete(Man(p))
    /\ pc[p] = "write" => catalog[job[p].ref].size = 0
    /\ pc[p] = "unlink" /\ job[p].unpack => Man(p) \notin dirs

Sound(p) == pc[p] # "idle" => JobOfRef(p) /\ Phase(p) /\ RmiNames(p) /\ Progress(p)

(* What holds of the root. *)
EntryOfRef(r) == Readable(r) => catalog[r].body.man \in Published[r]
NoDirEmpty(m) == m \notin dirs => items[m] = {}
Marked(m)     == RmisEnd /\ Marker \in items[m] => Complete(m) \/ Removing(m)
Usable(r)     ==
    RmisEnd /\ Readable(r) /\ catalog[r].body.rootfs =>
        \/ Complete(catalog[r].body.man)
        \/ \E p \in Proc : pc[p] # "idle" /\ job[p].cmd = "rmi" /\ job[p].ref = r

ApartInv ==
    /\ OnePerRef
    /\ \A p \in Proc : Sound(p)
    /\ \A r \in Ref : EntryOfRef(r) /\ Usable(r)
    /\ \A m \in Manifest : NoDirEmpty(m) /\ Marked(m)

(* A step of a running command changes nothing but its own state, the entry of its
   reference and the directory of its image. *)
Still(p) ==
    \A q \in Proc \ {p} : pc'[q] = pc[q] /\ job'[q] = job[q] /\ idx'[q] = idx[q]

Local(p) ==
    /\ Still(p)
    /\ pc'[p] = "idle" \/ job'[p] = job[p]
    /\ \A m \in Manifest \ {Man(p)} : items'[m] = items[m] /\ (m \in dirs' <=> m \in dirs)
    /\ \A r \in Ref \ {job[p].ref} : catalog'[r] = catalog[r]

LEMMA FoundImage ==
    ASSUME TypeOK, ApartInv, NEW p \in Proc, pc[p] # "idle", Found(p)
    PROVE  job[p].ref \in Ref /\ Man(p) \in Manifest
<1>1. job[p].ref \in Ref
  BY DEF TypeOK, Job
<1>2. Man(p) \in Published[job[p].ref]
  BY DEF ApartInv, Sound, JobOfRef
<1> QED
  BY <1>1, <1>2, ImagesAssumption

(* Two running commands work on different images. *)
LEMMA OtherImage ==
    ASSUME TypeOK, Apart, ApartInv, NEW p \in Proc, NEW q \in Proc, p # q,
           pc[p] # "idle", pc[q] # "idle"
    PROVE  /\ job[p].ref # job[q].ref
           /\ Man(p) \in Manifest \/ Man(q) \in Manifest => Man(p) # Man(q)
<1>1. job[p].ref \in Ref /\ job[q].ref \in Ref
  BY DEF TypeOK, Job
<1>2. job[p].ref # job[q].ref
  BY DEF ApartInv, OnePerRef
<1>3. JobOfRef(p) /\ JobOfRef(q)
  BY DEF ApartInv, Sound
<1> QED
  BY <1>1, <1>2, <1>3, ImagesAssumption DEF JobOfRef, Apart

(* So a step of one leaves the others sound, *)
LEMMA OthersSound ==
    ASSUME TypeOK, Apart, ApartInv, NEW p \in Proc, pc[p] # "idle", Local(p),
           NEW q \in Proc, q # p
    PROVE  Sound(q)'
<1> SUFFICES ASSUME pc[q] # "idle" PROVE Sound(q)'
  BY DEF Local, Still, Sound
<1>1. /\ pc'[q] = pc[q] /\ job'[q] = job[q] /\ idx'[q] = idx[q]
      /\ Man(q)' = Man(q)
  BY DEF Local, Still, Man
<1>2. job[q].ref \in Ref /\ (pc[q] \notin {"idle", "read", "failed"} => Man(q) \in Manifest)
  BY DEF TypeOK, Job
<1>3. /\ catalog'[job[q].ref] = catalog[job[q].ref]
      /\ Man(q) \in Manifest =>
            items'[Man(q)] = items[Man(q)] /\ (Man(q) \in dirs' <=> Man(q) \in dirs)
  BY <1>2, OtherImage DEF Local, Still
<1>4. Sound(q)
  BY DEF ApartInv
<1>5. JobOfRef(q)' /\ Phase(q)'
  BY <1>1, <1>4 DEF Sound, JobOfRef, Phase, Found
<1>6. RmiNames(q)'
  BY <1>1, <1>3, <1>4 DEF Sound, RmiNames, Readable, Found
<1>7. Progress(q)'
  BY <1>1, <1>2, <1>3, <1>4 DEF Sound, Progress, Complete
<1> QED
  BY <1>5, <1>6, <1>7 DEF Sound

(* and it keeps the whole invariant if it keeps what concerns its own reference
   and its own image. *)
LEMMA LocalStep ==
    ASSUME TypeOK, Apart, ApartInv, NEW p \in Proc, pc[p] # "idle", Local(p), Sound(p)',
           NEW r \in Ref, NEW m \in Manifest, r = job[p].ref, m = Man(p),
           Found(p), EntryOfRef(r)', Usable(r)', NoDirEmpty(m)', Marked(m)'
    PROVE  ApartInv'
<1>1. OnePerRef'
  BY DEF ApartInv, OnePerRef, Local, Still
<1>2. ASSUME NEW s \in Ref PROVE EntryOfRef(s)' /\ Usable(s)'
  <2>1. CASE s = r
    BY <2>1
  <2>2. CASE s # r
    <3>1. catalog'[s] = catalog[s] /\ EntryOfRef(s) /\ Usable(s) /\ JobOfRef(p)
      BY <2>2 DEF Local, Still, ApartInv, Sound
    <3>2. EntryOfRef(s)'
      BY <3>1 DEF EntryOfRef, Readable
    <3>3. ASSUME Readable(s), catalog[s].body.rootfs, Complete(catalog[s].body.man)
          PROVE  Complete(catalog[s].body.man)'
      <4>1. catalog[s].body.man \in Manifest /\ catalog[s].body.man # m
        BY <2>2, <3>1, <3>3, ImagesAssumption DEF EntryOfRef, JobOfRef, Apart
      <4> QED
        BY <3>1, <3>3, <4>1 DEF Local, Still, Complete
    <3>4. ASSUME NEW q \in Proc, pc[q] # "idle", job[q].cmd = "rmi", job[q].ref = s
          PROVE  pc'[q] # "idle" /\ job'[q].cmd = "rmi" /\ job'[q].ref = s
      BY <2>2, <3>4 DEF Local, Still
    <3> QED
      BY <3>1, <3>2, <3>3, <3>4 DEF Usable, Readable
  <2> QED
    BY <2>1, <2>2
<1>3. ASSUME NEW n \in Manifest PROVE NoDirEmpty(n)' /\ Marked(n)'
  <2>1. CASE n = m
    BY <2>1
  <2>2. CASE n # m
    <3>1. items'[n] = items[n] /\ (n \in dirs' <=> n \in dirs) /\ NoDirEmpty(n) /\ Marked(n)
      BY <2>2 DEF Local, Still, ApartInv
    <3>2. ASSUME NEW q \in Proc, pc[q] \in {"wipe", "rmdir"}, Man(q) = n
          PROVE  pc'[q] \in {"wipe", "rmdir"} /\ Man(q)' = n
      BY <2>2, <3>2 DEF Local, Still, Man
    <3> QED
      BY <3>1, <3>2 DEF NoDirEmpty, Marked, Complete, Removing
  <2> QED
    BY <2>1, <2>2
<1> QED
  BY <1>1, <1>2, <1>3, OthersSound DEF ApartInv

(* While a pull runs no rmi of its reference does: the entry is usable as it is. *)
LEMMA PullSeesUsable ==
    ASSUME TypeOK, ApartInv, NEW p \in Proc, pc[p] # "idle", job[p].cmd = "pull",
           NEW r \in Ref, r = job[p].ref, Readable(r), catalog[r].body.rootfs, RmisEnd
    PROVE  Complete(catalog[r].body.man)
<1>1. Usable(r)
  BY DEF ApartInv
<1>2. ~ \E q \in Proc : pc[q] # "idle" /\ job[q].cmd = "rmi" /\ job[q].ref = r
  BY DEF ApartInv, OnePerRef
<1> QED
  BY <1>1, <1>2 DEF Usable

(* So a pull may do as it likes with a directory that is not complete. *)
LEMMA PullKeepsUsable ==
    ASSUME TypeOK, ApartInv, NEW p \in Proc, pc[p] # "idle", job[p].cmd = "pull", Local(p),
           NEW r \in Ref, NEW m \in Manifest, r = job[p].ref, m = Man(p),
           catalog' = catalog, Complete(m) => Complete(m)'
    PROVE  EntryOfRef(r)' /\ Usable(r)'
<1>1. EntryOfRef(r)
  BY DEF ApartInv
<1>2. EntryOfRef(r)'
  BY <1>1 DEF EntryOfRef, Readable
<1>3. ASSUME Readable(r), catalog[r].body.rootfs, RmisEnd
      PROVE  Complete(catalog[r].body.man)'
  <2>1. Complete(catalog[r].body.man) /\ catalog[r].body.man \in Manifest
    BY <1>1, <1>3, PullSeesUsable, ImagesAssumption DEF EntryOfRef
  <2>2. CASE catalog[r].body.man = m
    BY <2>1, <2>2 DEF Complete
  <2>3. CASE catalog[r].body.man # m
    BY <2>1, <2>3 DEF Local, Still, Complete
  <2> QED
    BY <2>2, <2>3
<1> QED
  BY <1>2, <1>3 DEF Usable, Readable

(* An rmi that goes on is the excuse of its entry. *)
LEMMA RmiKeepsUsable ==
    ASSUME TypeOK, ApartInv, NEW p \in Proc, pc'[p] # "idle", job[p].cmd = "rmi",
           job'[p] = job[p], NEW r \in Ref, r = job[p].ref, catalog' = catalog
    PROVE  EntryOfRef(r)' /\ Usable(r)'
BY DEF ApartInv, EntryOfRef, Usable, Readable

(* A mark needs no command that removes the directory but this one. *)
LEMMA MarkOfOwn ==
    ASSUME TypeOK, Apart, ApartInv, NEW p \in Proc, pc[p] # "idle",
           NEW m \in Manifest, m = Man(p), pc[p] \notin {"wipe", "rmdir"}, Marker \in items[m],
           RmisEnd
    PROVE  Complete(m)
<1>1. Marked(m)
  BY DEF ApartInv
<1>2. ~Removing(m)
  BY OtherImage DEF Removing
<1> QED
  BY <1>1, <1>2 DEF Marked

--------------------------------------------------------------------------------
(* The steps by which a command starts, an rmi reads its entry, or ends because it
   cannot: nothing changes but the command's own state. *)
LEMMA StillStep ==
    ASSUME TypeOK, ApartInv, NEW p \in Proc, Still(p),
           UNCHANGED <<dirs, items, catalog>>, OnePerRef', Sound(p)',
           pc[p] \notin {"wipe", "rmdir"},
           \/ pc[p] = "idle"
           \/ pc'[p] # "idle" /\ job'[p].cmd = job[p].cmd /\ job'[p].ref = job[p].ref
           \/ ~Readable(job[p].ref) \/ ~RmisEnd
    PROVE  ApartInv'
<1>1. ASSUME NEW q \in Proc, q # p PROVE Sound(q)'
  BY <1>1 DEF Still, ApartInv, Sound, JobOfRef, Phase, RmiNames, Progress, Readable,
     Complete, Man, Found
<1>2. ASSUME NEW s \in Ref PROVE EntryOfRef(s)' /\ Usable(s)'
  <2>1. EntryOfRef(s) /\ Usable(s)
    BY DEF ApartInv
  <2>2. \A q \in Proc : pc[q] # "idle" /\ q # p => pc'[q] = pc[q] /\ job'[q] = job[q]
    BY DEF Still
  <2> QED
    BY <2>1, <2>2 DEF EntryOfRef, Usable, Readable, Complete
<1>3. ASSUME NEW n \in Manifest PROVE NoDirEmpty(n)' /\ Marked(n)'
  <2>1. NoDirEmpty(n) /\ Marked(n)
    BY DEF ApartInv
  <2>2. \A q \in Proc : pc[q] \in {"wipe", "rmdir"} => pc'[q] = pc[q] /\ job'[q] = job[q]
    BY DEF Still
  <2> QED
    BY <2>1, <2>2 DEF NoDirEmpty, Marked, Removing, Complete, Man
<1> QED
  BY <1>1, <1>2, <1>3 DEF ApartInv

(* The commands start where no other works on their reference. *)
LEMMA StartStep ==
    ASSUME TypeOK, Apart, ApartInv, NEW p \in Proc, NEW at, NEW j \in Job, Begin(p, at, j),
           UNCHANGED <<dirs, items, catalog>>,
           \/ at = "fetch" /\ j.cmd = "pull" /\ j.man \in Published[j.ref]
           \/ at = "read" /\ j.cmd = "rmi" /\ j.man = NoManifest /\ catalog[j.ref] # NoFile
    PROVE  ApartInv'
<1>1. /\ pc[p] = "idle" /\ pc'[p] = at /\ job'[p] = j /\ ~Busy(j.ref)
      /\ \A q \in Proc \ {p} : pc'[q] = pc[q] /\ job'[q] = job[q] /\ idx'[q] = idx[q]
  BY DEF Begin, TypeOK, Apart
<1>2. OnePerRef'
  BY <1>1 DEF ApartInv, OnePerRef, Busy
<1>3. Sound(p)'
  BY <1>1 DEF Sound, JobOfRef, Found, Phase, RmiNames, Progress, Found, Man
<1>4. Still(p)
  BY <1>1 DEF Still
<1> QED
  BY <1>1, <1>2, <1>3, <1>4, StillStep

LEMMA StartPullStep ==
    ASSUME TypeOK, Apart, ApartInv, NEW p \in Proc, NEW r \in Ref, NEW o \in Root,
           NEW m \in Manifest, NEW u \in Unpack[r], StartPull(p, r, o, m, u)
    PROVE  ApartInv'
<1> DEFINE j == [cmd |-> "pull", ref |-> r, root |-> o, man |-> m, unpack |-> u]
<1>1. j \in Job /\ j.cmd = "pull" /\ j.ref = r /\ j.man = m
  BY ImagesAssumption DEF Job
<1>2. Begin(p, "fetch", j) /\ m \in Published[r] /\ UNCHANGED <<dirs, items, catalog>>
  BY DEF StartPull
<1>3. j.man \in Published[j.ref]
  BY <1>1, <1>2
<1> HIDE DEF j
<1> QED
  BY <1>1, <1>2, <1>3, StartStep

LEMMA StartRmiStep ==
    ASSUME TypeOK, Apart, ApartInv, NEW p \in Proc, NEW r \in Ref, NEW o \in Root,
           StartRmi(p, r, o)
    PROVE  ApartInv'
<1> DEFINE j == [cmd |-> "rmi", ref |-> r, root |-> o, man |-> NoManifest, unpack |-> FALSE]
<1>1. j \in Job /\ j.cmd = "rmi" /\ j.ref = r /\ j.man = NoManifest
  BY DEF Job
<1>2. Begin(p, "read", j) /\ catalog[r] # NoFile /\ UNCHANGED <<dirs, items, catalog>>
  BY DEF StartRmi
<1> HIDE DEF j
<1> QED
  BY <1>1, <1>2, StartStep

(* An rmi reads what nobody else writes: an entry, whole or cut short. *)
LEMMA ReadEntryStep ==
    ASSUME TypeOK, Apart, ApartInv, NEW p \in Proc, ReadEntry(p)
    PROVE  ApartInv'
<1> DEFINE r == job[p].ref
           e == catalog[r].body
<1>1. /\ pc[p] = "read" /\ job[p] \in Job /\ r \in Ref /\ job[p].cmd = "rmi"
      /\ catalog[r] # NoFile /\ Man(p) = NoManifest /\ UNCHANGED <<dirs, items, catalog>>
  BY DEF ReadEntry, ApartInv, Sound, Phase, RmiNames, JobOfRef, Found, TypeOK, Job
<1>2. Still(p)
  BY DEF ReadEntry, Goto, TypeOK, Still
<1>3. /\ pc'[p] # "idle" /\ job'[p].cmd = "rmi" /\ job'[p].ref = r
      /\ Sound(p)'
  <2>1. CASE Readable(r)
    <3>1. /\ pc'[p] = "check" /\ e \in Entry
          /\ job'[p] = [job[p] EXCEPT !.man = e.man,
                                      !.unpack = e.rootfs /\ e.root = job[p].root]
      BY <1>1, <2>1 DEF ReadEntry, TypeOK, Readable, File
    <3>2. /\ job'[p].cmd = "rmi" /\ job'[p].ref = r /\ job'[p].man = e.man
          /\ job'[p].root = job[p].root
          /\ job'[p].unpack = (e.rootfs /\ e.root = job[p].root)
      BY <1>1, <3>1 DEF Job
    <3>3. e.man \in Published[r]
      BY <1>1, <2>1 DEF ApartInv, EntryOfRef
    <3>4. RmiNames(p)'
      BY <1>1, <2>1, <3>1, <3>2 DEF RmiNames, Readable, Man
    <3>5. JobOfRef(p)' /\ Phase(p)' /\ Progress(p)'
      BY <3>1, <3>2, <3>3 DEF JobOfRef, Phase, Progress, Found, Man
    <3> QED
      BY <3>1, <3>2, <3>4, <3>5 DEF Sound
  <2>2. CASE ~Readable(r)
    BY <1>1, <2>2 DEF ReadEntry, Goto, TypeOK, Sound, JobOfRef, Phase, RmiNames, Progress,
       Readable, Found, Man
  <2> QED
    BY <2>1, <2>2
<1>4. OnePerRef'
  BY <1>1, <1>2, <1>3 DEF Still, ApartInv, OnePerRef
<1> QED
  BY <1>1, <1>2, <1>3, <1>4, StillStep

--------------------------------------------------------------------------------
(* The steps that touch neither the directories nor the catalog. *)
LEMMA QuietStep ==
    ASSUME TypeOK, Apart, ApartInv, NEW p \in Proc, pc[p] # "idle", Local(p), Sound(p)',
           UNCHANGED <<dirs, items, catalog>>,
           Found(p), pc[p] \notin {"wipe", "rmdir"},
           job[p].cmd = "rmi" => pc'[p] # "idle"
    PROVE  ApartInv'
<1>1. PICK r \in Ref : r = job[p].ref
  BY FoundImage
<1>2. PICK m \in Manifest : m = Man(p)
  BY FoundImage
<1>3. EntryOfRef(r)' /\ Usable(r)'
  <2>1. CASE job[p].cmd = "pull"
    BY <1>1, <1>2, <2>1, PullKeepsUsable DEF Complete
  <2>2. CASE job[p].cmd = "rmi"
    BY <1>1, <2>2, RmiKeepsUsable DEF Local, Still
  <2> QED
    BY <2>1, <2>2 DEF TypeOK, Job
<1>4. NoDirEmpty(m)'
  BY DEF ApartInv, NoDirEmpty
<1>5. Marked(m)'
  BY <1>2, MarkOfOwn DEF Marked, Complete
<1> QED
  BY <1>1, <1>2, <1>3, <1>4, <1>5, LocalStep DEF Found

LEMMA FetchStep ==
    ASSUME TypeOK, Apart, ApartInv, NEW p \in Proc,
           RequestBlob(p) \/ BlobArrives(p) \/ BlobComes(p) \/ NextBlob(p)
    PROVE  ApartInv'
<1>1. /\ pc[p] = "fetch" /\ job' = job /\ UNCHANGED <<dirs, items, catalog>>
      /\ pc'[p] \in {"fetch", "guard", "failed"}
      /\ \A q \in Proc \ {p} : pc'[q] = pc[q] /\ idx'[q] = idx[q]
  BY DEF RequestBlob, BlobArrives, BlobComes, NextBlob, TypeOK
<1>2. Local(p)
  BY <1>1 DEF Local, Still
<1>3. JobOfRef(p) /\ Phase(p) /\ job[p].cmd = "pull"
  BY <1>1 DEF ApartInv, Sound, Phase
<1>4. JobOfRef(p)' /\ Phase(p)' /\ RmiNames(p)' /\ Progress(p)'
  BY <1>1, <1>3 DEF JobOfRef, Phase, RmiNames, Progress, Found, Man
<1> QED
  BY <1>1, <1>2, <1>3, <1>4, QuietStep DEF Sound, Found

LEMMA FetchFailsStep ==
    ASSUME TypeOK, Apart, ApartInv, NEW p \in Proc, FetchFails(p)
    PROVE  ApartInv'
<1>1. /\ pc[p] = "fetch" /\ pc'[p] = "idle" /\ UNCHANGED <<dirs, items, catalog>>
      /\ Local(p)
  BY DEF FetchFails, Exit, TypeOK, Local, Still
<1>2. job[p].cmd = "pull"
  BY <1>1 DEF ApartInv, Sound, Phase
<1> QED
  BY <1>1, <1>2, QuietStep DEF Sound, Found

LEMMA GuardStep ==
    ASSUME TypeOK, Apart, ApartInv, NEW p \in Proc, Guard(p)
    PROVE  ApartInv'
<1>1. /\ pc[p] = "guard" /\ job' = job /\ idx' = idx /\ UNCHANGED <<dirs, items, catalog>>
      /\ Local(p)
  BY DEF Guard, Goto, TypeOK, Local, Still
<1>2. \/ pc'[p] = "clean" /\ job[p].unpack /\ Marker \notin items[Man(p)]
      \/ pc'[p] = "save" /\ (job[p].unpack => Marker \in items[Man(p)])
  BY DEF Guard, Goto, TypeOK
<1>3. Sound(p)
  BY DEF ApartInv
<1>4. JobOfRef(p)' /\ Phase(p)' /\ RmiNames(p)'
  BY <1>1, <1>2, <1>3 DEF Sound, JobOfRef, Found, Phase, RmiNames, Man
<1>5. RmisEnd /\ job[p].unpack /\ Marker \in items[Man(p)] => Complete(Man(p))
  BY <1>1, MarkOfOwn DEF TypeOK, Job, Man
<1>6. Progress(p)'
  BY <1>1, <1>2, <1>5 DEF Progress, Complete, Man
<1> QED
  BY <1>1, <1>2, <1>4, <1>6, QuietStep DEF Sound, Found

LEMMA CleanStep ==
    ASSUME TypeOK, Apart, ApartInv, NEW p \in Proc, Clean(p)
    PROVE  ApartInv'
<1>1. /\ pc[p] = "clean" /\ job' = job /\ idx'[p] = 2 /\ UNCHANGED <<dirs, items, catalog>>
      /\ Local(p)
  BY DEF Clean, TypeOK, Local, Still
<1>2. \/ pc'[p] = "wipe" /\ Man(p) \in dirs
      \/ pc'[p] = "apply" /\ Man(p) \notin dirs
  BY DEF Clean, TypeOK
<1>3. Sound(p) /\ Man(p) \in Manifest
  BY <1>1 DEF ApartInv, TypeOK, Job, Man
<1>4. JobOfRef(p)' /\ Phase(p)' /\ RmiNames(p)'
  BY <1>1, <1>2, <1>3 DEF Sound, JobOfRef, Found, Phase, RmiNames, Man
<1>5. Man(p) \notin dirs => items[Man(p)] = {}
  BY <1>3 DEF ApartInv, NoDirEmpty
<1>6. Progress(p)'
  <2>1. 2 \in 2..(Last(Man(p)) + 1) /\ 2..(2 - 1) = {}
    BY <1>3, LastTyped
  <2>2. Man(p)' = Man(p) /\ Marker \notin items[Man(p)]
    BY <1>1, <1>3 DEF Man, Sound, Progress
  <2>3. CASE pc'[p] = "wipe" /\ Man(p) \in dirs
    BY <1>1, <2>2, <2>3 DEF Progress
  <2>4. CASE pc'[p] = "apply" /\ Man(p) \notin dirs
    BY <1>1, <1>5, <2>1, <2>2, <2>4 DEF Progress
  <2> QED
    BY <1>2, <2>3, <2>4
<1> QED
  BY <1>1, <1>2, <1>4, <1>6, QuietStep DEF Sound, Found

LEMMA CheckRootfsStep ==
    ASSUME TypeOK, Apart, ApartInv, NEW p \in Proc, CheckRootfs(p)
    PROVE  ApartInv'
<1>1. /\ pc[p] = "check" /\ job' = job /\ idx' = idx /\ UNCHANGED <<dirs, items, catalog>>
      /\ Local(p)
  BY DEF CheckRootfs, Goto, TypeOK, Local, Still
<1>2. \/ pc'[p] = "wipe" /\ job[p].unpack /\ Man(p) \in dirs
      \/ pc'[p] = "unlink" /\ (job[p].unpack => Man(p) \notin dirs)
  BY DEF CheckRootfs, Goto, TypeOK
<1>3. Sound(p)
  BY DEF ApartInv
<1>4. JobOfRef(p)' /\ Phase(p)' /\ RmiNames(p)' /\ Progress(p)'
  BY <1>1, <1>2, <1>3 DEF Sound, JobOfRef, Found, Phase, RmiNames, Readable, Progress, Man
<1> QED
  BY <1>1, <1>2, <1>4, QuietStep DEF Sound, Found

--------------------------------------------------------------------------------
(* The removal of a directory: of a pull, one without the marker; of an rmi, one
   whose entry this rmi excuses. *)
LEMMA WipeStep ==
    ASSUME TypeOK, Apart, ApartInv, NEW p \in Proc, Wipe(p)
    PROVE  ApartInv'
<1>1. PICK r \in Ref : r = job[p].ref
  BY DEF TypeOK, Job, Wipe
<1>2. PICK m \in Manifest : m = Man(p)
  BY DEF TypeOK, Job, Man, Wipe
<1>3. /\ pc[p] = "wipe" /\ m \in dirs /\ Sound(p)
      /\ job[p].cmd = "pull" => Marker \notin items[m]
  BY <1>2 DEF Wipe, ApartInv, Sound, Progress
<1>4. /\ job' = job /\ idx' = idx /\ dirs' = dirs /\ catalog' = catalog
      /\ \A n \in Manifest \ {m} : items'[n] = items[n]
      /\ items'[m] \subseteq items[m]
      /\ pc'[p] = "wipe" \/ (pc'[p] = "rmdir" /\ items'[m] = {})
      /\ \A q \in Proc \ {p} : pc'[q] = pc[q]
  <2>1. CASE items[m] = {}
    BY <1>2, <1>3, <2>1 DEF Wipe, Goto, TypeOK
  <2>2. CASE items[m] # {}
    <3>1. PICK i \in items[m] : items' = [items EXCEPT ![m] = items[m] \ {i}]
      BY <1>2, <2>2 DEF Wipe
    <3>2. /\ items'[m] = items[m] \ {i}
          /\ \A n \in Manifest \ {m} : items'[n] = items[n]
      BY <3>1 DEF TypeOK
    <3>3. pc' = pc /\ job' = job /\ idx' = idx /\ dirs' = dirs /\ catalog' = catalog
      BY <1>2, <2>2 DEF Wipe
    <3>4. pc'[p] = "wipe" /\ items'[m] \subseteq items[m]
      BY <1>3, <3>2, <3>3
    <3> QED
      BY <3>2, <3>3, <3>4
  <2> QED
    BY <2>1, <2>2
<1>5. Local(p)
  BY <1>2, <1>4 DEF Local, Still
<1>6. Sound(p)'
  <2>1. JobOfRef(p)' /\ Phase(p)' /\ RmiNames(p)'
    BY <1>3, <1>4 DEF Sound, JobOfRef, Found, Phase, RmiNames, Readable, Man
  <2>2. Progress(p)'
    BY <1>2, <1>3, <1>4 DEF Sound, Progress, Man
  <2> QED
    BY <2>1, <2>2 DEF Sound
<1>7. EntryOfRef(r)' /\ Usable(r)'
  <2>1. CASE job[p].cmd = "pull"
    BY <1>1, <1>2, <1>3, <1>4, <1>5, <2>1, PullKeepsUsable DEF Complete
  <2>2. CASE job[p].cmd = "rmi"
    BY <1>1, <1>4, <2>2, RmiKeepsUsable
  <2> QED
    BY <1>3, <2>1, <2>2 DEF TypeOK, Job
<1>8. NoDirEmpty(m)' /\ Marked(m)'
  <2>1. Removing(m)'
    BY <1>2, <1>4 DEF Removing, Man
  <2> QED
    BY <1>3, <1>4, <2>1 DEF NoDirEmpty, Marked
<1> QED
  BY <1>1, <1>2, <1>3, <1>5, <1>6, <1>7, <1>8, LocalStep DEF Found

LEMMA RemoveDirStep ==
    ASSUME TypeOK, Apart, ApartInv, NEW p \in Proc, RemoveDir(p)
    PROVE  ApartInv'
<1>1. PICK r \in Ref : r = job[p].ref
  BY DEF TypeOK, Job, RemoveDir
<1>2. PICK m \in Manifest : m = Man(p)
  BY DEF TypeOK, Job, Man, RemoveDir
<1>3. /\ pc[p] = "rmdir" /\ m \in dirs /\ Sound(p) /\ items[m] = {} /\ job[p].unpack
      /\ job[p].cmd = "pull" => idx[p] = 2
      /\ job[p].cmd \in {"pull", "rmi"}
  BY <1>2 DEF RemoveDir, ApartInv, Sound, Progress, Phase, TypeOK, Job
<1>4. /\ job' = job /\ idx' = idx /\ dirs' = dirs \ {m} /\ catalog' = catalog /\ items' = items
      /\ job[p].cmd = "pull" => pc'[p] = "apply"
      /\ job[p].cmd = "rmi" => pc'[p] = "unlink"
      /\ \A q \in Proc \ {p} : pc'[q] = pc[q]
  BY <1>2, <1>3 DEF RemoveDir, Goto, TypeOK
<1>5. Local(p)
  BY <1>2, <1>4 DEF Local, Still
<1>6. Sound(p)'
  <2>1. JobOfRef(p)' /\ Phase(p)' /\ RmiNames(p)'
    BY <1>3, <1>4 DEF Sound, JobOfRef, Found, Phase, RmiNames, Readable, Man
  <2>2. 2 \in 2..(Last(m) + 1) /\ 2..(2 - 1) = {}
    BY LastTyped
  <2>3. Progress(p)'
    <3>1. CASE job[p].cmd = "pull"
      <4>1. pc'[p] = "apply" /\ idx'[p] = 2 /\ Man(p)' = m
        BY <1>2, <1>3, <1>4, <3>1 DEF Man
      <4>2. items'[m] = 2..(idx'[p] - 1) /\ idx'[p] \in 2..(Last(m) + 1)
        BY <1>3, <1>4, <2>2, <4>1
      <4> QED
        BY <4>1, <4>2 DEF Progress
    <3>2. CASE job[p].cmd = "rmi"
      BY <1>2, <1>3, <1>4, <3>2 DEF Progress, Man
    <3> QED
      BY <1>3, <3>1, <3>2
  <2> QED
    BY <2>1, <2>3 DEF Sound
<1>7. EntryOfRef(r)' /\ Usable(r)'
  <2>1. CASE job[p].cmd = "pull"
    BY <1>1, <1>2, <1>3, <1>4, <1>5, <2>1, PullKeepsUsable DEF Complete
  <2>2. CASE job[p].cmd = "rmi"
    BY <1>1, <1>4, <2>2, RmiKeepsUsable
  <2> QED
    BY <1>3, <2>1, <2>2
<1>8. NoDirEmpty(m)' /\ Marked(m)'
  BY <1>3, <1>4 DEF NoDirEmpty, Marked
<1> QED
  BY <1>1, <1>2, <1>3, <1>5, <1>6, <1>7, <1>8, LocalStep DEF Found

(* The layers go, in order, to a directory without the marker; the marker comes
   when all of them are there. *)
LEMMA ApplyLayerFails ==
    ASSUME TypeOK, Apart, ApartInv, NEW p \in Proc, ApplyLayer(p),
           pc'[p] = "failed"
    PROVE  ApartInv'
<1>1. PICK r \in Ref : r = job[p].ref
  BY DEF TypeOK, Job, ApplyLayer
<1>2. PICK m \in Manifest : m = Man(p)
  BY DEF TypeOK, Job, Man, ApplyLayer
<1>3. /\ pc[p] = "apply" /\ Sound(p) /\ job[p].cmd = "pull"
      /\ idx[p] \in 2..(Last(m) + 1) /\ items[m] = 2..(idx[p] - 1) /\ idx[p] <= Last(m)
  BY <1>2 DEF ApplyLayer, ApartInv, Sound, Progress, Phase
<1>5. /\ pc' = [pc EXCEPT ![p] = "failed"] /\ job' = job /\ idx' = idx
      /\ dirs' = dirs \cup {m} /\ catalog' = catalog /\ items' = items
  BY <1>2, <1>3 DEF ApplyLayer, Goto, TypeOK
<1>6. Local(p) /\ pc'[p] = "failed"
  BY <1>2, <1>5 DEF Local, Still, TypeOK
<1>7. Sound(p)'
  <2>1. JobOfRef(p)' /\ RmiNames(p)' /\ Progress(p)'
    BY <1>3, <1>5, <1>6 DEF Sound, JobOfRef, Found, RmiNames, Progress, Man
  <2>2. Phase(p)'
    BY <1>3, <1>5, <1>6 DEF Phase
  <2> QED
    BY <2>1, <2>2 DEF Sound
<1>8. Marker \notin items[m]
  BY <1>3 DEF Marker
<1>9. EntryOfRef(r)' /\ Usable(r)'
  BY <1>1, <1>2, <1>3, <1>5, <1>6, <1>8, PullKeepsUsable DEF Complete
<1>10. NoDirEmpty(m)' /\ Marked(m)'
  BY <1>5, <1>8 DEF NoDirEmpty, Marked
<1> QED
  BY <1>1, <1>2, <1>3, <1>6, <1>7, <1>9, <1>10, LocalStep DEF Found

LEMMA ApplyLayerStep ==
    ASSUME TypeOK, Apart, ApartInv, NEW p \in Proc, ApplyLayer(p)
    PROVE  ApartInv'
<1> SUFFICES ASSUME pc'[p] # "failed" PROVE ApartInv'
  BY ApplyLayerFails
<1>1. PICK r \in Ref : r = job[p].ref
  BY DEF TypeOK, Job, ApplyLayer
<1>2. PICK m \in Manifest : m = Man(p)
  BY DEF TypeOK, Job, Man, ApplyLayer
<1>3. /\ pc[p] = "apply" /\ Sound(p) /\ job[p].cmd = "pull"
      /\ idx[p] \in 2..(Last(m) + 1) /\ items[m] = 2..(idx[p] - 1) /\ idx[p] <= Last(m)
  BY <1>2 DEF ApplyLayer, ApartInv, Sound, Progress, Phase
<1>4. Last(m) \in Nat /\ idx[p] \in Layers(m)
  BY <1>3, LastTyped DEF Layers
<1>6. /\ pc' = pc /\ job' = job /\ idx' = [idx EXCEPT ![p] = idx[p] + 1]
      /\ dirs' = dirs \cup {m} /\ catalog' = catalog
      /\ items' = [items EXCEPT ![m] = items[m] \cup {idx[p]}]
  BY <1>2 DEF ApplyLayer, Goto, TypeOK
<1>7. items'[m] = items[m] \cup {idx[p]} /\ idx'[p] = idx[p] + 1
  BY <1>6 DEF TypeOK
<1>8. Local(p)
  BY <1>2, <1>6 DEF Local, Still, TypeOK
<1>9. Sound(p)'
  <2>1. JobOfRef(p)' /\ Phase(p)' /\ RmiNames(p)'
    BY <1>3, <1>6 DEF Sound, JobOfRef, Found, Phase, RmiNames, Man
  <2>2. items'[m] = 2..(idx'[p] - 1) /\ idx'[p] \in 2..(Last(m) + 1)
    BY <1>3, <1>4, <1>7
  <2>3. Progress(p)'
    BY <1>2, <1>3, <1>6, <2>2 DEF Progress, Man
  <2> QED
    BY <2>1, <2>3 DEF Sound
<1>10. Marker \notin items[m] /\ Marker \notin items'[m]
  BY <1>3, <1>4, <1>7 DEF Marker
<1>11. EntryOfRef(r)' /\ Usable(r)'
  BY <1>1, <1>2, <1>3, <1>6, <1>8, <1>10, PullKeepsUsable DEF Complete
<1>12. NoDirEmpty(m)' /\ Marked(m)'
  BY <1>6, <1>10 DEF NoDirEmpty, Marked
<1> QED
  BY <1>1, <1>2, <1>3, <1>8, <1>9, <1>11, <1>12, LocalStep DEF Found

(* The directory of an image without layers has not been made. *)
LEMMA WriteMarkerFails ==
    ASSUME TypeOK, Apart, ApartInv, NEW p \in Proc, WriteMarker(p), Man(p) \notin dirs
    PROVE  ApartInv'
<1>1. PICK m \in Manifest : m = Man(p)
  BY DEF TypeOK, Job, Man, WriteMarker
<1>2. /\ pc[p] = "apply" /\ Sound(p) /\ job[p].cmd = "pull" /\ Last(m) \in Nat
      /\ idx[p] \in 2..(Last(m) + 1) /\ idx[p] > Last(m) /\ ~(idx[p] > 2)
  BY <1>1, LastTyped DEF WriteMarker, ApartInv, Sound, Progress, Phase
<1>4. /\ pc' = [pc EXCEPT ![p] = "failed"] /\ UNCHANGED <<job, idx, dirs, items, catalog>>
      /\ pc'[p] = "failed"
  BY DEF WriteMarker, Goto, TypeOK
<1>5. Local(p)
  BY <1>4 DEF Local, Still, TypeOK
<1>6. JobOfRef(p)' /\ RmiNames(p)' /\ Progress(p)'
  BY <1>2, <1>4 DEF Sound, JobOfRef, Found, RmiNames, Progress, Man
<1>7. Phase(p)'
  BY <1>2, <1>4 DEF Phase
<1> QED
  BY <1>2, <1>4, <1>5, <1>6, <1>7, QuietStep DEF Sound, Found

LEMMA WriteMarkerStep ==
    ASSUME TypeOK, Apart, ApartInv, NEW p \in Proc, WriteMarker(p)
    PROVE  ApartInv'
<1> SUFFICES ASSUME Man(p) \in dirs PROVE ApartInv'
  BY WriteMarkerFails
<1>1. PICK r \in Ref : r = job[p].ref
  BY DEF TypeOK, Job, WriteMarker
<1>2. PICK m \in Manifest : m = Man(p)
  BY DEF TypeOK, Job, Man, WriteMarker
<1>3. /\ pc[p] = "apply" /\ Sound(p) /\ job[p].cmd = "pull" /\ Last(m) \in Nat
      /\ idx[p] \in 2..(Last(m) + 1) /\ items[m] = 2..(idx[p] - 1) /\ idx[p] > Last(m)
  BY <1>2, LastTyped DEF WriteMarker, ApartInv, Sound, Progress, Phase
<1>4. m \in dirs /\ items[m] = Layers(m) /\ Marker \notin items[m]
  BY <1>2, <1>3 DEF Layers, Marker
<1>5. /\ pc' = [pc EXCEPT ![p] = "save"] /\ job' = job /\ idx' = idx
      /\ dirs' = dirs /\ catalog' = catalog
      /\ items' = [items EXCEPT ![m] = items[m] \cup {Marker}]
  BY <1>2, <1>4 DEF WriteMarker, Goto
<1>6. Local(p)
  BY <1>2, <1>5 DEF Local, Still, TypeOK
<1>7. Complete(m)' /\ pc'[p] = "save"
  BY <1>4, <1>5 DEF Complete, TypeOK
<1>8. Sound(p)'
  <2>1. JobOfRef(p)' /\ Phase(p)' /\ RmiNames(p)'
    BY <1>3, <1>5, <1>7 DEF Sound, JobOfRef, Found, Phase, RmiNames, Man
  <2>2. Man(p)' = m
    BY <1>2, <1>5 DEF Man
  <2>3. Progress(p)'
    BY <1>7, <2>2 DEF Progress, Complete
  <2> QED
    BY <2>1, <2>3 DEF Sound
<1>9. EntryOfRef(r)' /\ Usable(r)'
  BY <1>1, <1>2, <1>3, <1>5, <1>6, <1>7, PullKeepsUsable
<1>10. NoDirEmpty(m)' /\ Marked(m)'
  BY <1>4, <1>5, <1>7 DEF NoDirEmpty, Marked
<1> QED
  BY <1>1, <1>2, <1>3, <1>6, <1>8, <1>9, <1>10, LocalStep DEF Found

--------------------------------------------------------------------------------
(* The entry: opened, it says nothing; written, it names what the pull has done;
   removed, it names nothing. *)
LEMMA OpenEntryStep ==
    ASSUME TypeOK, Apart, ApartInv, NEW p \in Proc, OpenEntry(p)
    PROVE  ApartInv'
<1>1. PICK r \in Ref : r = job[p].ref
  BY DEF TypeOK, Job, OpenEntry
<1>2. PICK m \in Manifest : m = Man(p)
  BY DEF TypeOK, Job, Man, OpenEntry
<1>3. pc[p] = "save" /\ Sound(p) /\ job[p].cmd = "pull"
  BY DEF OpenEntry, ApartInv, Sound, Phase
<1>4. /\ pc' = [pc EXCEPT ![p] = "write"] /\ job' = job /\ idx' = idx
      /\ dirs' = dirs /\ items' = items
      /\ catalog' = [catalog EXCEPT ![r] = [size |-> 0, body |-> Torn]]
  BY <1>1 DEF OpenEntry, Goto
<1>5. Local(p) /\ pc'[p] = "write" /\ catalog'[r] = [size |-> 0, body |-> Torn]
  BY <1>1, <1>4 DEF Local, Still, TypeOK
<1>6. Sound(p)'
  <2>1. JobOfRef(p)' /\ Phase(p)' /\ RmiNames(p)'
    BY <1>3, <1>4, <1>5 DEF Sound, JobOfRef, Found, Phase, RmiNames, Man
  <2>2. Progress(p)'
    BY <1>1, <1>3, <1>4, <1>5 DEF Sound, Progress, Complete, Man
  <2> QED
    BY <2>1, <2>2 DEF Sound
<1>7. EntryOfRef(r)' /\ Usable(r)'
  BY <1>5 DEF EntryOfRef, Usable, Readable
<1>8. NoDirEmpty(m)' /\ Marked(m)'
  BY <1>2, <1>3, <1>4, MarkOfOwn DEF ApartInv, NoDirEmpty, Marked, Complete
<1> QED
  BY <1>1, <1>2, <1>3, <1>5, <1>6, <1>7, <1>8, LocalStep DEF Found

LEMMA WriteEntryStep ==
    ASSUME TypeOK, Apart, ApartInv, NEW p \in Proc, WriteEntry(p)
    PROVE  ApartInv'
<1>1. PICK r \in Ref : r = job[p].ref
  BY DEF TypeOK, Job, WriteEntry
<1>2. PICK m \in Manifest : m = Man(p)
  BY DEF TypeOK, Job, Man, WriteEntry
<1>3. /\ pc[p] = "write" /\ JobOfRef(p) /\ catalog[job[p].ref].size = 0
      /\ RmisEnd /\ job[p].unpack => Complete(m)
  BY <1>2 DEF WriteEntry, ApartInv, Sound, Progress
<1>4. /\ pc'[p] = "idle" /\ dirs' = dirs /\ items' = items
      /\ \A s \in Ref \ {r} : catalog'[s] = catalog[s]
      /\ \A q \in Proc \ {p} : pc'[q] = pc[q] /\ job'[q] = job[q] /\ idx'[q] = idx[q]
  BY <1>1 DEF WriteEntry, Exit, TypeOK
<1>5. Local(p) /\ Sound(p)'
  BY <1>1, <1>4 DEF Local, Still, Sound
<1>6. catalog'[r].body.man = m /\ catalog'[r].body.rootfs = job[p].unpack
  <2>1. catalog'[job[p].ref].body = EntryOf(p)
    BY <1>3, WritesWhole
  <2> QED
    BY <1>1, <1>2, <2>1 DEF EntryOf
<1>7. EntryOfRef(r)' /\ Usable(r)'
  <2>1. Man(p) \in Published[job[p].ref]
    BY <1>3 DEF ApartInv, Sound, JobOfRef, Phase, Found
  <2> QED
    BY <1>1, <1>2, <1>3, <1>4, <1>6, <2>1 DEF EntryOfRef, Usable, Complete
<1>8. NoDirEmpty(m)' /\ Marked(m)'
  BY <1>2, <1>3, <1>4, MarkOfOwn DEF ApartInv, NoDirEmpty, Marked, Complete
<1> QED
  BY <1>1, <1>2, <1>3, <1>5, <1>7, <1>8, LocalStep DEF Found

LEMMA RemoveEntryStep ==
    ASSUME TypeOK, Apart, ApartInv, NEW p \in Proc, RemoveEntry(p)
    PROVE  ApartInv'
<1>1. PICK r \in Ref : r = job[p].ref
  BY DEF TypeOK, Job, RemoveEntry
<1>2. PICK m \in Manifest : m = Man(p)
  BY DEF TypeOK, Job, Man, RemoveEntry
<1>3. pc[p] = "unlink" /\ catalog[r] # NoFile
  BY <1>1 DEF RemoveEntry, ApartInv, Sound, Phase, RmiNames, Readable
<1>4. ASSUME NEW q \in Proc, q # p, pc[q] = "write" PROVE job[q].ref # r
  BY <1>1, <1>3, <1>4 DEF ApartInv, OnePerRef
<1>5. /\ pc'[p] = "idle" /\ dirs' = dirs /\ items' = items
      /\ catalog' = [catalog EXCEPT ![r] = NoFile]
      /\ \A q \in Proc \ {p} : pc'[q] = pc[q] /\ job'[q] = job[q] /\ idx'[q] = idx[q]
  BY <1>1, <1>3, <1>4 DEF RemoveEntry, TypeOK
<1>6. Local(p) /\ Sound(p)' /\ catalog'[r] = NoFile
  BY <1>1, <1>5 DEF Local, Still, Sound, TypeOK
<1>7. EntryOfRef(r)' /\ Usable(r)'
  BY <1>6 DEF EntryOfRef, Usable, Readable
<1>8. NoDirEmpty(m)' /\ Marked(m)'
  BY <1>2, <1>3, <1>5, MarkOfOwn DEF ApartInv, NoDirEmpty, Marked, Complete
<1> QED
  BY <1>1, <1>2, <1>3, <1>6, <1>7, <1>8, LocalStep DEF Found

(* A pull that is killed leaves a directory without the marker, or a complete one,
   and an entry that is as it was or says nothing. *)
LEMMA KillFound ==
    ASSUME TypeOK, Apart, ApartInv, NEW p \in Proc, Kill(p), Found(p)
    PROVE  ApartInv'
<1>1. PICK r \in Ref : r = job[p].ref
  BY DEF TypeOK, Job, Kill
<1>2. PICK m \in Manifest : m = Man(p)
  BY FoundImage DEF Kill
<1>3. pc[p] # "idle" /\ Sound(p) /\ (job[p].cmd = "pull" \/ ~RmisEnd)
  BY DEF Kill, ApartInv, RmisEnd, TypeOK, Job
<1>4. /\ pc'[p] = "idle" /\ items' = items /\ catalog' = catalog
      /\ dirs' = dirs \/ dirs' = dirs \cup {m}
      /\ \A q \in Proc \ {p} : pc'[q] = pc[q] /\ job'[q] = job[q] /\ idx'[q] = idx[q]
  BY <1>2 DEF Kill, Exit, TypeOK
<1>5. Local(p) /\ Sound(p)'
  BY <1>2, <1>4 DEF Local, Still, Sound
<1>6. EntryOfRef(r)' /\ Usable(r)'
  <2>1. CASE job[p].cmd = "pull"
    BY <1>1, <1>2, <1>3, <1>4, <1>5, <2>1, PullKeepsUsable DEF Complete
  <2>2. CASE ~RmisEnd
    BY <1>4, <2>2 DEF ApartInv, EntryOfRef, Usable, Readable
  <2> QED
    BY <1>3, <2>1, <2>2
<1>7. NoDirEmpty(m)' /\ Marked(m)'
  <2>1. RmisEnd /\ Marker \in items[m] => Complete(m)
    BY <1>2, <1>3, MarkOfOwn DEF Sound, Progress
  <2> QED
    BY <1>4, <2>1 DEF ApartInv, NoDirEmpty, Marked, Complete
<1> QED
  BY <1>1, <1>2, <1>3, <1>5, <1>6, <1>7, LocalStep

LEMMA KillStep ==
    ASSUME TypeOK, Apart, ApartInv, NEW p \in Proc, Kill(p)
    PROVE  ApartInv'
<1>1. CASE Found(p)
  BY <1>1, KillFound
<1>2. CASE ~Found(p)
  <2>1. /\ pc[p] \in {"read", "failed"} /\ ~RmisEnd /\ pc'[p] = "idle"
        /\ UNCHANGED <<dirs, items, catalog>> /\ Still(p)
    BY <1>2 DEF Kill, Exit, Found, RmisEnd, TypeOK, Job, Still
  <2>2. OnePerRef' /\ Sound(p)'
    BY <2>1 DEF Still, ApartInv, OnePerRef, Sound
  <2> QED
    BY <2>1, <2>2, StillStep
<1> QED
  BY <1>1, <1>2

(* A command that failed leaves what it found; an rmi failed on what it read. *)
LEMMA FailStep ==
    ASSUME TypeOK, Apart, ApartInv, NEW p \in Proc, Fail(p)
    PROVE  ApartInv'
<1>1. /\ pc[p] = "failed" /\ pc'[p] = "idle" /\ UNCHANGED <<dirs, items, catalog>>
      /\ Local(p) /\ Still(p) /\ job[p] \in Job
  BY DEF Fail, Exit, TypeOK, Local, Still
<1>2. CASE job[p].cmd = "pull"
  BY <1>1, <1>2, QuietStep DEF Sound, Found
<1>3. CASE job[p].cmd = "rmi"
  <2>1. ~Readable(job[p].ref)
    BY <1>1, <1>3 DEF ApartInv, Sound, RmiNames
  <2>2. OnePerRef'
    BY <1>1 DEF Still, ApartInv, OnePerRef
  <2> QED
    BY <1>1, <2>1, <2>2, StillStep DEF Sound
<1> QED
  BY <1>1, <1>2, <1>3 DEF Job

LEMMA ApartInvStep ==
    ASSUME TypeOK, Apart, ApartInv, [Next]_vars
    PROVE  ApartInv'
<1>1. ASSUME NEW p \in Proc, WriteLost(p) PROVE FALSE
  BY <1>1 DEF WriteLost, ApartInv, Sound, Phase
<1>2. CASE UNCHANGED vars
  BY <1>2 DEF vars, ApartInv, OnePerRef, Sound, JobOfRef, Found, Phase, RmiNames, Progress,
     Readable, Complete, EntryOfRef, Usable, NoDirEmpty, Marked, Removing, Man
<1> QED
  BY <1>1, <1>2, StartPullStep, StartRmiStep, ReadEntryStep, FetchStep, FetchFailsStep, GuardStep, CleanStep,
     CheckRootfsStep, WipeStep, RemoveDirStep, ApplyLayerStep, WriteMarkerStep, OpenEntryStep,
     WriteEntryStep, RemoveEntryStep, FailStep, KillStep DEF Next, Step

LEMMA ApartAlways == ASSUME Apart PROVE Spec => [](TypeOK /\ ApartInv)
<1>1. Init => ApartInv
  BY DEF Init, ApartInv, OnePerRef, Sound, EntryOfRef, Usable, Readable, NoDirEmpty, Marked
<1>2. TypeOK /\ ApartInv /\ [Next]_vars => ApartInv'
  BY ApartInvStep
<1> QED
  BY <1>1, <1>2, TypeCorrect, PTL DEF Spec

--------------------------------------------------------------------------------
(* A rootfs with the marker is complete or being removed: a pull may skip it,
   wherever pulls are killed or fail (main.rs, the guard of the unpacking). *)
THEOREM MarkMeansComplete == ASSUME Apart, RmisEnd PROVE Spec => []MarkerComplete
<1>1. ApartInv => MarkerComplete
  BY DEF ApartInv, Marked, MarkerComplete
<1> QED
  BY <1>1, ApartAlways, PTL

(* The rootfs an entry speaks of is there, unless an rmi of that entry runs. *)
THEOREM EntriesUsable == ASSUME Apart, RmisEnd PROVE Spec => []EntryUsable
<1>1. ApartInv => EntryUsable
  BY DEF ApartInv, Usable, EntryUsable
<1> QED
  BY <1>1, ApartAlways, PTL

(* An rmi whose root is spelled as the pull spelled it leaves nothing of the rootfs
   its entry spoke of (catalog.rs, remove). *)
THEOREM RmiLeavesNothing == ASSUME Apart PROVE Spec => RmiRemovesRootfs
<1>1. ASSUME TypeOK, ApartInv, NEW p \in Proc, NEW r, r = job[p].ref, RemoveEntry(p),
             Readable(r), catalog[r].body.rootfs, catalog[r].body.root = job[p].root
      PROVE  catalog[r].body.man \notin dirs'
  <2>1. /\ pc[p] = "unlink" /\ dirs' = dirs /\ job[p] \in Job /\ r \in Ref
        /\ catalog[r].body \in Entry /\ Sound(p)
    BY <1>1 DEF RemoveEntry, TypeOK, Job, File, Readable, ApartInv
  <2>2. catalog[r].body.man = Man(p) /\ job[p].unpack
    BY <1>1, <2>1 DEF Sound, Phase, RmiNames, Found, Job, Entry
  <2> QED
    BY <2>1, <2>2 DEF Sound, Progress
<1>2. TypeOK /\ ApartInv /\ [Next]_vars =>
        [\A p \in Proc :
           LET r == job[p].ref
               e == catalog[r].body
           IN
           RemoveEntry(p) /\ Readable(r) /\ e.rootfs /\ e.root = job[p].root =>
             e.man \notin dirs']_vars
  BY <1>1
<1> QED
  BY <1>2, ApartAlways, PTL DEF Spec, RmiRemovesRootfs

(* What fails a command is an entry cut short, a damaged blob or the image itself:
   nothing else that other commands, killed ones too, leave in the root. *)
Reason(p) ==
    \/ job[p].cmd = "rmi" /\ Cut(job[p].ref)
    \/ job[p].cmd = "pull" /\ ~(BlobsOf(Man(p)) \subseteq stored)
    \/ job[p].cmd = "pull" /\ job[p].unpack /\ Awkward(Man(p))

LEMMA FailsFetching ==
    ASSUME TypeOK, ApartInv, PresentInv, NEW p \in Proc, NextBlob(p), pc'[p] = "failed"
    PROVE  Reason(p)
<1>1. /\ pc[p] = "fetch" /\ client[p] = "holding" /\ idx[p] = 1 /\ want[p] \notin stored
  BY DEF NextBlob, TypeOK
<1>2. job[p].cmd = "pull" /\ want[p] = Blobs[Man(p)][1] /\ 1 <= Last(Man(p)) /\ Man(p) \in Manifest
  BY <1>1 DEF PresentInv, PresentAt, TypeOK
<1>3. want[p] \in BlobsOf(Man(p))
  BY <1>2, LastTyped DEF BlobsOf
<1> QED
  BY <1>1, <1>2, <1>3 DEF Reason

LEMMA FailsUnpacking ==
    ASSUME TypeOK, ApartInv, NEW p \in Proc, ApplyLayer(p) \/ WriteMarker(p), pc'[p] = "failed"
    PROVE  Reason(p)
<1> DEFINE m == Man(p)
<1>1. /\ pc[p] = "apply" /\ job[p].cmd = "pull" /\ job[p].unpack /\ m \in Manifest
      /\ Last(m) \in Nat \ {0} /\ idx[p] \in 2..(Last(m) + 1) /\ (idx[p] > 2 => m \in dirs)
  BY LastTyped DEF ApplyLayer, WriteMarker, TypeOK, ApartInv, Sound, Phase, Progress
<1>2. CASE ApplyLayer(p)
  <2>1. Blobs[m][idx[p]] \notin Gzip \cap stored /\ idx[p] <= Last(m)
    BY <1>1, <1>2 DEF ApplyLayer
  <2>2. idx[p] \in Layers(m) /\ Blobs[m][idx[p]] \in BlobsOf(m)
    BY <1>1, <2>1 DEF Layers, BlobsOf
  <2> QED
    BY <1>1, <2>1, <2>2 DEF Reason, Awkward
<1>3. CASE WriteMarker(p)
  <2>1. idx[p] > Last(m) /\ m \notin dirs
    BY <1>1, <1>3 DEF WriteMarker, Goto, TypeOK
  <2>2. Layers(m) = {}
    BY <1>1, <2>1 DEF Layers
  <2> QED
    BY <1>1, <2>2 DEF Reason, Awkward
<1> QED
  BY <1>2, <1>3

LEMMA FailsReading ==
    ASSUME TypeOK, ApartInv, NEW p \in Proc, ReadEntry(p), pc'[p] = "failed"
    PROVE  Reason(p)
<1>1. pc[p] = "read" /\ ~Readable(job[p].ref) /\ job[p].cmd = "rmi" /\ catalog[job[p].ref] # NoFile
  BY DEF ReadEntry, TypeOK, ApartInv, Sound, Phase, RmiNames
<1> QED
  BY <1>1 DEF Reason, Cut, Readable

LEMMA FailsNowhereElse ==
    ASSUME TypeOK, ApartInv, NEW p \in Proc, Acts(p), pc[p] # "failed", pc'[p] = "failed"
    PROVE  NextBlob(p) \/ ApplyLayer(p) \/ WriteMarker(p) \/ ReadEntry(p)
<1>1. ~(Wipe(p) \/ RemoveDir(p) \/ RemoveEntry(p))
  BY DEF Wipe, RemoveDir, RemoveEntry, Goto, TypeOK, ApartInv, Sound, Progress, Phase, RmiNames,
     Readable, Found
<1>2. ~(Guard(p) \/ Clean(p) \/ OpenEntry(p) \/ CheckRootfs(p) \/ RequestBlob(p)
         \/ BlobArrives(p) \/ BlobComes(p))
  BY DEF Guard, Clean, OpenEntry, CheckRootfs, RequestBlob, BlobArrives, BlobComes, Goto, TypeOK
<1>3. ~(FetchFails(p) \/ Kill(p) \/ WriteEntry(p) \/ WriteLost(p) \/ Fail(p))
  BY DEF FetchFails, Kill, WriteEntry, WriteLost, Fail, Exit, TypeOK
<1>4. ~ \/ \E r \in Ref, o \in Root, m \in Manifest : \E u \in Unpack[r] : StartPull(p, r, o, m, u)
        \/ \E r \in Ref, o \in Root : StartRmi(p, r, o)
  BY DEF StartPull, StartRmi, Begin, TypeOK
<1> QED
  BY <1>1, <1>2, <1>3, <1>4 DEF Acts, Step

THEOREM FailuresHaveReasons == ASSUME Apart PROVE Spec => FailsWithReason
<1>1. ASSUME TypeOK, ApartInv, PresentInv, [Next]_vars, NEW p \in Proc,
             pc[p] # "failed", pc'[p] = "failed"
      PROVE  Reason(p)
  <2>1. PICK q \in Proc : Acts(q)
    BY <1>1, NextActs DEF vars
  <2>2. q = p
    BY <1>1, <2>1, ActsOthers DEF Others
  <2> QED
    BY <1>1, <2>1, <2>2, FailsNowhereElse, FailsFetching, FailsUnpacking, FailsReading
<1>2. TypeOK /\ ApartInv /\ PresentInv /\ [Next]_vars =>
        [\A p \in Proc : pc[p] # "failed" /\ pc'[p] = "failed" =>
           \/ job[p].cmd = "rmi" /\ Cut(job[p].ref)
           \/ job[p].cmd = "pull" /\ ~(BlobsOf(Man(p)) \subseteq stored)
           \/ job[p].cmd = "pull" /\ job[p].unpack /\ Awkward(Man(p))]_vars
  BY <1>1 DEF Reason
<1> QED
  BY <1>2, ApartAlways, PresentAlways, PTL DEF Spec, FailsWithReason

--------------------------------------------------------------------------------
(* How many steps a command has left at most: three for each blob still to fetch,
   the removal of every item of a directory, one step for each layer, and the
   steps in between.  The arguments are where it stands, the state of its client
   of the store, its index, the number of blobs and the number of items.  What an
   rmi has left is known once it has read its entry. *)
Waits(got) == IF got = "holding" THEN 1 ELSE IF got \in {"fetching", "racing"} THEN 2 ELSE 3

StepsLeft(at, got, i, last, n) ==
    CASE at \in {"failed", "unlinked", "write"} -> 1
      [] at \in {"save", "unlink"}  -> 2
      [] at = "apply" -> IF i <= last THEN last - i + 4 ELSE 3
      [] at = "rmdir" -> last + 4
      [] at = "wipe"  -> last + 5 + n
      [] at \in {"clean", "check"} -> 2 * last + 7
      [] at = "guard" -> 2 * last + 8
      [] at = "fetch" -> 2 * last + 8 + Waits(got) + (IF i < last THEN 3 * (last - i) ELSE 0)

Left(p) ==
    IF pc[p] \in {"idle", "read"} THEN 0
    ELSE StepsLeft(pc[p], client[p], idx[p], Last(Man(p)), Cardinality(items[Man(p)]))

LEMMA StepsLeftAt ==
    ASSUME NEW got, NEW i, NEW last, NEW n
    PROVE  /\ \A at \in {"failed", "unlinked", "write"} : StepsLeft(at, got, i, last, n) = 1
           /\ \A at \in {"save", "unlink"} : StepsLeft(at, got, i, last, n) = 2
           /\ StepsLeft("apply", got, i, last, n) = IF i <= last THEN last - i + 4 ELSE 3
           /\ StepsLeft("rmdir", got, i, last, n) = last + 4
           /\ StepsLeft("wipe", got, i, last, n) = last + 5 + n
           /\ \A at \in {"clean", "check"} : StepsLeft(at, got, i, last, n) = 2 * last + 7
           /\ StepsLeft("guard", got, i, last, n) = 2 * last + 8
           /\ StepsLeft("fetch", got, i, last, n) =
                2 * last + 8 + Waits(got) + (IF i < last THEN 3 * (last - i) ELSE 0)
BY DEF StepsLeft

LEMMA StepsLeftTyped ==
    ASSUME NEW at \in PC \ {"idle", "read"}, NEW got, NEW i \in Nat \ {0}, NEW last \in Nat \ {0},
           NEW n \in Nat, n <= last + 1
    PROVE  StepsLeft(at, got, i, last, n) \in 1..(5 * last + 8)
BY StepsLeftAt DEF PC, Waits

(* A directory has finitely many items: the layers and the marker. *)
LEMMA ItemsFinite ==
    ASSUME TypeOK, NEW m \in Manifest
    PROVE  /\ IsFiniteSet(items[m])
           /\ Cardinality(items[m]) \in Nat
           /\ Cardinality(items[m]) <= Last(m) + 1
<1>1. items[m] \subseteq 0..Last(m) /\ Last(m) \in Nat
  BY LastTyped DEF TypeOK, Marker
<1>2. IsFiniteSet(0..Last(m)) /\ Cardinality(0..Last(m)) = Last(m) + 1
  BY <1>1, FS_Interval
<1>3. IsFiniteSet(items[m]) /\ Cardinality(items[m]) <= Cardinality(0..Last(m))
  BY <1>1, <1>2, FS_Subset
<1> QED
  BY <1>2, <1>3, FS_CardinalityType

LEMMA LeftTyped ==
    ASSUME TypeOK, NEW p \in Proc
    PROVE  /\ Left(p) \in Nat
           /\ pc[p] = "failed" => Left(p) = 1
           /\ pc[p] \notin {"idle", "read", "failed"} =>
                Man(p) \in Manifest /\ Left(p) \in 1..(5 * Last(Man(p)) + 8)
<1>1. CASE pc[p] \in {"idle", "read"}
  BY <1>1 DEF Left
<1>2. CASE pc[p] = "failed"
  BY <1>2, StepsLeftAt DEF Left
<1>3. CASE pc[p] \notin {"idle", "read", "failed"}
  <2>1. Man(p) \in Manifest /\ pc[p] \in PC \ {"idle", "read"} /\ idx[p] \in Nat \ {0}
    BY <1>3 DEF TypeOK, Man, Job
  <2>2. Last(Man(p)) \in Nat \ {0}
    BY <2>1, LastTyped
  <2>3. Left(p) = StepsLeft(pc[p], client[p], idx[p], Last(Man(p)), Cardinality(items[Man(p)]))
    BY <1>3 DEF Left
  <2>4. Left(p) \in 1..(5 * Last(Man(p)) + 8)
    BY <2>1, <2>2, <2>3, ItemsFinite, StepsLeftTyped
  <2> QED
    BY <1>3, <2>1, <2>2, <2>4
<1> QED
  BY <1>1, <1>2, <1>3

(* What a step changes of the number. *)
LEMMA LeftNow ==
    ASSUME TypeOK, NEW p \in Proc, pc[p] \notin {"idle", "read"}
    PROVE  Left(p) = StepsLeft(pc[p], client[p], idx[p], Last(Man(p)), Cardinality(items[Man(p)]))
BY DEF Left

LEMMA LeftNext ==
    ASSUME NEW p \in Proc, job'[p] = job[p], pc'[p] \notin {"idle", "read"}
    PROVE  Left(p)' = StepsLeft(pc'[p], client'[p], idx'[p], Last(Man(p)), Cardinality(items'[Man(p)]))
BY DEF Left, Man

LEMMA ExitLess ==
    ASSUME TypeOK, NEW p \in Proc, pc[p] \notin {"idle", "read"}, pc'[p] = "idle"
    PROVE  Left(p)' < Left(p)
<1>1. Left(p)' = 0
  BY DEF Left
<1> QED
  BY <1>1, LeftTyped

(* Each step of a running command is one of those it had left: *)
LEMMA FailedStep ==
    ASSUME TypeOK, NEW p \in Proc, pc[p] = "failed", Step(p) \/ FetchFails(p) \/ Kill(p)
    PROVE  Left(p)' < Left(p)
<1>1. Exit(p)
  BY DEF Step, RequestBlob, BlobArrives, NextBlob, Guard, Clean, Wipe, RemoveDir, ApplyLayer,
     WriteMarker, OpenEntry, WriteEntry, WriteLost, ReadEntry, CheckRootfs, RemoveEntry, Fail,
     FetchFails, Kill
<1>2. pc'[p] = "idle"
  BY <1>1 DEF Exit, TypeOK
<1> QED
  BY <1>2, ExitLess

LEMMA WorkStep ==
    ASSUME TypeOK, TypeOK', NEW p \in Proc, Step(p) \/ FetchFails(p) \/ Kill(p),
           pc[p] \notin {"read", "failed"}
    PROVE  Left(p)' < Left(p)
<1> DEFINE L == Last(Man(p))
           n == Cardinality(items[Man(p)])
           k == Cardinality(items'[Man(p)])
<1>1. /\ pc[p] \notin {"idle", "read", "failed"} /\ pc[p] \in PC /\ idx[p] \in Nat \ {0}
      /\ pc \in [Proc -> PC] /\ job \in [Proc -> Job \cup {NoJob}] /\ idx \in [Proc -> Nat \ {0}]
      /\ client \in [Proc -> {"idle", "fetching", "racing", "holding"}]
  BY DEF Step, RequestBlob, BlobArrives, NextBlob, Guard, Clean, Wipe, RemoveDir, ApplyLayer,
     WriteMarker, OpenEntry, WriteEntry, WriteLost, ReadEntry, CheckRootfs, RemoveEntry, Fail,
     FetchFails, Kill, TypeOK, Cas!CasTypeOK, Cas!Downloading
<1>2. Man(p) \in Manifest /\ L \in Nat \ {0} /\ items \in [Manifest -> SUBSET Nat]
  BY <1>1, LastTyped DEF TypeOK, Man, Job
<1>3. n \in Nat /\ n <= L + 1 /\ IsFiniteSet(items[Man(p)])
  BY <1>2, ItemsFinite
<1>4. k \in Nat /\ k <= L + 1
  <2>1. \A m \in Manifest : Cardinality(items'[m]) \in Nat /\ Cardinality(items'[m]) <= Last(m) + 1
    <3> SUFFICES ASSUME NEW m \in Manifest
                 PROVE  Cardinality(items'[m]) \in Nat /\ Cardinality(items'[m]) <= Last(m) + 1
      OBVIOUS
    <3>1. items'[m] \subseteq 0..Last(m) /\ Last(m) \in Nat
      BY LastTyped DEF TypeOK, Marker
    <3>2. IsFiniteSet(0..Last(m)) /\ Cardinality(0..Last(m)) = Last(m) + 1
      BY <3>1, FS_Interval
    <3> QED
      BY <3>1, <3>2, FS_Subset, FS_CardinalityType
  <2> QED
    BY <1>2, <2>1
<1>5. Left(p) = StepsLeft(pc[p], client[p], idx[p], L, n)
  BY <1>1, LeftNow
<1>6. job'[p] = job[p] /\ pc'[p] \notin {"idle", "read"} =>
        Left(p)' = StepsLeft(pc'[p], client'[p], idx'[p], L, k)
  BY LeftNext
<1> HIDE DEF L, n, k
<1>7. CASE FetchFails(p) \/ Kill(p) \/ WriteEntry(p) \/ WriteLost(p) \/ Fail(p)
  <2>1. Exit(p)
    BY <1>7 DEF FetchFails, Kill, WriteEntry, WriteLost, Fail
  <2> QED
    BY <2>1, <1>1, ExitLess DEF Exit
<1>8. CASE RequestBlob(p)
  <2>1. /\ pc'[p] = "fetch" /\ pc[p] = "fetch" /\ job'[p] = job[p] /\ idx'[p] = idx[p]
        /\ \/ client[p] = "idle" /\ client'[p] = "fetching"
           \/ client[p] \in {"idle", "fetching"} /\ client'[p] = "holding"
    BY <1>8, <1>1 DEF RequestBlob, Cas!Fetch, Cas!Hit
  <2> QED
    BY <2>1, <1>1, <1>2, <1>5, <1>6, StepsLeftAt DEF Waits
<1>9. CASE BlobArrives(p)
  <2>1. /\ pc'[p] = "fetch" /\ pc[p] = "fetch" /\ job'[p] = job[p] /\ idx'[p] = idx[p]
        /\ client[p] \in {"fetching", "racing"} /\ client'[p] = "holding"
    BY <1>9, <1>1, MovedTyped DEF BlobArrives, Cas!Store, Cas!Downloading, TypeOK
  <2> QED
    BY <2>1, <1>1, <1>2, <1>5, <1>6, StepsLeftAt DEF Waits
<1>10. CASE NextBlob(p)
  <2>1. /\ pc[p] = "fetch" /\ job'[p] = job[p] /\ idx'[p] = idx[p] + 1
        /\ client[p] = "holding" /\ client'[p] = "idle"
        /\ (idx[p] < L /\ pc'[p] = "fetch") \/ pc'[p] = "guard" \/ pc'[p] = "failed"
    BY <1>10, <1>1, MovedTyped DEF NextBlob, Cas!Leave, L, TypeOK
  <2> QED
    BY <2>1, <1>1, <1>2, <1>5, <1>6, StepsLeftAt DEF Waits
<1>11. CASE Guard(p)
  <2>1. pc[p] = "guard" /\ job'[p] = job[p] /\ pc'[p] \in {"clean", "save"}
    BY <1>11, <1>1 DEF Guard, Goto
  <2> QED
    BY <2>1, <1>1, <1>2, <1>5, <1>6, StepsLeftAt
<1>12. CASE Clean(p)
  <2>1. pc[p] = "clean" /\ job'[p] = job[p] /\ pc'[p] \in {"wipe", "apply"} /\ idx'[p] = 2
    BY <1>12, <1>1 DEF Clean
  <2> QED
    BY <2>1, <1>1, <1>2, <1>4, <1>5, <1>6, StepsLeftAt
<1>13. CASE Wipe(p)
  <2>1. CASE items[Man(p)] = {}
    <3>1. pc[p] = "wipe" /\ job'[p] = job[p] /\ pc'[p] \in {"rmdir", "failed"}
      BY <1>13, <2>1, <1>1 DEF Wipe, Goto
    <3> QED
      BY <3>1, <1>1, <1>2, <1>3, <1>5, <1>6, StepsLeftAt
  <2>2. CASE items[Man(p)] # {}
    <3>1. pc[p] = "wipe" /\ job'[p] = job[p] /\ pc'[p] = "wipe"
      BY <1>13, <2>2, <1>1 DEF Wipe
    <3>2. PICK x \in items[Man(p)] : items'[Man(p)] = items[Man(p)] \ {x}
      BY <1>13, <2>2, <1>2 DEF Wipe
    <3>3. k = n - 1
      BY <3>2, <1>3, FS_RemoveElement DEF k, n
    <3> QED
      BY <3>1, <3>3, <1>1, <1>2, <1>3, <1>5, <1>6, StepsLeftAt
  <2> QED
    BY <2>1, <2>2
<1>14. CASE RemoveDir(p)
  <2>1. pc[p] = "rmdir" /\ job'[p] = job[p] /\ pc'[p] \in {"apply", "unlink", "failed"}
        /\ idx'[p] = idx[p]
    BY <1>14, <1>1 DEF RemoveDir, Goto
  <2> QED
    BY <2>1, <1>1, <1>2, <1>5, <1>6, StepsLeftAt
<1>15. CASE ApplyLayer(p)
  <2>1. /\ pc[p] = "apply" /\ job'[p] = job[p] /\ idx[p] <= L
        /\ \/ pc'[p] = "apply" /\ idx'[p] = idx[p] + 1
           \/ pc'[p] = "failed"
    BY <1>15, <1>1 DEF ApplyLayer, Goto, L
  <2> QED
    BY <2>1, <1>1, <1>2, <1>5, <1>6, StepsLeftAt
<1>16. CASE WriteMarker(p)
  <2>1. pc[p] = "apply" /\ job'[p] = job[p] /\ pc'[p] \in {"save", "failed"} /\ idx[p] > L
    BY <1>16, <1>1 DEF WriteMarker, Goto, L
  <2> QED
    BY <2>1, <1>1, <1>2, <1>5, <1>6, StepsLeftAt
<1>17. CASE OpenEntry(p)
  <2>1. pc[p] = "save" /\ job'[p] = job[p] /\ pc'[p] = "write"
    BY <1>17, <1>1 DEF OpenEntry, Goto
  <2> QED
    BY <2>1, <1>1, <1>2, <1>5, <1>6, StepsLeftAt
<1>18. CASE CheckRootfs(p)
  <2>1. pc[p] = "check" /\ job'[p] = job[p] /\ pc'[p] \in {"wipe", "unlink"}
    BY <1>18, <1>1 DEF CheckRootfs, Goto
  <2> QED
    BY <2>1, <1>1, <1>2, <1>4, <1>5, <1>6, StepsLeftAt
<1>19. CASE RemoveEntry(p)
  <2>1. CASE catalog[job[p].ref] = NoFile
    <3>1. pc[p] = "unlink" /\ job'[p] = job[p] /\ pc'[p] = "failed"
      BY <1>19, <2>1, <1>1 DEF RemoveEntry, Goto
    <3> QED
      BY <3>1, <1>1, <1>2, <1>5, <1>6, StepsLeftAt
  <2>2. CASE catalog[job[p].ref] # NoFile
    BY <1>19, <2>2, <1>1, ExitLess DEF RemoveEntry
  <2> QED
    BY <2>1, <2>2
<1> QED
  BY <1>7, <1>8, <1>9, <1>10, <1>11, <1>12, <1>13, <1>14, <1>15, <1>16, <1>17, <1>18, <1>19
     DEF Step, ReadEntry

(* the chunks that race for a temporary file are not counted; *)
LEMMA RaceStep ==
    ASSUME TypeOK, NEW p \in Proc, BlobComes(p)
    PROVE  Left(p)' = Left(p)
<1>1. /\ pc[p] = "fetch" /\ pc' = pc /\ job' = job /\ idx' = idx /\ items' = items
      /\ {client[p], client'[p]} \subseteq {"fetching", "racing"}
  BY MovedTyped DEF BlobComes, Cas!Race, Cas!Downloading, TypeOK
<1>2. Waits(client'[p]) = Waits(client[p])
  BY <1>1 DEF Waits
<1> QED
  BY <1>1, <1>2, StepsLeftAt DEF Left, Man

(* the entry is read once; *)
LEMMA ReadOnce ==
    ASSUME TypeOK, NEW p \in Proc, Step(p) \/ BlobComes(p) \/ FetchFails(p) \/ Kill(p)
    PROVE  pc'[p] # "read"
<1>1. CASE RequestBlob(p) \/ BlobArrives(p) \/ BlobComes(p) \/ NextBlob(p)
  BY <1>1 DEF RequestBlob, BlobArrives, BlobComes, NextBlob, TypeOK
<1>2. CASE FetchFails(p) \/ Kill(p) \/ WriteEntry(p) \/ WriteLost(p) \/ Fail(p)
  BY <1>2 DEF FetchFails, Kill, WriteEntry, WriteLost, Fail, Exit, TypeOK
<1>3. CASE Guard(p) \/ Clean(p) \/ Wipe(p) \/ RemoveDir(p) \/ ApplyLayer(p) \/ WriteMarker(p)
  BY <1>3 DEF Guard, Clean, Wipe, RemoveDir, ApplyLayer, WriteMarker, Goto, TypeOK
<1>4. CASE OpenEntry(p) \/ ReadEntry(p) \/ CheckRootfs(p) \/ RemoveEntry(p)
  BY <1>4 DEF OpenEntry, ReadEntry, CheckRootfs, RemoveEntry, Goto, TypeOK
<1> QED
  BY <1>1, <1>2, <1>3, <1>4 DEF Step

(* and no step of another command adds to them, unless it unpacks into the very
   directory this one removes. *)
Refills(q, p) ==
    /\ pc[p] = "wipe" /\ Man(q) = Man(p)
    /\ ApplyLayer(q) \/ WriteMarker(q)

(* Of another command a step changes no more than its hold on an entry that is
   removed or on a temporary file, and the directory. *)
LEMMA OthersAt ==
    ASSUME TypeOK, NEW p \in Proc, NEW q \in Proc \ {p}, Acts(q)
    PROVE  /\ job'[p] = job[p] /\ idx'[p] = idx[p] /\ Waits(client'[p]) = Waits(client[p])
           /\ pc'[p] = pc[p] \/ (pc[p] = "write" /\ pc'[p] = "unlinked")
<1>1. client'[p] = client[p] \/ {client[p], client'[p]} \subseteq {"fetching", "racing"}
  BY ActsMoves DEF CasMove
<1> QED
  BY <1>1, ActsOthers DEF Others, Waits

LEMMA OthersItems ==
    ASSUME TypeOK, NEW p \in Proc, NEW q \in Proc \ {p}, Acts(q), pc[p] = "wipe",
           ~Refills(q, p)
    PROVE  items'[Man(p)] \subseteq items[Man(p)]
<1>1. Man(p) \in Manifest /\ items \in [Manifest -> SUBSET Nat]
  BY DEF TypeOK, Man, Job
<1>2. CASE ApplyLayer(q) \/ WriteMarker(q)
  BY <1>1, <1>2 DEF ApplyLayer, WriteMarker, Refills
<1>3. CASE Wipe(q)
  BY <1>1, <1>3 DEF Wipe
<1>4. CASE UNCHANGED items
  BY <1>4
<1> QED
  BY <1>2, <1>3, <1>4 DEF Acts, Step, StartPull, StartRmi, RequestBlob, BlobArrives, NextBlob,
     BlobComes, Guard, Clean, RemoveDir, OpenEntry, WriteEntry, WriteLost, ReadEntry,
     CheckRootfs, RemoveEntry, Fail, FetchFails, Kill

LEMMA OthersStep ==
    ASSUME TypeOK, TypeOK', NEW p \in Proc, NEW q \in Proc \ {p}, Acts(q), ~Refills(q, p)
    PROVE  Left(p)' <= Left(p)
<1>1. CASE pc[p] \in {"idle", "read", "failed"}
  <2>1. pc'[p] = pc[p]
    BY <1>1, OthersAt
  <2> QED
    BY <1>1, <2>1, LeftTyped, StepsLeftAt DEF Left
<1>2. CASE pc[p] \notin {"idle", "read", "failed"}
  <2> DEFINE L == Last(Man(p))
             n == Cardinality(items[Man(p)])
             k == Cardinality(items'[Man(p)])
  <2>1. /\ pc[p] \in PC /\ idx[p] \in Nat \ {0} /\ pc'[p] \notin {"idle", "read"}
        /\ Man(p) \in Manifest /\ L \in Nat \ {0} /\ n \in Nat
    BY <1>2, OthersAt, LastTyped, ItemsFinite DEF TypeOK, Man, Job
  <2>2. Left(p) = StepsLeft(pc[p], client[p], idx[p], L, n)
    BY <1>2, LeftNow
  <2>3. Left(p)' = StepsLeft(pc'[p], client'[p], idx[p], L, k)
    BY <2>1, OthersAt, LeftNext
  <2>4. pc[p] = "wipe" => k \in Nat /\ k <= n
    BY <2>1, OthersItems, ItemsFinite, FS_Subset, FS_CardinalityType
  <2>5. Left(p) \in Nat
    BY LeftTyped
  <2> HIDE DEF L, n, k
  <2>6. CASE pc[p] = "wipe"
    BY <2>1, <2>2, <2>3, <2>4, <2>6, OthersAt, StepsLeftAt
  <2>7. CASE pc[p] = "write"
    BY <2>2, <2>3, <2>7, OthersAt, StepsLeftAt
  <2>8. CASE pc[p] \notin {"wipe", "write"}
    <3>1. pc'[p] = pc[p] /\ Waits(client'[p]) = Waits(client[p])
      BY <2>8, OthersAt
    <3>2. StepsLeft(pc[p], client[p], idx[p], L, n) = StepsLeft(pc[p], client'[p], idx[p], L, k)
      BY <2>8, <3>1 DEF StepsLeft
    <3> QED
      BY <3>1, <3>2, <2>2, <2>3, <2>5
  <2> QED
    BY <2>6, <2>7, <2>8
<1> QED
  BY <1>1, <1>2

(* Once an rmi has read its entry, which it does once, and a pull from its start,
   a command of a manifest with n blobs takes at most 5n + 8 steps, whatever runs
   besides it and whatever it finds in the root, but for the chunks that race for a
   temporary file and for what another command unpacks into the directory it is
   removing (remove_dir_all against apply_layer, main.rs). *)
OwnAdvance(p) ==
    /\ pc[p] \notin {"idle", "read", "failed"} => Left(p) \in 1..(5 * Last(Man(p)) + 8)
    /\ pc[p] = "failed" => Left(p) = 1
    /\ Step(p) \/ FetchFails(p) \/ Kill(p) => pc'[p] # "read" /\ (pc[p] # "read" => Left(p)' < Left(p))
    /\ BlobComes(p) => Left(p)' = Left(p)

THEOREM CommandsAdvance ==
    Spec => [][\A p \in Proc :
                 /\ OwnAdvance(p)
                 /\ \A q \in Proc \ {p} :
                      Acts(q) => Left(p)' <= Left(p) \/ Refills(q, p)]_vars
<1> DEFINE A == \A p \in Proc :
                 /\ OwnAdvance(p)
                 /\ \A q \in Proc \ {p} :
                      Acts(q) => Left(p)' <= Left(p) \/ Refills(q, p)
<1>1. TypeOK /\ TypeOK' => A
  BY LeftTyped, FailedStep, WorkStep, RaceStep, ReadOnce, OthersStep DEF OwnAdvance
<1>2. TypeOK /\ TypeOK' /\ [Next]_vars => [A]_vars
  BY <1>1
<1> QED
  BY <1>2, TypeCorrect, PTL DEF Spec

(* Where commands on one reference are kept apart and no image has two references,
   nothing else adds to them: a command ends after at most 5n + 8 such steps of its
   own. *)
THEOREM ApartCommandsAdvance ==
    ASSUME Apart
    PROVE  Spec => [][\A p \in Proc, q \in Proc : p # q /\ Acts(q) => Left(p)' <= Left(p)]_vars
<1>1. ASSUME TypeOK, TypeOK', ApartInv, NEW p \in Proc, NEW q \in Proc, p # q, Acts(q)
      PROVE  Left(p)' <= Left(p)
  <2>1. ~Refills(q, p)
    <3> SUFFICES ASSUME Refills(q, p) PROVE FALSE
      OBVIOUS
    <3>1. pc[p] = "wipe" /\ pc[q] # "idle" /\ Man(p) = Man(q) /\ Man(p) \in Manifest
      BY <1>1 DEF Refills, ApplyLayer, WriteMarker, TypeOK
    <3> QED
      BY <1>1, <3>1, OtherImage
  <2> QED
    BY <1>1, <2>1, OthersStep
<1>2. TypeOK /\ TypeOK' /\ ApartInv /\ [Next]_vars =>
        [\A p \in Proc, q \in Proc : p # q /\ Acts(q) => Left(p)' <= Left(p)]_vars
  BY <1>1
<1> QED
  BY <1>2, ApartAlways, PTL DEF Spec
================================================================================
