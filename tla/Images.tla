--------------------------------- MODULE Images ---------------------------------
(***************************************************************************)
(* The commands of wwn-oci (main.rs) on one root: pull, with the blobs it  *)
(* fetches into the store (BlobCas), the rootfs it unpacks under a guard,  *)
(* and the catalog entry it saves; rmi, which undoes the last two.         *)
(* Several commands may run at once; each is a process that can be killed  *)
(* between any two steps.  A rootfs directory holds one item per unpacked  *)
(* layer and, at the end, the marker file .unpacked.                       *)
(***************************************************************************)
EXTENDS Naturals, Sequences

CONSTANTS
    Proc,        \* the running commands
    Ref,         \* canonical references: each has one file in the catalog
    Manifest,    \* manifest digests: each has one rootfs directory
    Digest,      \* blob digests
    Blobs,       \* [Manifest -> Seq(Digest)]: the config, then the layers
    Gzip,        \* the blobs that are gzip streams
    Published,   \* [Ref -> SUBSET Manifest]: what the registry may resolve it to
    Root,        \* the spellings of the one root, on the command line and in entries
    Unpack,      \* [Ref -> SUBSET BOOLEAN]: the ways it is pulled; FALSE stands for --no-unpack
    Serialized,  \* TRUE: something outside keeps commands on one reference apart
    OneWriter,   \* TRUE: something outside keeps downloads of one blob apart
    Killed,      \* the commands that may be killed: "pull", "rmi"
    NoDigest, NoFile, NoJob, NoManifest, Torn

(* An entry: its manifest, whether it has a rootfs, and the spelling of the root
   in the path of that rootfs. *)
Entry == [man : Manifest, rootfs : BOOLEAN, root : Root]
File  == [size : Nat, body : Entry \cup {Torn}]

(* An rmi learns from the entry what its manifest is, and whether it unpacked. *)
Job == [cmd : {"pull", "rmi"}, ref : Ref, root : Root,
        man : Manifest \cup {NoManifest}, unpack : BOOLEAN]

ASSUME ImagesAssumption ==
    /\ Blobs \in [Manifest -> Seq(Digest)]
    /\ \A m \in Manifest : Len(Blobs[m]) > 0
    /\ Gzip \subseteq Digest
    /\ Published \in [Ref -> SUBSET Manifest]
    /\ Unpack \in [Ref -> SUBSET BOOLEAN]
    /\ Serialized \in BOOLEAN /\ OneWriter \in BOOLEAN
    /\ NoDigest \notin Digest /\ NoManifest \notin Manifest /\ NoFile \notin File /\ NoJob \notin Job /\ Torn \notin Entry

VARIABLES
    named, stored, client, want,  \* the blob store (BlobCas)
    dirs,      \* the manifests whose rootfs directory exists
    items,     \* [Manifest -> what is in that directory]
    catalog,   \* [Ref -> NoFile or the size and the parsed text of its entry]
    pc,        \* where each command stands
    job,       \* what it works on: command, reference, root, manifest, unpack
    idx        \* the blob it fetches or unpacks

Cas == INSTANCE BlobCas

casVars == <<named, stored, client, want>>
vars    == <<named, stored, client, want, dirs, items, catalog, pc, job, idx>>

Marker    == 0
Last(m)   == Len(Blobs[m])
Layers(m) == 2..Last(m)
PC == {"idle", "read", "fetch", "guard", "clean", "wipe", "rmdir", "apply", "save", "write",
       "unlinked", "check", "unlink", "failed"}

(* Pretty-printed JSON grows with the layers and with a rootfs path. *)
EntrySize(e) == Last(e.man) + (IF e.rootfs THEN 2 ELSE 1)

Readable(r)  == catalog[r] # NoFile /\ catalog[r].body # Torn
Complete(m)  == m \in dirs /\ items[m] = {Marker} \cup Layers(m)
Man(p)       == job[p].man
BlobsOf(m)   == {Blobs[m][i] : i \in 1..Last(m)}
EntryOf(p)   == [man |-> Man(p), rootfs |-> job[p].unpack, root |-> job[p].root]
Busy(r)      == \E p \in Proc : pc[p] # "idle" /\ job[p].ref = r

--------------------------------------------------------------------------------
TypeOK ==
    /\ Cas!CasTypeOK
    /\ dirs \subseteq Manifest
    /\ items \in [Manifest -> SUBSET Nat]
    /\ \A m \in Manifest : items[m] \subseteq Marker..Last(m)
    /\ catalog \in [Ref -> {NoFile} \cup File]
    /\ pc \in [Proc -> PC]
    /\ job \in [Proc -> Job \cup {NoJob}]
    /\ \A p \in Proc :
         /\ pc[p] # "idle" => job[p] \in Job
         /\ pc[p] \notin {"idle", "read", "failed"} => Man(p) \in Manifest
    /\ idx \in [Proc -> Nat \ {0}]

Init ==
    /\ Cas!CasInit
    /\ dirs = {}
    /\ items = [m \in Manifest |-> {}]
    /\ catalog = [r \in Ref |-> NoFile]
    /\ pc = [p \in Proc |-> "idle"]
    /\ job = [p \in Proc |-> NoJob]
    /\ idx = [p \in Proc |-> 1]

(* The command goes on to its next step. *)
Goto(p, at) ==
    /\ pc' = [pc EXCEPT ![p] = at]
    /\ UNCHANGED <<job, idx>>

(* Mutant: blobs counted from zero. *)
ExitZero(p) ==
    /\ pc' = [pc EXCEPT ![p] = "idle"]
    /\ job' = [job EXCEPT ![p] = NoJob]
    /\ idx' = [idx EXCEPT ![p] = 0]

(* The command ends. *)
Exit(p) ==
    /\ pc' = [pc EXCEPT ![p] = "idle"]
    /\ job' = [job EXCEPT ![p] = NoJob]
    /\ idx' = [idx EXCEPT ![p] = 1]

Begin(p, at, j) ==
    /\ pc[p] = "idle"
    /\ Serialized => ~Busy(j.ref)
    /\ pc' = [pc EXCEPT ![p] = at]
    /\ job' = [job EXCEPT ![p] = j]
    /\ UNCHANGED idx

--------------------------------------------------------------------------------
(* wwn-oci pull: the registry resolves the reference to one of the manifests
   it publishes for it; a tag may move between two pulls. *)
StartPull(p, r, o, m, u) ==
    /\ m \in Published[r]
    /\ Begin(p, "fetch", [cmd |-> "pull", ref |-> r, root |-> o, man |-> m, unpack |-> u])
    /\ UNCHANGED <<casVars, dirs, items, catalog>>

(* download_blob for the config and for each layer in turn: the blob is asked
   for, is in the store already, or arrives; then comes the next. *)
RequestBlob(p) ==
    /\ pc[p] = "fetch" /\ idx[p] <= Last(Man(p))
    /\ LET d == Blobs[Man(p)][idx[p]] IN Cas!Fetch(p, d) \/ Cas!Hit(p, d)
    /\ UNCHANGED <<dirs, items, catalog, pc, job, idx>>

BlobArrives(p) ==
    /\ pc[p] = "fetch"
    /\ Cas!Store(p)
    /\ UNCHANGED <<dirs, items, catalog, pc, job, idx>>

(* Chunks of a download that others disturb. *)
BlobComes(p) ==
    /\ pc[p] = "fetch"
    /\ Cas!Race(p)
    /\ UNCHANGED <<dirs, items, catalog, pc, job, idx>>

(* Mutants: the outcome of download_blob is ignored; the loop does not advance. *)
NextBlobAnyway(p) ==
    /\ pc[p] = "fetch"
    /\ Cas!Leave(p)
    /\ idx' = [idx EXCEPT ![p] = @ + 1]
    /\ pc' = [pc EXCEPT ![p] = IF idx[p] < Last(Man(p)) THEN "fetch" ELSE "guard"]
    /\ UNCHANGED <<dirs, items, catalog, job>>

NextBlobAgain(p) ==
    /\ pc[p] = "fetch" /\ client[p] = "holding"
    /\ Cas!Leave(p)
    /\ pc' = [pc EXCEPT ![p] = IF idx[p] < Last(Man(p)) THEN "fetch" ELSE "guard"]
    /\ UNCHANGED <<dirs, items, catalog, job, idx>>

(* The config, the first of them, is read and parsed: a damaged one may not be. *)
NextBlob(p) ==
    /\ pc[p] = "fetch" /\ client[p] = "holding"
    /\ Cas!Leave(p)
    /\ idx' = [idx EXCEPT ![p] = @ + 1]
    /\ \/ pc' = [pc EXCEPT ![p] = IF idx[p] < Last(Man(p)) THEN "fetch" ELSE "guard"]
       \/ /\ idx[p] = 1 /\ want[p] \notin stored
          /\ pc' = [pc EXCEPT ![p] = "failed"]
    /\ UNCHANGED <<dirs, items, catalog, job>>

(* The download fails: the command ends, what it stored stays. *)
FetchFails(p) ==
    /\ pc[p] = "fetch" /\ client[p] \in {"fetching", "racing"}
    /\ Cas!Leave(p)
    /\ Exit(p)
    /\ UNCHANGED <<dirs, items, catalog>>

(* Mutant: the guard asks for the directory and not for the marker. *)
GuardByDir(p) ==
    /\ pc[p] = "guard"
    /\ Goto(p, IF job[p].unpack /\ Man(p) \notin dirs THEN "clean" ELSE "save")
    /\ UNCHANGED <<casVars, dirs, items, catalog>>

(* The guard: a rootfs with the marker is kept as it is. *)
Guard(p) ==
    /\ pc[p] = "guard"
    /\ Goto(p, IF job[p].unpack /\ Marker \notin items[Man(p)] THEN "clean" ELSE "save")
    /\ UNCHANGED <<casVars, dirs, items, catalog>>

(* Mutant: the directory is removed without asking whether it is there. *)
CleanAlways(p) ==
    /\ pc[p] = "clean"
    /\ pc' = [pc EXCEPT ![p] = "wipe"]
    /\ idx' = [idx EXCEPT ![p] = 2]
    /\ UNCHANGED <<casVars, dirs, items, catalog, job>>

(* A directory without it is a partial unpack, removed before the restart. *)
Clean(p) ==
    /\ pc[p] = "clean"
    /\ pc' = [pc EXCEPT ![p] = IF Man(p) \in dirs THEN "wipe" ELSE "apply"]
    /\ idx' = [idx EXCEPT ![p] = 2]
    /\ UNCHANGED <<casVars, dirs, items, catalog, job>>

(* remove_dir_all, for pull and rmi: the items one by one, in any order, then
   the directory, which must be there and empty. *)
Wipe(p) ==
    LET m == Man(p) IN
    /\ pc[p] = "wipe"
    /\ IF items[m] = {}
         THEN Goto(p, IF m \in dirs THEN "rmdir" ELSE "failed") /\ UNCHANGED items
         ELSE /\ \E i \in items[m] : items' = [items EXCEPT ![m] = @ \ {i}]
              /\ UNCHANGED <<pc, job, idx>>
    /\ UNCHANGED <<casVars, dirs, catalog>>

RemoveDir(p) ==
    LET m == Man(p) IN
    /\ pc[p] = "rmdir"
    /\ IF m \in dirs /\ items[m] = {}
         THEN /\ dirs' = dirs \ {m}
              /\ Goto(p, IF job[p].cmd = "pull" THEN "apply" ELSE "unlink")
         ELSE Goto(p, "failed") /\ UNCHANGED dirs
    /\ UNCHANGED <<casVars, items, catalog>>

(* apply_layer: the directory is made, if need be, before the blob is read, as
   a gzip stream whatever it is.  One that is none fails, a damaged one may. *)
ApplyLayer(p) ==
    LET m == Man(p)
        d == Blobs[m][idx[p]]
    IN
    /\ pc[p] = "apply" /\ idx[p] <= Last(m)
    /\ dirs' = dirs \cup {m}
    /\ \/ /\ d \in Gzip
          /\ items' = [items EXCEPT ![m] = @ \cup {idx[p]}]
          /\ idx' = [idx EXCEPT ![p] = @ + 1]
          /\ UNCHANGED <<pc, job>>
       \/ /\ d \notin Gzip \cap stored
          /\ Goto(p, "failed")
          /\ UNCHANGED items
    /\ UNCHANGED <<casVars, catalog>>

(* Mutant: the marker is written before the last layer. *)
WriteMarkerEarly(p) ==
    LET m == Man(p) IN
    /\ pc[p] = "apply" /\ idx[p] >= Last(m)
    /\ IF m \in dirs
         THEN items' = [items EXCEPT ![m] = @ \cup {Marker}] /\ Goto(p, "save")
         ELSE Goto(p, "failed") /\ UNCHANGED items
    /\ UNCHANGED <<casVars, dirs, catalog>>

(* The marker is written after the last layer, into a directory that must exist. *)
WriteMarker(p) ==
    LET m == Man(p) IN
    /\ pc[p] = "apply" /\ idx[p] > Last(m)
    /\ IF m \in dirs
         THEN items' = [items EXCEPT ![m] = @ \cup {Marker}] /\ Goto(p, "save")
         ELSE Goto(p, "failed") /\ UNCHANGED items
    /\ UNCHANGED <<casVars, dirs, catalog>>

(* Mutant: the entry is opened without truncation. *)
OpenEntryInPlace(p) ==
    LET r == job[p].ref IN
    /\ pc[p] = "save"
    /\ catalog' = [catalog EXCEPT ![r] = IF @ = NoFile THEN [size |-> 0, body |-> Torn] ELSE @]
    /\ Goto(p, "write")
    /\ UNCHANGED <<casVars, dirs, items>>

(* catalog::save: fs::write empties the file, or makes it, and then writes. *)
OpenEntry(p) ==
    /\ pc[p] = "save"
    /\ catalog' = [catalog EXCEPT ![job[p].ref] = [size |-> 0, body |-> Torn]]
    /\ Goto(p, "write")
    /\ UNCHANGED <<casVars, dirs, items>>

(* What another command wrote since beyond this entry's end stays behind it. *)
Over(file, e) ==
    IF file.size > EntrySize(e) THEN [size |-> file.size, body |-> Torn]
                                ELSE [size |-> EntrySize(e), body |-> e]

WriteEntry(p) ==
    /\ pc[p] = "write"
    /\ catalog' = [catalog EXCEPT ![job[p].ref] = Over(@, EntryOf(p))]
    /\ Exit(p)
    /\ UNCHANGED <<casVars, dirs, items>>

(* The file was removed by an rmi after it was opened: the entry is lost. *)
WriteLost(p) ==
    /\ pc[p] = "unlinked"
    /\ Exit(p)
    /\ UNCHANGED <<casVars, dirs, items, catalog>>

--------------------------------------------------------------------------------
(* wwn-oci rmi: a reference without an entry ends the command at once. *)
StartRmi(p, r, o) ==
    /\ catalog[r] # NoFile
    /\ Begin(p, "read",
             [cmd |-> "rmi", ref |-> r, root |-> o, man |-> NoManifest, unpack |-> FALSE])
    /\ UNCHANGED <<casVars, dirs, items, catalog>>

(* It reads the entry; one that has gone since, or does not parse, fails the
   command.  A rootfs is only its own under the root as it spells it. *)
ReadEntry(p) ==
    LET e == catalog[job[p].ref].body IN
    /\ pc[p] = "read"
    /\ IF Readable(job[p].ref)
         THEN /\ pc' = [pc EXCEPT ![p] = "check"]
              /\ job' = [job EXCEPT ![p].man = e.man,
                                    ![p].unpack = e.rootfs /\ e.root = job[p].root]
              /\ UNCHANGED idx
         ELSE Goto(p, "failed")
    /\ UNCHANGED <<casVars, dirs, items, catalog>>

(* Mutant: only the entry is removed. *)
CheckNoRootfs(p) ==
    /\ pc[p] = "check"
    /\ Goto(p, "unlink")
    /\ UNCHANGED <<casVars, dirs, items, catalog>>

(* Its rootfs, if it has one and the directory is there, goes first. *)
CheckRootfs(p) ==
    /\ pc[p] = "check"
    /\ Goto(p, IF job[p].unpack /\ Man(p) \in dirs THEN "wipe" ELSE "unlink")
    /\ UNCHANGED <<casVars, dirs, items, catalog>>

(* The entry goes last; a command that has it open will write to a file that
   has no name any more. *)
RemoveEntry(p) ==
    LET r == job[p].ref IN
    /\ pc[p] = "unlink"
    /\ IF catalog[r] = NoFile
         THEN Goto(p, "failed") /\ UNCHANGED catalog
         ELSE /\ catalog' = [catalog EXCEPT ![r] = NoFile]
              /\ pc' = [q \in Proc |->
                    IF q = p THEN "idle"
                    ELSE IF pc[q] = "write" /\ job[q].ref = r THEN "unlinked"
                    ELSE pc[q]]
              /\ job' = [job EXCEPT ![p] = NoJob]
              /\ idx' = [idx EXCEPT ![p] = 1]
    /\ UNCHANGED <<casVars, dirs, items>>

(* An error of the file system or of a layer ends the command. *)
Fail(p) ==
    /\ pc[p] = "failed"
    /\ Exit(p)
    /\ UNCHANGED <<casVars, dirs, items, catalog>>

(* The command is killed; killed while it unpacks a layer it may leave the
   directory with part of that layer. *)
Kill(p) ==
    /\ pc[p] # "idle" /\ job[p].cmd \in Killed
    /\ dirs' = dirs \/ (pc[p] = "apply" /\ dirs' = dirs \cup {Man(p)})
    /\ IF client[p] = "idle" THEN UNCHANGED casVars ELSE Cas!Leave(p)
    /\ Exit(p)
    /\ UNCHANGED <<items, catalog>>

Step(p) ==
    \/ RequestBlob(p) \/ BlobArrives(p) \/ NextBlob(p)
    \/ Guard(p) \/ Clean(p) \/ Wipe(p) \/ RemoveDir(p) \/ ApplyLayer(p) \/ WriteMarker(p)
    \/ OpenEntry(p) \/ WriteEntry(p) \/ WriteLost(p)
    \/ ReadEntry(p) \/ CheckRootfs(p) \/ RemoveEntry(p) \/ Fail(p)

Next ==
    \E p \in Proc :
        \/ \E r \in Ref, o \in Root, m \in Manifest : \E u \in Unpack[r] : StartPull(p, r, o, m, u)
        \/ \E r \in Ref, o \in Root : StartRmi(p, r, o)
        \/ Step(p)
        \/ BlobComes(p)
        \/ FetchFails(p)
        \/ Kill(p)

Spec == Init /\ [][Next]_vars

(* A command that is not killed and whose downloads arrive goes on. *)
FairSpec == Spec /\ \A p \in Proc : WF_vars(Step(p))

--------------------------------------------------------------------------------
(* Nothing of a rootfs with the marker is missing, unless a command is removing
   it: the pull that finds the marker may skip the unpacking (main.rs, "fast
   no-op re-unpack guard"). *)
Removing(m) == \E p \in Proc : pc[p] \in {"wipe", "rmdir"} /\ Man(p) = m

MarkerComplete ==
    \A m \in Manifest : Marker \in items[m] => Complete(m) \/ Removing(m)

(* An entry that says it has a rootfs has all of it, unless an rmi of the same
   reference is under way (catalog.rs, ImageEntry.rootfs). *)
EntryUsable ==
    \A r \in Ref : Readable(r) /\ catalog[r].body.rootfs =>
        \/ Complete(catalog[r].body.man)
        \/ \E p \in Proc : pc[p] # "idle" /\ job[p].cmd = "rmi" /\ job[p].ref = r

(* Every blob an entry names has a file in the store, whatever interleaves and
   whatever is killed (lib.rs, download_blob). *)
EntryBlobsPresent ==
    \A r \in Ref : Readable(r) => BlobsOf(catalog[r].body.man) \subseteq named

(* And that file has the content that was verified: the image in the catalog can
   be unpacked again without the registry (lib.rs, "verifying every blob's
   digest"). *)
EntryBlobsStored ==
    \A r \in Ref : Readable(r) => BlobsOf(catalog[r].body.man) \subseteq stored

(* A pull that ends well leaves an entry that parses and names its image, also
   over the torn one of a pull that was killed while it saved (catalog.rs, save). *)
SavedReadable ==
    [][\A p \in Proc : WriteEntry(p) => catalog'[job[p].ref].body = EntryOf(p)]_vars

(* What an earlier or a concurrent command left in the root fails no other, but
   for an entry cut short by a kill, which fails an rmi (catalog.rs, remove), and
   a blob that racing downloads damaged.  Else a command fails on its image alone:
   on one without layers, or with a layer that is no gzip stream (main.rs, Pull). *)
Cut(r)     == catalog[r] # NoFile /\ catalog[r].body = Torn
Awkward(m) == Layers(m) = {} \/ \E i \in Layers(m) : Blobs[m][i] \notin Gzip

FailsWithReason ==
    [][\A p \in Proc : pc[p] # "failed" /\ pc'[p] = "failed" =>
         \/ job[p].cmd = "rmi" /\ Cut(job[p].ref)
         \/ job[p].cmd = "pull" /\ ~(BlobsOf(Man(p)) \subseteq stored)
         \/ job[p].cmd = "pull" /\ job[p].unpack /\ Awkward(Man(p))]_vars

(* An rmi that removes an entry with a rootfs leaves no trace of the rootfs, if it
   spells the root as the pull did (catalog.rs, remove: "catalog entry + its
   unpacked rootfs"; under another spelling the code keeps it). *)
RmiRemovesRootfs ==
    [][\A p \in Proc :
         LET r == job[p].ref
             e == catalog[r].body
         IN
         RemoveEntry(p) /\ Readable(r) /\ e.rootfs /\ e.root = job[p].root =>
           e.man \notin dirs']_vars

(* Every command ends, whatever the killed ones left. *)
EveryCommandEnds == \A p \in Proc : pc[p] # "idle" ~> pc[p] = "idle"
================================================================================
