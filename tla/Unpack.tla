--------------------------------- MODULE Unpack ---------------------------------
(***************************************************************************)
(* unpack.rs: the layers of an image unpacked onto a rootfs directory, one *)
(* tar entry after another.  The path of an entry is joined to the rootfs  *)
(* as it is spelled, and the kernel walks it: symbolic links in the tree   *)
(* are followed, also out of the rootfs.  Where a walk meets none, and a   *)
(* layer lists its whiteouts before what it puts in their place, this is   *)
(* the overlay of the layers (Overlay); a layer that cannot be unpacked    *)
(* ends it, and the rootfs is thrown away (main.rs).                       *)
(***************************************************************************)
EXTENDS Naturals

CONSTANTS
    Path, Above, Root, MaxLayers, NoNode,   \* as in Overlay
    Far,       \* paths in a directory outside the rootfs
    Outer,     \* that directory
    Target,    \* what the links of the layers point to: places, Root or Outer
    Grafted,   \* [target][place][place in it, or itself]: the latter under the target
    NoPlace,   \* ... where none of the places named here is there
    Label,     \* the media types: "gzip", "tar", "zstd", "other"
    MaxLinks   \* how many links the kernel follows in one walk

Format  == {"gzip", "tar"}
Place   == Path \cup Far
Base    == {Root, Outer}
Kind    == {"dir", "file"} \cup Target   \* a link is the place it points to
Node    == [kind : Kind, layer : 0..MaxLayers]
Marker  == {"white", "opaque"}           \* .wh.<name>, .wh..wh..opq
Entry   == Kind \cup {"hard"} \cup Marker
Walk    == [path : Path \cup {Root}, at : Place \cup Base, goal : Place \cup Base, sure : Place \cup Base,
            hops : 0..MaxLinks]
BaseOf(l) == IF l \in Far \cup {Outer} THEN Outer ELSE Root

(* What lies above a place lies on its way from one of the bases; a graft goes
   with the way it is put under, and lies below it as it lay below its place. *)
ASSUME UnpackAssumption ==
    /\ Above \in [Place -> SUBSET Place]
    /\ \A p \in Place : p \notin Above[p] /\ \A q \in Above[p] : Above[q] \subseteq Above[p]
    /\ \A p \in Path : Above[p] \subseteq Path
    /\ \A p \in Far : Above[p] \subseteq Far
    /\ Path \cap Far = {} /\ Base \cap Place = {} /\ Root # Outer
    /\ Target \subseteq Place \cup Base
    /\ Grafted \in [Target -> [Place -> [Place -> Place \cup Base \cup {NoPlace}]]]
    /\ \A p, q \in Place, t \in Target : p \in Above[q] => Grafted[t][p][q] \notin Base
    /\ NoPlace \notin Place \cup Base
    /\ ({"dir", "file", "hard"} \cup Marker) \cap (Place \cup Base) = {}
    /\ MaxLayers \in Nat /\ MaxLinks \in Nat
    /\ NoNode \notin Node

VARIABLES
    tree,   \* the places: the rootfs directory, and what lies outside
    layer,  \* the layer; what lies outside is of none, 0
    pc,     \* "layers": between two of them; "entries": in the midst of one;
            \* "walk": in the midst of an entry; "failed"
    entry,  \* that entry: what it makes, or which marker it is
    walk    \* its path; the directory reached, the place gone to and the part of it
            \* that must exist already; the links followed

vars == <<tree, layer, pc, entry, walk>>

(* To the overlay a failure is the end of the rootfs. *)
Shown == [p \in Path |-> IF pc = "failed" THEN NoNode ELSE tree[p]]
Depth == IF pc = "failed" THEN 0 ELSE layer

Overlaid == INSTANCE Overlay WITH tree <- Shown, layer <- Depth

Inside(d) ==
    IF d = Root THEN Path ELSE IF d = Outer THEN Far ELSE {p \in Place : d \in Above[p]}
Exists(p) == tree[p] # NoNode
IsDir(p)  == Exists(p) /\ tree[p].kind = "dir"
IsLink(p) == Exists(p) /\ tree[p].kind \in Target
Own(p)    == Exists(p) /\ tree[p].layer = layer
New(p, kind) == [kind |-> kind, layer |-> IF p \in Path THEN layer ELSE 0]

TypeOK ==
    /\ tree \in [Place -> Node \cup {NoNode}]
    /\ layer \in 0..MaxLayers
    /\ pc \in {"layers", "entries", "walk", "failed"}
    /\ pc \in {"entries", "walk"} => layer > 0
    /\ entry \in Entry
    /\ walk \in Walk

NoWalk == [path |-> Root, at |-> Root, goal |-> Root, sure |-> Root, hops |-> 0]

(* The rootfs is empty; outside there are files and directories. *)
Init ==
    /\ \E out \in [Far -> {NoNode} \cup [kind : {"dir", "file"}, layer : {0}]] :
         /\ \A p \in Far : out[p] # NoNode =>
              \A q \in Above[p] : out[q] # NoNode /\ out[q].kind = "dir"
         /\ tree = [p \in Place |-> IF p \in Far THEN out[p] ELSE NoNode]
    /\ layer = 0
    /\ pc = "layers"
    /\ entry = "file" /\ walk = NoWalk

--------------------------------------------------------------------------------
(* apply_layer picks the decompressor by the media type; a blob in another format
   than that fails at its first entry. *)
StartLayer ==
    /\ pc = "layers" /\ layer < MaxLayers
    /\ layer' = layer + 1
    /\ \E label \in Label, format \in Format :
         pc' = IF label = format THEN "entries" ELSE "failed"
    /\ UNCHANGED <<tree, entry, walk>>

EndLayer == pc = "entries" /\ pc' = "layers" /\ UNCHANGED <<tree, layer, entry, walk>>

(* The tar is cut short, a path in it is absolute or has a "..", or the file system
   has an error. *)
Fail ==
    /\ pc \in {"entries", "walk"}
    /\ pc' = "failed" /\ entry' = "file" /\ walk' = NoWalk
    /\ UNCHANGED <<tree, layer>>

(* safe_join: the path as it is spelled, below the rootfs. *)
StartEntry ==
    /\ pc = "entries"
    /\ pc' = "walk"
    /\ entry' \in Entry
    /\ \E p \in Path \cup (IF entry' = "opaque" THEN {Root} ELSE {}) :
         walk' = [NoWalk EXCEPT !.path = p, !.goal = p]
    /\ UNCHANGED <<tree, layer>>

(* The entry is done, or fails its layer. *)
Done(how) ==
    /\ pc' = how
    /\ entry' = "file" /\ walk' = NoWalk
    /\ UNCHANGED layer

(* The places from a base down to l, the next one on the way, and whether it is
   looked through: the last is for directories and opaque markers only. *)
Down(l) == IF l \in Base THEN {} ELSE Above[l] \cup {l}

Looking(l) ==
    /\ pc = "walk"
    /\ l \in Down(walk.goal) /\ Above[l] = Down(walk.at)
    /\ l # walk.goal \/ entry \in {"dir", "opaque"}

Makes == entry \notin Marker   \* create_dir_all goes ahead of what is made

Enter(l) ==
    /\ Looking(l) /\ IsDir(l)
    /\ walk' = [walk EXCEPT !.at = l]
    /\ UNCHANGED <<tree, layer, pc, entry>>

(* create_dir_all: what is missing is made, but not where a link points to. *)
MakeDir(l) ==
    /\ Looking(l) /\ ~Exists(l) /\ Makes /\ l \notin Down(walk.sure)
    /\ tree' = [tree EXCEPT ![l] = New(l, "dir")]
    /\ walk' = [walk EXCEPT !.at = l]
    /\ UNCHANGED <<layer, pc, entry>>

(* The walk goes on from where the link points to, all of which must exist. *)
Follow(l) ==
    LET t == tree[l].kind
        Moved(p) == IF l \in Down(p) THEN Grafted[t][l][p] ELSE t
    IN
    /\ Looking(l) /\ IsLink(l) /\ walk.hops < MaxLinks
    /\ NoPlace \notin {Moved(walk.goal), Moved(walk.sure)}
    /\ walk' = [walk EXCEPT !.at = BaseOf(t), !.goal = Moved(@), !.sure = Moved(@), !.hops = @ + 1]
    /\ UNCHANGED <<tree, layer, pc, entry>>

(* There is no way on: a marker has nothing to remove, anything else fails.  A link
   in the place of a directory is followed or not, as the tar crate has it. *)
DeadEnd(l) ==
    /\ Looking(l)
    /\ \/ Exists(l) /\ ~IsDir(l) /\ ~IsLink(l)
       \/ ~Exists(l) /\ (~Makes \/ l \in Down(walk.sure))
       \/ IsLink(l) /\ (walk.hops = MaxLinks \/ (entry = "dir" /\ l = walk.goal))
    /\ Done(IF Makes THEN "failed" ELSE "entries")
    /\ UNCHANGED tree

--------------------------------------------------------------------------------
(* remove_path, remove_dir_contents: everything there goes, links as links. *)
Without(S) == [p \in Place |-> IF p \in S THEN NoNode ELSE tree[p]]
Whole(p)   == {p} \cup Inside(p)

(* Mutant: what is behind the links goes too. *)
RemoveBehind ==
    LET g == walk.goal IN
    /\ pc = "walk" /\ entry = "white" /\ Above[g] = Down(walk.at)
    /\ tree' = Without(Whole(g) \cup UNION {Inside(tree[p].kind) : p \in {q \in Whole(g) : IsLink(q)}})
    /\ Done("entries")

(* Mutant: the directory goes, what is inside it stays. *)
RemoveShallow ==
    LET g == walk.goal IN
    /\ pc = "walk" /\ entry = "white" /\ g \in Place /\ Above[g] = Down(walk.at)
    /\ tree' = Without({g})
    /\ Done("entries")

(* .wh.<name> *)
Remove ==
    LET g == walk.goal IN
    /\ pc = "walk" /\ entry = "white" /\ g \in Place /\ Above[g] = Down(walk.at)
    /\ tree' = Without(Whole(g))
    /\ Done("entries")

(* .wh..wh..opq: the directory stays. *)
Clear ==
    /\ pc = "walk" /\ entry = "opaque" /\ walk.at = walk.goal
    /\ tree' = Without(Inside(walk.goal))
    /\ Done("entries")

(* A directory over a directory keeps what is in it and takes the entry's mode. *)
PutDir ==
    /\ pc = "walk" /\ entry = "dir" /\ walk.at = walk.goal
    /\ tree' = [p \in Place |-> IF p = walk.goal THEN New(p, "dir") ELSE tree[p]]
    /\ Done("entries")

(* Mutant: what is in its place is not removed. *)
PutOver ==
    LET g == walk.goal IN
    /\ pc = "walk" /\ entry \in {"file"} \cup Target /\ g \in Place /\ Above[g] = Down(walk.at)
    /\ tree' = [tree EXCEPT ![g] = New(g, entry)]
    /\ Done("entries")

(* Anything else goes in the place of what is there, a link too. *)
Put ==
    LET g == walk.goal IN
    /\ pc = "walk" /\ entry \in {"file"} \cup Target /\ g \in Place /\ Above[g] = Down(walk.at)
    /\ tree' = [Without(Whole(g)) EXCEPT ![g] = New(g, entry)]
    /\ Done("entries")

(* Mutant: the link is a node of its own kind. *)
HardLinkKept ==
    LET g == walk.goal IN
    /\ pc = "walk" /\ entry = "hard" /\ g \in Place /\ Above[g] = Down(walk.at)
    /\ tree' = [Without(Whole(g)) EXCEPT ![g] = New(g, entry)]
    /\ Done("entries")

(* A hard link is made to a path that the tar crate takes from the working
   directory, and not from the rootfs, once what was in its place is gone.  It
   fails here; to a tree, one that finds a file there is a Put. *)
HardLink ==
    LET g == walk.goal IN
    /\ pc = "walk" /\ entry = "hard" /\ g \in Place /\ Above[g] = Down(walk.at)
    /\ tree' = Without(Whole(g))
    /\ Done("failed")

(* The rootfs is removed, partial or whole, and a pull starts again. *)
Restart ==
    /\ pc \in {"failed", "layers"}
    /\ tree' = Without(Path) /\ layer' = 0 /\ pc' = "layers"
    /\ UNCHANGED <<entry, walk>>

Next ==
    \/ StartLayer \/ EndLayer \/ Fail \/ Restart
    \/ StartEntry
    \/ \E l \in Place : Enter(l) \/ MakeDir(l) \/ Follow(l) \/ DeadEnd(l)
    \/ Remove \/ Clear \/ PutDir \/ Put \/ HardLink

Spec == Init /\ [][Next]_vars

--------------------------------------------------------------------------------
(* What is in the tree lies in directories of the tree, and a walk stands in one,
   also half way through a layer that fails, and wherever links lead. *)
TreeClosed ==
    /\ \A p \in Place : Exists(p) => \A q \in Above[p] : IsDir(q)
    /\ pc = "walk" /\ walk.at \notin Base => IsDir(walk.at)

(* The two cases in which the rootfs is not the overlay of its layers: a whiteout
   that comes after what its own layer put in its scope, and a walk through a link. *)
Late ==
    /\ pc = "walk" /\ entry \in Marker
    /\ \E q \in IF entry = "white" THEN Whole(walk.goal) ELSE Inside(walk.goal) : Own(q)

Detour == pc = "walk" /\ walk.hops > 0

(* What the entry makes of the overlay, at its own path and not where a walk led to. *)
Laid ==
    LET below == Overlaid!Inside(walk.path) IN
    CASE entry = "white"  -> Overlaid!Hide({walk.path} \cup below)
      [] entry = "opaque" -> Overlaid!Hide(below)
      [] OTHER            -> Overlaid!Put(walk.path, entry)

(* But for these the rootfs is the overlay of its layers, step by step, and each entry
   is laid at its own path (unpack.rs, "Applied in order, each overlays the previous"). *)
OverlaySteps ==
    /\ Overlaid!OverlayInit
    /\ [][Late \/ Detour \/ Overlaid!OverlayNext]_<<Shown, Depth>>
    /\ [][Remove \/ Clear \/ PutDir \/ Put => Late \/ Detour \/ Laid]_vars

(* Only a walk through a link changes what lies outside the rootfs: to remove or to
   replace a link, or a directory with links in it, leaves what they point to
   (unpack.rs, remove_path). *)
OutsideKept == [][Detour \/ \A p \in Far : tree'[p] = tree[p]]_vars
================================================================================
