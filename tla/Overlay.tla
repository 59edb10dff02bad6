-------------------------------- MODULE Overlay --------------------------------
(***************************************************************************)
(* What the layers of an image make of a rootfs, by the rules of the OCI   *)
(* image specification: an entry lies over what the layers below left, and *)
(* a whiteout hides what lies below its own layer, never its own layer.    *)
(* Every node remembers the layer it comes from.                           *)
(***************************************************************************)
EXTENDS Naturals

CONSTANTS
    Path,       \* the paths below the root of the filesystem
    Above,      \* [Path -> SUBSET Path]: the directories a path lies in
    Root,       \* the root itself
    Target,     \* what symbolic links point to
    MaxLayers,  \* bound on the layers
    NoNode

VARIABLES
    tree,   \* [Path -> NoNode, or the kind of a node and the layer it is from]
    layer   \* the layer being applied, counted from 1; 0 before the first

Kind == {"dir", "file"} \cup Target   \* a link is what it points to
Node == [kind : Kind, layer : 1..MaxLayers]

Empty     == [p \in Path |-> NoNode]
Inside(d) == IF d = Root THEN Path ELSE {p \in Path : d \in Above[p]}
Own(p)    == tree[p] # NoNode /\ tree[p].layer = layer
IsDir(p)  == tree[p] # NoNode /\ tree[p].kind = "dir"

OverlayTypeOK ==
    /\ tree \in [Path -> Node \cup {NoNode}]
    /\ layer \in 0..MaxLayers

OverlayInit == tree = Empty /\ layer = 0

NextLayer == layer < MaxLayers /\ layer' = layer + 1 /\ UNCHANGED tree

(* A whiteout hides the nodes of S, but neither those of its own layer nor the
   directories these lie in. *)
Hide(S) ==
    /\ layer > 0
    /\ tree' = [p \in Path |->
          IF p \in S /\ ~Own(p) /\ ~(\E q \in Inside(p) : Own(q)) THEN NoNode ELSE tree[p]]
    /\ UNCHANGED layer

(* A node takes its place; what it lies in becomes a directory; what lay inside
   it stays if a directory is put over a directory. *)
Put(p, kind) ==
    /\ layer > 0
    /\ tree' = [q \in Path |->
          IF q = p THEN [kind |-> kind, layer |-> layer]
          ELSE IF q \in Above[p] /\ ~IsDir(q) THEN [kind |-> "dir", layer |-> layer]
          ELSE IF q \in Inside(p) /\ ~(kind = "dir" /\ IsDir(p)) THEN NoNode
          ELSE tree[q]]
    /\ UNCHANGED layer

(* The rootfs is abandoned. *)
Discard == tree' = Empty /\ layer' = 0

OverlayNext ==
    \/ NextLayer
    \/ \E p \in Path : Hide({p} \cup Inside(p))
    \/ \E d \in Path \cup {Root} : Hide(Inside(d))
    \/ \E p \in Path, kind \in Kind : Put(p, kind)
    \/ Discard

OverlaySpec == OverlayInit /\ [][OverlayNext]_<<tree, layer>>
================================================================================
