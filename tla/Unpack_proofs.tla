------------------------------ MODULE Unpack_proofs ------------------------------
(***************************************************************************)
(* Proofs about Unpack, for any places, any links among them and any       *)
(* number of layers and entries, in any order.                             *)
(***************************************************************************)
EXTENDS Unpack, TLAPS

(* A walk that followed no link goes to the path of its entry as it is spelled, and
   only an opaque marker is about the rootfs itself. *)
AsSpelled ==
    pc = "walk" /\ walk.hops = 0 =>
        /\ walk.goal = walk.path /\ walk.at \in Path \cup {Root}
        /\ walk.path \in Path \/ (walk.path = Root /\ entry = "opaque")

LEMMA NewTyped ==
    ASSUME TypeOK, NEW p \in Place, NEW kind \in Kind
    PROVE  New(p, kind) \in Node /\ New(p, kind) # NoNode /\ New(p, kind).kind = kind
BY UnpackAssumption DEF TypeOK, New, Node

LEMMA WithoutTyped ==
    ASSUME TypeOK, NEW S
    PROVE  Without(S) \in [Place -> Node \cup {NoNode}]
BY DEF TypeOK, Without

(* The walk that is none. *)
LEMMA NoWalkTyped == NoWalk \in Walk /\ "file" \in Entry
BY UnpackAssumption DEF NoWalk, Walk, Base, Entry, Kind

(* The end of an entry leaves types as they are, where the tree is one. *)
LEMMA DoneTyped ==
    ASSUME TypeOK, pc = "walk", NEW how \in {"entries", "failed"}, Done(how),
           tree' \in [Place -> Node \cup {NoNode}]
    PROVE  TypeOK'
BY NoWalkTyped DEF Done, TypeOK

LEMMA TypeStep == TypeOK /\ [Next]_vars => TypeOK'
<1> SUFFICES ASSUME TypeOK, [Next]_vars PROVE TypeOK'
  OBVIOUS
<1>1. CASE StartLayer
  BY <1>1, UnpackAssumption DEF StartLayer, TypeOK
<1>2. CASE EndLayer
  BY <1>2 DEF EndLayer, TypeOK
<1>3. CASE Fail
  BY <1>3, NoWalkTyped DEF Fail, TypeOK
<1>4. CASE Restart
  BY <1>4, WithoutTyped, UnpackAssumption DEF Restart, TypeOK
<1>5. CASE StartEntry
  <2>1. PICK p \in Path \cup {Root} : walk' = [NoWalk EXCEPT !.path = p, !.goal = p]
    BY <1>5 DEF StartEntry
  <2>2. walk' = [path |-> p, at |-> Root, goal |-> p, sure |-> Root, hops |-> 0]
    BY <2>1 DEF NoWalk
  <2>3. walk' \in Walk
    BY <2>2, UnpackAssumption DEF Walk, Place, Base
  <2> QED
    BY <1>5, <2>3 DEF StartEntry, TypeOK
<1>6. ASSUME NEW l \in Place, Enter(l) PROVE TypeOK'
  <2>1. walk' \in Walk
    BY <1>6 DEF Enter, TypeOK, Walk
  <2> QED
    BY <1>6, <2>1 DEF Enter, TypeOK
<1>7. ASSUME NEW l \in Place, MakeDir(l) PROVE TypeOK'
  <2>1. walk' \in Walk
    BY <1>7 DEF MakeDir, TypeOK, Walk
  <2>2. tree' \in [Place -> Node \cup {NoNode}]
    BY <1>7, NewTyped DEF MakeDir, TypeOK, Kind
  <2> QED
    BY <1>7, <2>1, <2>2 DEF MakeDir, TypeOK
<1>8. ASSUME NEW l \in Place, Follow(l) PROVE TypeOK'
  <2> DEFINE t == tree[l].kind
             Moved(p) == IF l \in Down(p) THEN Grafted[t][l][p] ELSE t
  <2>1. t \in Target /\ t \in Place \cup Base /\ BaseOf(t) \in Base
    BY <1>8, UnpackAssumption DEF Follow, IsLink, BaseOf, Base
  <2>2. ASSUME NEW p \in Place \cup Base, Moved(p) # NoPlace PROVE Moved(p) \in Place \cup Base
    <3>1. l \in Down(p) => p \in Place
      BY DEF Down
    <3> QED
      BY <2>1, <2>2, <3>1, UnpackAssumption
  <2>3. walk \in Walk /\ walk.hops + 1 \in 0..MaxLinks
    BY <1>8, UnpackAssumption DEF Follow, TypeOK, Walk
  <2>4. Moved(walk.goal) \in Place \cup Base /\ Moved(walk.sure) \in Place \cup Base
    BY <1>8, <2>2, <2>3 DEF Follow, Walk
  <2>5. walk' = [walk EXCEPT !.at = BaseOf(t), !.goal = Moved(walk.goal),
                             !.sure = Moved(walk.sure), !.hops = walk.hops + 1]
    BY <1>8 DEF Follow
  <2> HIDE DEF Moved, t
  <2>6. walk' \in Walk
    BY <2>1, <2>3, <2>4, <2>5 DEF Walk
  <2> QED
    BY <1>8, <2>6 DEF Follow, TypeOK
<1>9. ASSUME NEW l \in Place, DeadEnd(l) PROVE TypeOK'
  BY <1>9, DoneTyped DEF DeadEnd, Looking, TypeOK
<1>10. CASE Remove
  BY <1>10, DoneTyped, WithoutTyped DEF Remove
<1>11. CASE Clear
  BY <1>11, DoneTyped, WithoutTyped DEF Clear
<1>12. CASE PutDir
  <2>1. tree' \in [Place -> Node \cup {NoNode}]
    BY <1>12, NewTyped DEF PutDir, TypeOK, Kind
  <2> QED
    BY <1>12, <2>1, DoneTyped DEF PutDir
<1>13. CASE Put
  <2>1. tree' \in [Place -> Node \cup {NoNode}]
    BY <1>13, NewTyped, WithoutTyped DEF Put, Kind
  <2> QED
    BY <1>13, <2>1, DoneTyped DEF Put
<1>14. CASE HardLink
  BY <1>14, DoneTyped, WithoutTyped DEF HardLink
<1>15. CASE UNCHANGED vars
  BY <1>15 DEF vars, TypeOK
<1> QED
  BY <1>1, <1>2, <1>3, <1>4, <1>5, <1>6, <1>7, <1>8, <1>9, <1>10, <1>11, <1>12, <1>13, <1>14,
     <1>15 DEF Next

--------------------------------------------------------------------------------
(* A walk that reached what lies right above a place found directories all the way. *)
LEMMA WayOfDirs ==
    ASSUME TypeOK, TreeClosed, pc = "walk", NEW l \in Place, Above[l] = Down(walk.at),
           NEW q \in Above[l]
    PROVE  IsDir(q)
<1>1. walk.at \notin Base /\ (q = walk.at \/ q \in Above[walk.at])
  BY DEF Down
<1>2. IsDir(walk.at) /\ walk.at \in Place
  BY <1>1 DEF TreeClosed, TypeOK, Walk
<1> QED
  BY <1>1, <1>2 DEF TreeClosed, IsDir

(* What lies in a place goes with it. *)
LEMMA InsideAll ==
    ASSUME NEW d \in Place \cup Base
    PROVE  /\ Inside(d) \subseteq Place
           /\ \A p \in Place : \A q \in Above[p] : q \in Inside(d) => p \in Inside(d)
           /\ d \in Place =>
                \A p \in Place : \A q \in Above[p] : q \in Whole(d) => p \in Whole(d)
BY UnpackAssumption DEF Inside, Whole, Place, Base

(* To take places away together with what lies in them leaves a tree. *)
LEMMA WithoutClosed ==
    ASSUME TreeClosed, NEW S, \A p \in Place : \A q \in Above[p] : q \in S => p \in S,
           tree' = Without(S), pc' # "walk"
    PROVE  TreeClosed'
BY UnpackAssumption DEF TreeClosed, Without, Exists, IsDir

LEMMA MakeDirClosed ==
    ASSUME TypeOK, TreeClosed, NEW l \in Place, MakeDir(l)
    PROVE  TreeClosed'
<1>1. /\ pc = "walk" /\ pc' = "walk" /\ ~Exists(l) /\ Above[l] = Down(walk.at)
      /\ tree' = [tree EXCEPT ![l] = New(l, "dir")] /\ walk'.at = l
  BY DEF MakeDir, Looking, TypeOK, Walk
<1>2. tree'[l] = New(l, "dir") /\ IsDir(l)'
  BY <1>1, NewTyped DEF TypeOK, IsDir, Exists, Kind
<1>3. ASSUME NEW q \in Place, IsDir(q) PROVE IsDir(q)'
  BY <1>1, <1>3 DEF TypeOK, IsDir, Exists
<1>4. ASSUME NEW p \in Place, Exists(p)', NEW q \in Above[p] PROVE IsDir(q)'
  <2>1. q \in Place
    BY UnpackAssumption
  <2>2. CASE p = l
    BY <1>1, <1>3, <2>1, <2>2, WayOfDirs
  <2>3. CASE p # l
    <3>1. Exists(p)
      BY <1>1, <1>4, <2>3 DEF TypeOK, Exists
    <3> QED
      BY <1>3, <2>1, <3>1 DEF TreeClosed
  <2> QED
    BY <2>2, <2>3
<1> QED
  BY <1>1, <1>2, <1>4 DEF TreeClosed

LEMMA PutClosed ==
    ASSUME TypeOK, TreeClosed, Put
    PROVE  TreeClosed'
<1> DEFINE g == walk.goal
<1>1. /\ g \in Place /\ pc = "walk" /\ pc' = "entries" /\ Above[g] = Down(walk.at)
      /\ tree' = [Without(Whole(g)) EXCEPT ![g] = New(g, entry)]
  BY DEF Put, Done
<1> HIDE DEF g
<1>2. \A q \in Above[g] : q \in Place /\ q \notin Whole(g) /\ IsDir(q)
  BY <1>1, WayOfDirs, UnpackAssumption DEF Whole, Inside, Base
<1>3. g \in Whole(g)
  BY DEF Whole
<1>4. \A p \in Place : p # g => tree'[p] = IF p \in Whole(g) THEN NoNode ELSE tree[p]
  BY <1>1 DEF Without
<1>5. ASSUME NEW p \in Place, Exists(p)', NEW q \in Above[p] PROVE IsDir(q)'
  <2>1. q \in Place /\ q \notin Whole(g) /\ IsDir(q)
    <3>1. CASE p = g
      BY <1>2, <3>1
    <3>2. CASE p # g
      <4>1. p \notin Whole(g) /\ Exists(p)
        BY <1>4, <1>5, <3>2 DEF Exists
      <4>2. q \notin Whole(g)
        BY <1>1, <4>1, InsideAll
      <4> QED
        BY <4>1, <4>2, UnpackAssumption DEF TreeClosed
    <3> QED
      BY <3>1, <3>2
  <2> QED
    BY <1>3, <1>4, <2>1 DEF IsDir, Exists
<1> QED
  BY <1>1, <1>5 DEF TreeClosed

LEMMA ClosedStep == TypeOK /\ TreeClosed /\ [Next]_vars => TreeClosed'
<1> SUFFICES ASSUME TypeOK, TreeClosed, [Next]_vars PROVE TreeClosed'
  OBVIOUS
<1>1. CASE UNCHANGED tree /\ pc' # "walk"
  BY <1>1 DEF TreeClosed, IsDir, Exists
<1>2. CASE Restart
  <2>1. \A p \in Place : \A q \in Above[p] : q \in Path => p \in Path
    BY UnpackAssumption DEF Place
  <2> QED
    BY <1>2, <2>1, WithoutClosed DEF Restart
<1>3. CASE StartEntry
  BY <1>3, UnpackAssumption DEF StartEntry, NoWalk, TreeClosed, IsDir, Exists, Base
<1>4. ASSUME NEW l \in Place, Enter(l) PROVE TreeClosed'
  BY <1>4 DEF Enter, TypeOK, Walk, TreeClosed, IsDir, Exists
<1>5. ASSUME NEW l \in Place, MakeDir(l) PROVE TreeClosed'
  BY <1>5, MakeDirClosed
<1>6. ASSUME NEW l \in Place, Follow(l) PROVE TreeClosed'
  <2>1. walk'.at \in Base /\ UNCHANGED tree
    BY <1>6 DEF Follow, TypeOK, Walk, BaseOf, Base
  <2> QED
    BY <2>1 DEF TreeClosed, IsDir, Exists
<1>7. ASSUME NEW l \in Place, DeadEnd(l) PROVE TreeClosed'
  BY <1>1, <1>7 DEF DeadEnd, Done
<1>8. CASE Remove
  BY <1>8, WithoutClosed, InsideAll DEF Remove, Done
<1>9. CASE Clear
  <2>1. walk.goal \in Place \cup Base
    BY DEF TypeOK, Walk
  <2> QED
    BY <1>9, <2>1, WithoutClosed, InsideAll DEF Clear, Done
<1>10. CASE PutDir
  <2>1. ASSUME NEW q \in Place PROVE (Exists(q)' <=> Exists(q)) /\ (IsDir(q)' <=> IsDir(q))
    <3>1. CASE q = walk.goal
      <4>1. IsDir(q)
        BY <1>10, <3>1, UnpackAssumption DEF PutDir, TreeClosed
      <4>2. tree'[q] = New(q, "dir")
        BY <1>10, <3>1 DEF PutDir
      <4> QED
        BY <4>1, <4>2, NewTyped DEF IsDir, Exists, Kind
    <3>2. CASE q # walk.goal
      BY <1>10, <3>2 DEF PutDir, IsDir, Exists
    <3> QED
      BY <3>1, <3>2
  <2> QED
    BY <1>10, <2>1, UnpackAssumption DEF PutDir, Done, TreeClosed
<1>11. CASE Put
  BY <1>11, PutClosed
<1>12. CASE HardLink
  BY <1>12, WithoutClosed, InsideAll DEF HardLink, Done
<1>13. CASE UNCHANGED vars
  BY <1>13 DEF vars, TreeClosed, IsDir, Exists
<1> QED
  BY <1>1, <1>2, <1>3, <1>4, <1>5, <1>6, <1>7, <1>8, <1>9, <1>10, <1>11, <1>12, <1>13
  DEF Next, StartLayer, EndLayer, Fail

(* Of a walk that looks for its path without links, every place is in the rootfs. *)
LEMMA SpelledInside ==
    ASSUME TypeOK, AsSpelled, pc = "walk", walk.hops = 0
    PROVE  /\ walk.goal \in Path \cup {Root}
           /\ \A l \in Place : l \in Down(walk.goal) => l \in Path
BY UnpackAssumption DEF AsSpelled, TypeOK, Walk, Down, Place, Base

LEMMA SpelledStep == TypeOK /\ AsSpelled /\ [Next]_vars => AsSpelled'
<1> SUFFICES ASSUME TypeOK, AsSpelled, [Next]_vars PROVE AsSpelled'
  OBVIOUS
<1> USE DEF TypeOK, Walk
<1>1. CASE pc' # "walk"
  BY <1>1 DEF AsSpelled
<1>2. CASE StartEntry
  BY <1>2 DEF StartEntry, NoWalk, AsSpelled
<1>3. ASSUME NEW l \in Place, Enter(l) \/ MakeDir(l) PROVE AsSpelled'
  <2>1. /\ pc = "walk" /\ l \in Down(walk.goal)
        /\ walk' = [walk EXCEPT !.at = l] /\ UNCHANGED entry
    BY <1>3 DEF Enter, MakeDir, Looking
  <2> QED
    BY <2>1, SpelledInside DEF AsSpelled
<1>4. ASSUME NEW l \in Place, Follow(l) PROVE AsSpelled'
  BY <1>4 DEF Follow, AsSpelled
<1>5. CASE UNCHANGED vars
  BY <1>5 DEF vars, AsSpelled
<1> QED
  BY <1>1, <1>2, <1>3, <1>4, <1>5
  DEF Next, StartLayer, EndLayer, Fail, Restart, DeadEnd, Done, Remove, Clear, PutDir, Put,
      HardLink

LEMMA TreeAlways == Spec => [](TypeOK /\ TreeClosed /\ AsSpelled)
<1>1. Init => TypeOK /\ TreeClosed /\ AsSpelled
  <2> SUFFICES ASSUME Init PROVE TypeOK /\ TreeClosed /\ AsSpelled
    OBVIOUS
  <2>1. PICK out \in [Far -> {NoNode} \cup [kind : {"dir", "file"}, layer : {0}]] :
          /\ \A p \in Far : out[p] # NoNode =>
               \A q \in Above[p] : out[q] # NoNode /\ out[q].kind = "dir"
          /\ tree = [p \in Place |-> IF p \in Far THEN out[p] ELSE NoNode]
    BY DEF Init
  <2>2. [kind : {"dir", "file"}, layer : {0}] \subseteq Node
    BY UnpackAssumption DEF Node, Kind
  <2>3. tree \in [Place -> Node \cup {NoNode}]
    BY <2>1, <2>2
  <2>4. TypeOK
    BY <2>3, NoWalkTyped, UnpackAssumption DEF Init, TypeOK
  <2>5. \A p \in Place : Exists(p) => \A q \in Above[p] : IsDir(q)
    BY <2>1, UnpackAssumption DEF Exists, IsDir, Place
  <2> QED
    BY <2>4, <2>5 DEF Init, TreeClosed, AsSpelled
<1> QED
  BY <1>1, TypeStep, ClosedStep, SpelledStep, PTL DEF Spec

(* The types, also of a rootfs that is given up, and of walks wherever links lead. *)
THEOREM TypeCorrect == Spec => []TypeOK
BY TreeAlways, PTL

(* At every step, half way through an entry and where a layer fails, what is in the
   tree lies in directories of the tree, whatever links the layers have. *)
THEOREM TreeAlwaysClosed == Spec => []TreeClosed
BY TreeAlways, PTL

--------------------------------------------------------------------------------
(* In the midst of an entry the overlay sees the tree. *)
LEMMA ShownTree ==
    ASSUME TypeOK, pc = "walk", pc' # "failed", UNCHANGED layer
    PROVE  /\ layer > 0 /\ Depth = layer /\ Depth' = layer
           /\ Shown = [p \in Path |-> tree[p]] /\ Shown' = [p \in Path |-> tree'[p]]
           /\ \A p \in Path : /\ Overlaid!Own(p) <=> Own(p)
                              /\ Overlaid!IsDir(p) <=> IsDir(p)
BY DEF TypeOK, Shown, Depth, Overlaid!Own, Own, Overlaid!IsDir, IsDir, Exists

(* The two modules mean the same by what lies in a directory of the rootfs. *)
LEMMA InsideRootfs ==
    ASSUME NEW d \in Path \cup {Root}
    PROVE  Overlaid!Inside(d) = Inside(d) /\ Inside(d) \subseteq Path
<1>1. CASE d = Root
  BY <1>1 DEF Overlaid!Inside, Inside
<1>2. CASE d \in Path
  <2>1. d # Root /\ d # Outer /\ d \notin Far
    BY <1>2, UnpackAssumption DEF Place, Base
  <2>2. \A p \in Far : d \notin Above[p]
    BY <2>1, UnpackAssumption
  <2> QED
    BY <2>1, <2>2 DEF Overlaid!Inside, Inside, Place
<1> QED
  BY <1>1, <1>2

(* A whiteout of nothing that is of its own layer hides what it removes. *)
LEMMA WithoutHides ==
    ASSUME TypeOK, pc = "walk", pc' # "failed", UNCHANGED layer, NEW S \in SUBSET Path,
           \A p \in Place : \A q \in Above[p] : q \in S => p \in S,
           \A q \in S : ~Own(q),
           tree' = Without(S)
    PROVE  Overlaid!Hide(S)
<1>1. ASSUME NEW p \in S
      PROVE  ~Overlaid!Own(p) /\ ~(\E q \in Overlaid!Inside(p) : Overlaid!Own(q))
  <2>1. Inside(p) \subseteq S /\ Overlaid!Inside(p) = Inside(p)
    BY InsideRootfs, UnpackAssumption DEF Inside, Place, Base
  <2> QED
    BY <2>1, ShownTree
<1>2. \A p \in Path : tree'[p] = IF p \in S THEN NoNode ELSE tree[p]
  BY DEF Without, Place
<1> QED
  BY <1>1, <1>2, ShownTree DEF Overlaid!Hide

(* A node put where directories lead, and over nothing but what goes or stays as the
   overlay has it, is put over the layers below. *)
LEMMA NodePuts ==
    ASSUME TypeOK, pc = "walk", pc' # "failed", UNCHANGED layer, NEW g \in Path, NEW kind,
           \A q \in Above[g] : IsDir(q),
           \A q \in Path : tree'[q] =
               IF q = g THEN [kind |-> kind, layer |-> layer]
               ELSE IF q \in Inside(g) /\ ~(kind = "dir" /\ IsDir(g)) THEN NoNode
               ELSE tree[q]
    PROVE  Overlaid!Put(g, kind)
<1>1. Above[g] \subseteq Path /\ Overlaid!Inside(g) = Inside(g)
  BY InsideRootfs, UnpackAssumption
<1>2. \A q \in Path : Shown[q] = tree[q]
  BY ShownTree
<1> QED
  BY <1>1, <1>2, ShownTree DEF Overlaid!Put

(* Where no link is followed and no whiteout comes late, a step in the midst of an
   entry is one of the overlay, and the last one lays the entry at its path. *)
LEMMA EntrySteps ==
    ASSUME TypeOK, TreeClosed, AsSpelled, pc = "walk", walk.hops = 0, ~Late,
           (\E l \in Place : MakeDir(l)) \/ Remove \/ Clear \/ PutDir \/ Put
    PROVE  /\ Overlaid!OverlayNext
           /\ Remove \/ Clear \/ PutDir \/ Put => Laid
<1>1. walk.goal \in Path \cup {Root} /\ pc' # "failed" /\ UNCHANGED layer
  BY SpelledInside DEF MakeDir, Remove, Clear, PutDir, Put, Done
<1>0. walk.goal = walk.path /\ (entry # "opaque" => walk.path \in Path)
  BY DEF AsSpelled
<1>2. ASSUME NEW l \in Place, MakeDir(l)
      PROVE  Overlaid!OverlayNext /\ ~(Remove \/ Clear \/ PutDir \/ Put)
  <2>1. /\ l \in Path /\ Above[l] = Down(walk.at) /\ ~Exists(l)
        /\ tree' = [tree EXCEPT ![l] = New(l, "dir")]
    BY <1>2, SpelledInside DEF MakeDir, Looking
  <2>2. \A q \in Path : q \in Inside(l) => tree[q] = NoNode
    BY <2>1, UnpackAssumption DEF Inside, TreeClosed, Exists, IsDir, Base, Place
  <2>3. New(l, "dir") = [kind |-> "dir", layer |-> layer] /\ ~IsDir(l)
    BY <2>1 DEF New, IsDir
  <2>4. \A q \in Path : tree'[q] = IF q = l THEN New(l, "dir") ELSE tree[q]
    BY <2>1 DEF TypeOK, Place
  <2>5. \A q \in Above[l] : IsDir(q)
    BY <2>1, WayOfDirs
  <2>6. Overlaid!Put(l, "dir")
    BY <1>1, <2>1, <2>2, <2>3, <2>4, <2>5, NodePuts
  <2>7. Overlaid!OverlayNext
    BY <2>1, <2>6 DEF Overlaid!OverlayNext, Overlaid!Kind
  <2>8. ~(Remove \/ Clear \/ PutDir \/ Put)
    BY <1>2 DEF MakeDir, Remove, Clear, PutDir, Put, Done
  <2> QED
    BY <2>7, <2>8
<1>3. CASE Remove
  <2> DEFINE g == walk.goal
  <2>1. g \in Path
    BY <1>1, <1>3, UnpackAssumption DEF Remove, Place, Base
  <2>2. Whole(g) \subseteq Path /\ Whole(g) = {g} \cup Overlaid!Inside(g)
    BY <2>1, InsideRootfs DEF Whole
  <2>3. \A q \in Whole(g) : ~Own(q)
    BY <1>3 DEF Late, Remove, Marker
  <2>4. \A p \in Place : \A q \in Above[p] : q \in Whole(g) => p \in Whole(g)
    BY <2>1, InsideAll DEF Place
  <2>5. tree' = Without(Whole(g))
    BY <1>3 DEF Remove
  <2>6. g = walk.path /\ entry = "white"
    BY <1>3, <1>0 DEF Remove
  <2> HIDE DEF g
  <2>7. Overlaid!Hide({g} \cup Overlaid!Inside(g))
    BY <1>1, <2>2, <2>3, <2>4, <2>5, WithoutHides
  <2>8. Laid
    BY <2>6, <2>7 DEF Laid
  <2> QED
    BY <2>1, <2>7, <2>8 DEF Overlaid!OverlayNext
<1>4. CASE Clear
  <2> DEFINE g == walk.goal
  <2>1. Inside(g) \subseteq Path /\ Inside(g) = Overlaid!Inside(g)
    BY <1>1, InsideRootfs
  <2>2. \A q \in Inside(g) : ~Own(q)
    BY <1>4 DEF Late, Clear, Marker
  <2>3. \A p \in Place : \A q \in Above[p] : q \in Inside(g) => p \in Inside(g)
    BY <1>1, InsideAll DEF Place, Base
  <2>4. tree' = Without(Inside(g)) /\ g \in Path \cup {Root}
    BY <1>1, <1>4 DEF Clear
  <2>5. g = walk.path /\ entry = "opaque"
    BY <1>4, <1>0 DEF Clear
  <2> HIDE DEF g
  <2>6. Overlaid!Hide(Overlaid!Inside(g))
    BY <1>1, <2>1, <2>2, <2>3, <2>4, WithoutHides
  <2>7. Laid
    BY <2>5, <2>6 DEF Laid
  <2> QED
    BY <2>4, <2>6, <2>7 DEF Overlaid!OverlayNext
<1>5. CASE PutDir
  <2> DEFINE g == walk.goal
  <2>1. /\ walk.at = g /\ g = walk.path /\ entry = "dir" /\ g \in Path
        /\ tree' = [p \in Place |-> IF p = g THEN New(p, "dir") ELSE tree[p]]
    BY <1>5, <1>0 DEF PutDir
  <2> HIDE DEF g
  <2>2. IsDir(g) /\ (\A q \in Above[g] : IsDir(q))
    BY <1>5, <2>1, UnpackAssumption DEF PutDir, TreeClosed, IsDir, Place
  <2>3. \A q \in Path :
          tree'[q] = IF q = g THEN [kind |-> "dir", layer |-> layer] ELSE tree[q]
    BY <2>1 DEF New, Place
  <2>4. Overlaid!Put(g, "dir")
    BY <1>1, <2>1, <2>2, <2>3, NodePuts
  <2>5. Laid
    BY <2>1, <2>4 DEF Laid
  <2> QED
    BY <2>1, <2>4, <2>5 DEF Overlaid!OverlayNext, Overlaid!Kind
<1>6. CASE Put
  <2> DEFINE g == walk.goal
  <2>1. /\ g \in Path /\ Above[g] = Down(walk.at) /\ entry \in {"file"} \cup Target
        /\ tree' = [Without(Whole(g)) EXCEPT ![g] = New(g, entry)]
    BY <1>1, <1>6, UnpackAssumption DEF Put, Place, Base
  <2>2. (\A q \in Above[g] : IsDir(q)) /\ g = walk.path
    BY <2>1, <1>0, WayOfDirs DEF Place
  <2> HIDE DEF g
  <2>3. entry # "dir" /\ entry \in Kind /\ entry \notin Marker
    BY <2>1, UnpackAssumption DEF Kind, Marker
  <2>4. \A q \in Path : tree'[q] = IF q = g THEN [kind |-> entry, layer |-> layer]
                                   ELSE IF q \in Inside(g) THEN NoNode ELSE tree[q]
    BY <2>1 DEF Without, Whole, New, Place
  <2>5. Overlaid!Put(g, entry)
    BY <1>1, <2>1, <2>2, <2>3, <2>4, NodePuts
  <2>6. Laid
    BY <2>2, <2>3, <2>5 DEF Laid, Marker
  <2> QED
    BY <2>1, <2>3, <2>5, <2>6 DEF Overlaid!OverlayNext, Overlaid!Kind, Kind
<1> QED
  BY <1>2, <1>3, <1>4, <1>5, <1>6

LEMMA OverlayStep ==
    ASSUME TypeOK, TreeClosed, AsSpelled, [Next]_vars
    PROVE  [Late \/ Detour \/ Overlaid!OverlayNext]_<<Shown, Depth>>
<1>1. CASE StartLayer
  <2>1. CASE pc' = "entries"
    BY <1>1, <2>1 DEF StartLayer, Shown, Depth, Overlaid!OverlayNext, Overlaid!NextLayer
  <2>2. CASE pc' = "failed"
    BY <1>1, <2>2 DEF Shown, Depth, Overlaid!OverlayNext, Overlaid!Discard, Overlaid!Empty
  <2> QED
    BY <1>1, <2>1, <2>2 DEF StartLayer
<1>2. CASE pc' = "failed"
  BY <1>2 DEF Shown, Depth, Overlaid!OverlayNext, Overlaid!Discard, Overlaid!Empty
<1>3. CASE Restart
  BY <1>3 DEF Restart, Without, Place, Shown, Depth, Overlaid!OverlayNext, Overlaid!Discard,
              Overlaid!Empty
<1>4. CASE pc # "failed" /\ pc' # "failed" /\ UNCHANGED <<tree, layer>>
  BY <1>4 DEF Shown, Depth
<1>5. CASE (\E l \in Place : MakeDir(l)) \/ Remove \/ Clear \/ PutDir \/ Put
  <2>1. pc = "walk" /\ walk.hops \in Nat
    BY <1>5, UnpackAssumption
    DEF MakeDir, Looking, Remove, Clear, PutDir, Put, TypeOK, Walk
  <2>2. CASE Late \/ Detour
    BY <2>2
  <2>3. CASE ~Late /\ walk.hops = 0
    BY <1>5, <2>1, <2>3, EntrySteps
  <2> QED
    BY <2>1, <2>2, <2>3 DEF Detour
<1>6. CASE UNCHANGED vars
  BY <1>6 DEF vars, Shown, Depth
<1> QED
  BY <1>1, <1>2, <1>3, <1>4, <1>5, <1>6
  DEF Next, EndLayer, Fail, StartEntry, Enter, Follow, DeadEnd, HardLink, Looking, Done

LEMMA LaidStep ==
    ASSUME TypeOK, TreeClosed, AsSpelled
    PROVE  Remove \/ Clear \/ PutDir \/ Put => Late \/ Detour \/ Laid
<1> SUFFICES ASSUME Remove \/ Clear \/ PutDir \/ Put, ~Late, ~Detour PROVE Laid
  OBVIOUS
<1>1. pc = "walk" /\ walk.hops \in Nat
  BY UnpackAssumption DEF Remove, Clear, PutDir, Put, TypeOK, Walk
<1>2. walk.hops = 0
  BY <1>1 DEF Detour
<1> QED
  BY <1>1, <1>2, EntrySteps

(* For all trees, links and layers: but for walks through links and whiteouts that
   come after what their layer put in place, every step is one of the overlay, and
   the one that ends an entry lays it at the path the entry spells. *)
THEOREM UnpackImplementsOverlay == Spec => OverlaySteps
<1>1. Init => Overlaid!OverlayInit
  BY UnpackAssumption DEF Init, Place, Overlaid!OverlayInit, Overlaid!Empty, Shown, Depth
<1>2. TypeOK /\ TreeClosed /\ AsSpelled /\ [Next]_vars
        => [Late \/ Detour \/ Overlaid!OverlayNext]_<<Shown, Depth>>
  BY OverlayStep
<1>3. TypeOK /\ TreeClosed /\ AsSpelled
        => [Remove \/ Clear \/ PutDir \/ Put => Late \/ Detour \/ Laid]_vars
  BY LaidStep
<1> QED
  BY <1>1, <1>2, <1>3, TreeAlways, PTL DEF Spec, OverlaySteps

(* Whatever the layers remove or replace, links included: outside the rootfs nothing
   changes before a walk has followed a link. *)
THEOREM OutsideIsKept == Spec => OutsideKept
<1>1. ASSUME TypeOK, AsSpelled, [Next]_vars
      PROVE  [Detour \/ \A p \in Far : tree'[p] = tree[p]]_vars
  <2> SUFFICES ASSUME ~Detour, NEW p \in Far PROVE tree'[p] = tree[p]
    OBVIOUS
  <2>1. p \in Place /\ p \notin Path /\ p \notin Base
    BY UnpackAssumption DEF Place
  <2>2. pc = "walk" => walk.hops = 0
    BY <1>1, UnpackAssumption DEF Detour, TypeOK, Walk
  <2>3. CASE Restart
    BY <2>1, <2>3 DEF Restart, Without
  <2>4. ASSUME NEW l \in Place, MakeDir(l) PROVE tree'[p] = tree[p]
    <3>1. l \in Path
      BY <1>1, <2>2, <2>4, SpelledInside DEF MakeDir, Looking
    <3> QED
      BY <1>1, <2>1, <2>4, <3>1 DEF MakeDir, TypeOK
  <2>5. CASE Remove \/ Clear \/ PutDir \/ Put \/ HardLink
    <3>1. pc = "walk"
      BY <2>5 DEF Remove, Clear, PutDir, Put, HardLink
    <3>2. walk.goal \in Path \cup {Root}
      BY <1>1, <2>2, <3>1, SpelledInside
    <3>3. p # walk.goal /\ p \notin Inside(walk.goal)
      BY <2>1, <3>2, InsideRootfs DEF Base
    <3> QED
      BY <2>1, <2>5, <3>3 DEF Remove, Clear, PutDir, Put, HardLink, Without, Whole
  <2>6. CASE UNCHANGED tree
    BY <2>6
  <2> QED
    BY <1>1, <2>3, <2>4, <2>5, <2>6
    DEF Next, StartLayer, EndLayer, Fail, StartEntry, Enter, Follow, DeadEnd, vars
<1> QED
  BY <1>1, TreeAlways, PTL DEF Spec, OutsideKept
================================================================================
