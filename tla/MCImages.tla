-------------------------------- MODULE MCImages --------------------------------
(* Instances of Images for TLC: two references, and images of no, one and two
   layers, with a config and layers in common and a layer that is no gzip stream. *)
EXTENDS Images, TLC

CONSTANTS p1, p2, r1, r2, o1, o2, m1, m2, m3, c1, l1, l2, l3

MCBlobs == m1 :> <<c1, l1, l2>> @@ m2 :> <<c1, l1>> @@ m3 :> <<c1, l3>>

(* No image has two references; the tag r1 moves between two images. *)
MCMoving == r1 :> {m1, m2} @@ r2 :> {m3}

(* Both references are tags of one image. *)
MCShared == r1 :> {m1} @@ r2 :> {m1}

MCOneImage == m1 :> <<c1, l1, l2>>

(* One reference whose tag moves, and images whose entries differ in length. *)
MCRaceBlobs == m1 :> <<c1, l1>> @@ m2 :> <<c1>>
MCRace == r1 :> {m1, m2}

(* Pulled both ways, with and without --no-unpack, or unpacked only. *)
MCBothWays == [r \in Ref |-> BOOLEAN]
MCUnpacked == [r \in Ref |-> {TRUE}]
MCMixed    == r1 :> {TRUE} @@ r2 :> BOOLEAN
================================================================================
