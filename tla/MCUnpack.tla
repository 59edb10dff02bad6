-------------------------------- MODULE MCUnpack --------------------------------
(* An instance of Unpack for TLC: in the rootfs a directory with a file and with a
   directory of its own, and another place with one below; outside one place.  Two
   places share a name if they are grafted onto one another. *)
EXTENDS Unpack, Sequences, TLC

CONSTANTS a, ab, abc, e, ec, f

MCAbove == a :> {} @@ ab :> {a} @@ abc :> {a, ab} @@ e :> {} @@ ec :> {e} @@ f :> {}

(* The places by their names from their base. *)
MCNames ==
    a :> <<"a">> @@ ab :> <<"a", "b">> @@ abc :> <<"a", "b", "c">> @@ e :> <<"e">>
      @@ ec :> <<"e", "c">> @@ f :> <<"b">> @@ Root :> <<>> @@ Outer :> <<>>

MCGraft(p, q, t) ==
    LET rest  == SubSeq(MCNames[q], Len(MCNames[p]) + 1, Len(MCNames[q]))
        found == {x \in Place \cup Base :
                    BaseOf(x) = BaseOf(t) /\ MCNames[x] = MCNames[t] \o rest}
    IN  IF (q # p /\ p \notin Above[q]) \/ found = {} THEN NoPlace ELSE CHOOSE x \in found : TRUE

MCGrafted == [t \in Target |-> [p \in Place |-> [q \in Place |-> MCGraft(p, q, t)]]]
================================================================================
