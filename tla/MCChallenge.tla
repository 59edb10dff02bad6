------------------------------ MODULE MCChallenge ------------------------------
(* Challenges of up to two parameters with values of up to two characters, the
   one of Docker Hub, and texts of up to four bytes. *)
EXTENDS Challenge

McParam(words) ==
    {[gap |-> g, name |-> k, form |-> "quoted", value |-> v] :
        g \in 0..1, k \in {"realm", "scope", "error"}, v \in words}
      \cup {[gap |-> 0, name |-> k, form |-> "token", value |-> <<"w">>] :
              k \in {"realm", "service"}}

McValues == {<<>>} \cup [1..2 -> {"w", ",", "=", " "}]

McHub == [scheme |-> "Bearer", params |->
    <<[gap |-> 0, name |-> "realm", form |-> "quoted", value |-> <<"w">>],
      [gap |-> 0, name |-> "service", form |-> "quoted", value |-> <<"v">>],
      [gap |-> 0, name |-> "scope", form |-> "quoted", value |-> <<"w", ",", "v">>]>>]

McChallenges ==
    {McHub, [scheme |-> "Other", params |-> <<>>], [scheme |-> "bearer", params |-> <<>>]}
      \cup {[scheme |-> s, params |-> <<p>>] : s \in {"Bearer", "bearer"}, p \in McParam(McValues)}
      \cup {[scheme |-> "Bearer", params |-> <<p, q>>] :
              p \in McParam({<<>>, <<"w", ",">>, <<",", "v">>}),
              q \in McParam({<<"v">>, <<"=", ",">>})}

McLogins == {<<255>>, <<0, 255>>, <<117, 58, 112>>, <<117, 58, 1, 254>>}
================================================================================
