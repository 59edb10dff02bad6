------------------------------ MODULE MCReference ------------------------------
(* All strings over a few tokens, and what is put together from the parts of a
   reference: registry, path, tag, digest. *)
EXTENDS Reference

McHosts == {<<>>, <<"docker.io", "/">>, <<"ghcr.io", "/">>, <<"localhost", ":", "app", "/">>}
McPaths == {<<"app">>, <<"library", "/", "app">>, <<"localhost", "/", "app">>,
            <<"app", ":", "app">>}
McTags  == {<<>>, <<":", "latest">>}
McPins  == {<<>>, <<"@", "sha256", ":", "hex">>}

McInputs ==
    {h \o p \o t \o d : h \in McHosts, p \in McPaths, t \in McTags, d \in McPins}
      \cup UNION {[1..n -> {"/", ":", "@", "app"}] : n \in 0..2}
      \cup {<<"registry-1.docker.io", "/", "library", "/", "app">>, <<"docker.io", "/">>}
================================================================================
