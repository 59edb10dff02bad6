-------------------------------- MODULE Strings --------------------------------
(***************************************************************************)
(* What the code takes from str of Rust: strings are sequences of tokens   *)
(* or characters.                                                          *)
(***************************************************************************)
EXTENDS Naturals, Sequences, FiniteSetsExt

Contains(s, c) == \E i \in DOMAIN s : s[i] = c

(* split_once and rsplit_once cut at the first and at the last c. *)
First(s, c)  == Min({i \in DOMAIN s : s[i] = c})
Last(s, c)   == Max({i \in DOMAIN s : s[i] = c})
Before(s, i) == SubSeq(s, 1, i - 1)
After(s, i)  == SubSeq(s, i + 1, Len(s))

(* trim (of spaces) and trim_matches: no c at either end. *)
Trim(s, c) ==
    LET keep == {i \in DOMAIN s : s[i] # c}
    IN  IF keep = {} THEN <<>> ELSE SubSeq(s, Min(keep), Max(keep))
================================================================================
