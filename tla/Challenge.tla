------------------------------- MODULE Challenge -------------------------------
(***************************************************************************)
(* How obtain_token of registry.rs reads the challenge of a registry, a    *)
(* character at a time, and what it then asks of the token endpoint.  A    *)
(* challenge is well formed: parameters name=value with commas between     *)
(* them, a value quoted or not, a space after a comma or not.              *)
(***************************************************************************)
EXTENDS Naturals, Sequences, Strings

CONSTANTS
    Word,        \* what values are spelled with, apart from "," "=" and spaces
    OtherName,   \* the names of parameters the code does not look for
    Challenges,  \* the challenges a registry sends
    Logins,      \* the texts user:password, as bytes
    Implied,     \* the scope the code asks for when it is not told one
    None         \* Option::None

Known  == {"realm", "service", "scope"}
Scheme == {"Bearer", "bearer", "Other"}
Mark   == {"quote", ",", "=", " "}   \* "quote" is the double quote
Text   == Seq(Word \cup (Mark \ {"quote"}))
Char   == Word \cup Mark \cup Known \cup OtherName
Byte   == 0..255

(* A value has no quotes inside, and without quotes around it nothing but words. *)
Param ==
    {p \in [gap : 0..1, name : Known \cup OtherName, form : {"token", "quoted"},
            value : Text] :
        p.form = "token" => p.value \in Seq(Word)}

ASSUME ChallengeAssumption ==
    /\ (Word \cup Known \cup OtherName) \cap Mark = {}
    /\ Challenges \subseteq [scheme : Scheme, params : Seq(Param)]
    /\ Logins \subseteq Seq(Byte) \ {<<>>}
    /\ None \notin Text \cup {Implied} \cup Seq(Byte)

VARIABLES
    challenge,  \* the header WWW-Authenticate
    login,      \* username and password, or None
    phase,      \* "split", "read", "asked" or "failed"
    at, off,    \* the parameter and the place in it of the next character
    in_quotes, cur, out,  \* of split_challenge_params
    n,          \* the part that is read next
    params,     \* BearerParams
    request     \* what is asked of the token endpoint

vars == <<challenge, login, phase, at, off, in_quotes, cur, out, n, params, request>>
scanner == <<at, off, in_quotes, cur, out>>

--------------------------------------------------------------------------------
(* The characters of a parameter; names are one character here. *)
Spelled(p) ==
    (IF p.gap = 1 THEN <<" ", p.name, "=">> ELSE <<p.name, "=">>)
      \o IF p.form = "quoted" THEN <<"quote">> \o p.value \o <<"quote">> ELSE p.value

Given    == challenge.params
More     == at <= Len(Given) /\ (off <= Len(Spelled(Given[at])) \/ at < Len(Given))
NextChar == IF off <= Len(Spelled(Given[at])) THEN Spelled(Given[at])[off] ELSE ","

Advance ==
    IF off <= Len(Spelled(Given[at])) THEN off' = off + 1 /\ at' = at
    ELSE off' = 1 /\ at' = at + 1

(* parse_bearer_challenge: only the scheme Bearer, in two spellings. *)
Init ==
    /\ challenge \in Challenges
    /\ login \in Logins \cup {None}
    /\ phase = IF challenge.scheme = "Other" THEN "failed" ELSE "split"
    /\ at = 1 /\ off = 1 /\ in_quotes = FALSE /\ cur = <<>> /\ out = <<>>
    /\ n = 1
    /\ params = [k \in Known |-> None]
    /\ request = None

Quote ==
    /\ phase = "split" /\ More /\ NextChar = "quote"
    /\ in_quotes' = ~in_quotes
    /\ cur' = Append(cur, "quote")
    /\ Advance
    /\ UNCHANGED <<challenge, login, phase, out, n, params, request>>

(* Mutant: every comma ends a parameter. *)
SeparatorAnywhere == phase = "split" /\ More /\ NextChar = ","

Separator == phase = "split" /\ More /\ NextChar = "," /\ ~in_quotes

EndParam ==
    /\ Separator
    /\ out' = Append(out, cur)
    /\ cur' = <<>>
    /\ Advance
    /\ UNCHANGED <<challenge, login, phase, in_quotes, n, params, request>>

Keep ==
    /\ phase = "split" /\ More /\ NextChar # "quote" /\ ~Separator
    /\ cur' = Append(cur, NextChar)
    /\ Advance
    /\ UNCHANGED <<challenge, login, phase, in_quotes, out, n, params, request>>

EndText ==
    /\ phase = "split" /\ ~More
    /\ out' = IF cur = <<>> THEN out ELSE Append(out, cur)
    /\ phase' = "read"
    /\ UNCHANGED <<challenge, login, at, off, in_quotes, cur, n, params, request>>

(* Mutant: the quotes stay. *)
ValueQuoted(part) == Trim(After(part, First(part, "=")), " ")

Key(part)   == Trim(Before(part, First(part, "=")), " ")
Value(part) == Trim(Trim(After(part, First(part, "=")), " "), "quote")

(* The loop over the parts; the last one of a name counts. *)
Read ==
    /\ phase = "read" /\ n <= Len(out)
    /\ params' = [k \in Known |-> IF Contains(out[n], "=") /\ Key(out[n]) = <<k>>
                                  THEN Value(out[n]) ELSE params[k]]
    /\ n' = n + 1
    /\ UNCHANGED <<challenge, login, phase, scanner, request>>

(* Three bytes as one number, with zeros for those that are missing. *)
Group(b, k) ==
    LET byte(i) == IF 3 * k + i <= Len(b) THEN b[3 * k + i] ELSE 0
    IN  65536 * byte(1) + 256 * byte(2) + byte(3)

(* Mutant: only the last digit gives way to padding. *)
Base64Short(b) ==
    [j \in 1..(4 * ((Len(b) + 2) \div 3)) |->
        LET k == (j - 1) \div 4  i == (j - 1) % 4
        IN  IF 3 * k + i > Len(b) /\ i = 3 THEN 64 ELSE (Group(b, k) \div 64^(3 - i)) % 64]

(* base64_encode: the digits of each group, 64 for the padding. *)
Base64(b) ==
    [j \in 1..(4 * ((Len(b) + 2) \div 3)) |->
        LET k == (j - 1) \div 4  i == (j - 1) % 4
        IN  IF 3 * k + i > Len(b) THEN 64 ELSE (Group(b, k) \div 64^(3 - i)) % 64]

Ask ==
    /\ phase = "read" /\ n > Len(out)
    /\ IF params["realm"] = None
         THEN phase' = "failed" /\ UNCHANGED request
         ELSE /\ phase' = "asked"
              /\ request' = [realm   |-> params["realm"],
                             service |-> params["service"],
                             scope   |-> IF params["scope"] = None THEN Implied
                                         ELSE params["scope"],
                             basic   |-> IF login = None THEN None ELSE Base64(login)]
    /\ UNCHANGED <<challenge, login, scanner, n, params>>

Next == Quote \/ EndParam \/ Keep \/ EndText \/ Read \/ Ask

Spec == Init /\ [][Next]_vars

--------------------------------------------------------------------------------
TypeOK ==
    /\ challenge \in Challenges
    /\ login \in Logins \cup {None}
    /\ phase \in {"split", "read", "asked", "failed"}
    /\ at \in Nat \ {0} /\ off \in Nat \ {0} /\ n \in Nat \ {0}
    /\ in_quotes \in BOOLEAN
    /\ cur \in Seq(Char)
    /\ out \in Seq(Seq(Char))
    /\ params \in [Known -> Text \cup {None}]

(* The value of the last parameter called k, None without one. *)
LastGiven(k) ==
    LET all == {i \in DOMAIN Given : Given[i].name = k}
    IN  IF all = {} THEN None ELSE Given[Max(all)].value

(* The token endpoint is asked at the realm, for the service and the scope of
   the challenge, whatever commas, spaces and equal signs are in their values
   (registry.rs, split_challenge_params: "scope values may contain commas"), for
   the implied scope only if there is none, and never without a realm. *)
AsksAsChallenged ==
    /\ phase = "asked" =>
         /\ request.realm = LastGiven("realm") /\ request.realm # None
         /\ request.service = LastGiven("service")
         /\ request.scope = IF LastGiven("scope") = None THEN Implied ELSE LastGiven("scope")
    /\ phase = "failed" => challenge.scheme = "Other" \/ LastGiven("realm") = None

(* The m-th bit, from 0 and from the front, of numbers of so many bits each. *)
Bit(s, bits, m) == (s[(m \div bits) + 1] \div 2^(bits - 1 - (m % bits))) % 2

(* What stands for user and password is base64: whole groups of four, digits
   that hold the bits of the text in their order, zeros up to the end of the
   last one, and padding for the rest (registry.rs, base64_encode). *)
LoginIsBase64 ==
    phase = "asked" =>
        IF login = None THEN request.basic = None
        ELSE \E count \in 0..Len(request.basic) :
                /\ Len(request.basic) % 4 = 0 /\ Len(request.basic) < count + 4
                /\ \A j \in DOMAIN request.basic :
                     IF j <= count THEN request.basic[j] \in 0..63 ELSE request.basic[j] = 64
                /\ 6 * (count - 1) < 8 * Len(login) /\ 8 * Len(login) <= 6 * count
                /\ \A m \in 0..(6 * count - 1) :
                     Bit(request.basic, 6, m) =
                       IF m < 8 * Len(login) THEN Bit(login, 8, m) ELSE 0
================================================================================
