------------------------------- MODULE Reference -------------------------------
(***************************************************************************)
(* What a reference means (reference.rs), what name the catalog files an   *)
(* image under (catalog.rs, canonicalize, save, find, remove) and what     *)
(* reference `container run` passes on (container-cli.nix).                *)
(* A string is a sequence of tokens: the separators, the words the code    *)
(* knows, and other words.  Words never abut, so that two strings are equal *)
(* exactly when their tokens are, and no other word begins with localhost  *)
(* (base_url looks at no more than that of a registry).                    *)
(***************************************************************************)
EXTENDS Naturals, Sequences, FiniteSets, Strings

CONSTANTS
    DotWord,     \* other words with a dot in them, such as ghcr.io
    PlainWord,   \* other words without one
    Hex,         \* the words that are 64 hexadecimal digits
    Hex128,      \* the words that are 128 hexadecimal digits
    Inputs,      \* the references that are typed
    MaxEntries,  \* bound on the entries of the catalog
    None         \* Option::None

Separator == {"/", ":", "@"}
Dotted    == {"docker.io", "registry-1.docker.io"} \cup DotWord
Token     == Separator \cup Dotted \cup PlainWord \cup Hex \cup Hex128
               \cup {"localhost", "library", "latest", "sha256", "sha512"}
String    == Seq(Token)

ASSUME ReferenceAssumption ==
    /\ (DotWord \cup PlainWord \cup Hex \cup Hex128) \cap Separator = {}
    /\ {"localhost", "library", "latest", "sha256", "sha512"} \cap Dotted = {}
    /\ Inputs \subseteq String
    /\ MaxEntries \in Nat
    /\ None \notin String

VARIABLE catalog  \* the entries under images/, one file per canonical name

--------------------------------------------------------------------------------
(* Reference::parse, part by part.  The digest goes first. *)
NameAndTag(s) == IF Contains(s, "@") THEN Before(s, First(s, "@")) ELSE s
Pinned(s)     == Contains(s, "@")
DigestOf(s)   == IF Pinned(s) THEN After(s, First(s, "@")) ELSE None

(* Mutant: only a name with a port, or localhost, is a registry. *)
IsHostWithPort(w) == w = <<"localhost">> \/ Contains(w, ":")

(* The first component is a registry if it has a dot or a port or is localhost. *)
IsHost(w) ==
    \/ w = <<"localhost">>
    \/ Contains(w, ":")
    \/ \E i \in DOMAIN w : w[i] \in Dotted

Hosted(n)      == Contains(n, "/") /\ IsHost(Before(n, First(n, "/")))
RegistryRaw(n) == IF Hosted(n) THEN Before(n, First(n, "/")) ELSE <<"docker.io">>
Remainder(n)   == IF Hosted(n) THEN After(n, First(n, "/")) ELSE n

(* The tag follows the last colon, unless that is part of the path. *)
Tagged(m) == Contains(m, ":") /\ ~Contains(After(m, Last(m, ":")), "/")
Path(m)   == IF Tagged(m) THEN Before(m, Last(m, ":")) ELSE m

OnHub(n) == RegistryRaw(n) = <<"docker.io">>

Registry(n)   == IF OnHub(n) THEN <<"registry-1.docker.io">> ELSE RegistryRaw(n)
Repository(n) == LET p == Path(Remainder(n))
                 IN  IF OnHub(n) /\ ~Contains(p, "/") THEN <<"library", "/">> \o p ELSE p

(* The default tag is for references that have neither a tag nor a digest. *)
TagOf(s) ==
    LET m == Remainder(NameAndTag(s))
    IN  IF Tagged(m) THEN After(m, Last(m, ":"))
        ELSE IF Pinned(s) THEN None ELSE <<"latest">>

Parses(s) == s # <<>> /\ Repository(NameAndTag(s)) # <<>>

ManifestRef(s) == IF Pinned(s) THEN DigestOf(s) ELSE TagOf(s)

Scheme(r) == IF r[1] = "localhost" THEN "http" ELSE "https"

(* Where get_manifest looks for the image: base_url and manifest_ref. *)
ManifestUrl(s) ==
    LET n == NameAndTag(s)
    IN  [scheme |-> Scheme(Registry(n)), registry |-> Registry(n),
         repository |-> Repository(n), ref |-> ManifestRef(s)]

(* Digest::parse: an algorithm that is known, and hex digits of its length. *)
DigestParses(d) ==
    \/ \E h \in Hex : d = <<"sha256", ":", h>>
    \/ \E h \in Hex128 : d = <<"sha512", ":", h>>

(* Mutant: a tag goes before a digest. *)
CanonicalByTag(s) ==
    Registry(NameAndTag(s)) \o <<"/">> \o Repository(NameAndTag(s))
      \o IF TagOf(s) # None THEN <<":">> \o TagOf(s) ELSE <<"@">> \o DigestOf(s)

(* Mutant: the name is the one typed. *)
CanonicalAsTyped(s) == s

(* canonicalize: the name with every default filled in. *)
Canonical(s) ==
    Registry(NameAndTag(s)) \o <<"/">> \o Repository(NameAndTag(s))
      \o IF Pinned(s) THEN <<"@">> \o DigestOf(s) ELSE <<":">> \o TagOf(s)

(* Mutant: localhost is a name like any other. *)
NormalizeHub(s) ==
    IF Contains(s, "/")
      THEN IF \E i \in 1..(First(s, "/") - 1) : s[i] \in Dotted \cup {":"} THEN s
           ELSE <<"docker.io", "/">> \o s
      ELSE <<"docker.io", "/", "library", "/">> \o s

(* container run: the shorthand heuristic of the shell, on the whole string. *)
Normalize(s) ==
    IF Contains(s, "/")
      THEN IF IsHost(Before(s, First(s, "/"))) THEN s ELSE <<"docker.io", "/">> \o s
      ELSE <<"docker.io", "/", "library", "/">> \o s

--------------------------------------------------------------------------------
ImageEntry == [reference : String, canonical : String]

TypeOK ==
    /\ catalog \subseteq ImageEntry
    /\ \A e, f \in catalog : e.canonical = f.canonical => e = f

Init == catalog = {}

(* find: the entry whose file is named after the canonical form of s. *)
Found(s) == {e \in catalog : Parses(s) /\ e.canonical = Canonical(s)}

(* A pull of s can come to its save: s parses, and the digest it is pinned to. *)
Pullable(s) == Parses(s) /\ (Pinned(s) => DigestParses(DigestOf(s)))

(* Mutant: the file is named after the reference that was typed. *)
SaveAsTyped(s) ==
    catalog' = {e \in catalog : e.reference # s}
                 \cup {[reference |-> s, canonical |-> Canonical(s)]}

(* save: the file of that canonical name is written or replaced. *)
Save(s) ==
    catalog' = {e \in catalog : e.canonical # Canonical(s)}
                 \cup {[reference |-> s, canonical |-> Canonical(s)]}

Pull(s) ==
    /\ Pullable(s)
    /\ Found(s) # {} \/ Cardinality(catalog) < MaxEntries
    /\ Save(s)

(* remove: the entry of s, if there is one. *)
Rmi(s) ==
    /\ Found(s) # {}
    /\ catalog' = catalog \ Found(s)

Next == \E s \in Inputs : Pull(s) \/ Rmi(s)

Spec == Init /\ [][Next]_catalog

--------------------------------------------------------------------------------
(* However an image is named to inspect or rmi, the entry they find is one of
   an image pulled from the place this name stands for: two references share a
   name only if they ask the registry for the same thing. *)
FindsItsImage ==
    \A s \in Inputs : \A e \in Found(s) : ManifestUrl(s) = ManifestUrl(e.reference)

(* What is asked for at one place is filed once, however it was spelled
   (catalog.rs, canonicalize: the spellings "collide"). *)
OneEntryPerImage ==
    \A e, f \in catalog : ManifestUrl(e.reference) = ManifestUrl(f.reference) => e = f

(* The name that images prints can be given back to inspect and rmi and finds
   its entry; only a pinned reference to a repository whose own name ends in a
   colon and a word, which registries do not allow, is printed as something else. *)
ListedNameFinds ==
    \A e \in catalog :
        \/ Pinned(e.reference) /\ Tagged(Repository(NameAndTag(e.reference)))
        \/ Found(e.canonical) = {e}

(* container run names the image that container pull of the same reference has
   pulled, and with its registry spelled out (container-cli.nix, "needs a
   fully-qualified ref"). *)
RunsWhatWasPulled ==
    \A s \in Inputs : \A e \in Found(s) :
        /\ Parses(Normalize(s))
        /\ ManifestUrl(Normalize(s)) = ManifestUrl(e.reference)
        /\ Pullable(s) => Hosted(NameAndTag(Normalize(s)))
================================================================================
