-------------------------------- MODULE BlobCas --------------------------------
(***************************************************************************)
(* What the content-addressable blob store does for the commands that use  *)
(* it, whether or not their downloads of one blob overlap.  A blob has its *)
(* name from the first download that ends, and keeps it; its file holds    *)
(* the verified bytes unless downloads raced for the one temporary file    *)
(* (store.rs lines 52 to 70).  A download that a rival disturbed may put a *)
(* damaged file under the name, damage the one that is there, or make it   *)
(* whole.  ContentStore implements it with files (property CasSpec there); *)
(* Images is composed with it.                                             *)
(***************************************************************************)
CONSTANTS Proc,      \* the running wwn-oci commands
          Digest,    \* the digests that name blobs
          OneWriter, \* TRUE: something outside keeps downloads of one blob apart
          NoDigest   \* what a client wants while it wants nothing

VARIABLES named,     \* the digests that have a file under the blob's name
          stored,    \* those of them whose file holds the verified content
          client,    \* per process: "idle", "fetching" a blob with the temporary
                     \* file to itself, "racing" for it, or "holding" the blob
          want       \* per process: the digest of that blob

casVars == <<named, stored, client, want>>

Downloading == {"fetching", "racing"}

CasTypeOK ==
    /\ named \subseteq Digest
    /\ stored \subseteq named
    /\ client \in [Proc -> {"idle", "holding"} \cup Downloading]
    /\ want \in [Proc -> Digest \cup {NoDigest}]
    /\ \A p \in Proc : client[p] # "idle" => want[p] \in Digest

CasInit ==
    /\ named = {}
    /\ stored = {}
    /\ client = [p \in Proc |-> "idle"]
    /\ want = [p \in Proc |-> NoDigest]

(* The others that are downloading the blob p is downloading: whatever p does to
   the temporary file it does to theirs. *)
Rivals(p) ==
    IF OneWriter \/ client[p] \notin Downloading
      THEN {}
      ELSE {q \in Proc \ {p} : client[q] \in Downloading /\ want[q] = want[p]}

Turned(phase) == IF phase = "fetching" THEN "racing" ELSE "fetching"

(* p goes to a phase; some of its rivals lose the temporary file, or get it back. *)
Moved(p, at) ==
    \E turned \in SUBSET Rivals(p) :
        client' = [q \in Proc |-> IF q = p THEN at
                                  ELSE IF q \in turned THEN Turned(client[q])
                                  ELSE client[q]]

(* The blob is not there yet: the client starts to fetch it. *)
Fetch(p, d) ==
    /\ client[p] = "idle"
    /\ d \notin named
    /\ client' = [client EXCEPT ![p] = "fetching"]
    /\ want' = [want EXCEPT ![p] = d]
    /\ UNCHANGED <<named, stored>>

(* A file with the blob's name is there, whole or not: a new request, or a fetch
   overtaken by another. *)
Hit(p, d) ==
    /\ client[p] = "idle" \/ (client[p] = "fetching" /\ want[p] = d)
    /\ d \in named
    /\ client' = [client EXCEPT ![p] = "holding"]
    /\ want' = [want EXCEPT ![p] = d]
    /\ UNCHANGED <<named, stored>>

(* Chunks go to the temporary file, or to the file it was renamed to. *)
Race(p) ==
    /\ client[p] \in Downloading
    /\ \E at \in {"fetching", client[p]} : Moved(p, at)
    /\ \/ UNCHANGED stored
       \/ /\ client[p] = "racing" /\ want[p] \in named
          /\ stored' \in {stored \cup {want[p]}, stored \ {want[p]}}
    /\ UNCHANGED <<named, want>>

(* The download ended with the verified bytes, and what is behind the temporary
   name becomes the blob: what was hashed, unless a rival wrote it. *)
Store(p) ==
    /\ client[p] \in Downloading
    /\ named' = named \cup {want[p]}
    /\ \/ stored' = stored \cup {want[p]}
       \/ client[p] = "racing" /\ stored' = stored \ {want[p]}
    /\ Moved(p, "holding")
    /\ UNCHANGED want

(* The download failed, or the client is done with the blob, or it was killed. *)
Leave(p) ==
    /\ client[p] # "idle"
    /\ Moved(p, "idle")
    /\ want' = [want EXCEPT ![p] = NoDigest]
    /\ UNCHANGED <<named, stored>>

CasNext ==
    \E p \in Proc :
        \/ \E d \in Digest : Fetch(p, d) \/ Hit(p, d)
        \/ Race(p)
        \/ Store(p)
        \/ Leave(p)

CasSpec == CasInit /\ [][CasNext]_casVars
================================================================================
