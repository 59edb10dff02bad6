-------------------------------- MODULE Registry --------------------------------
(***************************************************************************)
(* What one pull asks of a registry (registry.rs, and pull in lib.rs): the  *)
(* document its reference names, the manifest it selects if that is an     *)
(* index, then the blobs.  Every request goes through authorized_get: a    *)
(* first attempt, a token if it is refused, a second attempt.              *)
(* A document is its own digest: an image manifest is a model value, an    *)
(* index the sequence of its descriptors.                                  *)
(***************************************************************************)
EXTENDS Naturals, Sequences, FiniteSetsExt

CONSTANTS
    Image,       \* image manifests
    Index,       \* indexes: sequences of descriptors
    Damaged,     \* documents that a body may turn into on its way
    Misnamed,    \* documents that a header may name for another
    Pins,        \* what a reference may be pinned to: documents, or NoDoc
    Target,      \* the platform asked for
    Access,      \* which registries there are: "open", "public", "private"
    Bearers,     \* the static bearer token, as in Token
    MaxBlobs,    \* bound on the blobs of a manifest
    NoDoc, NoPlatform, NoVariant

Doc   == Image \cup Index
Token == {"none", "good", "weak", "expired"}
Site  == [access : Access, lasting : BOOLEAN, login : BOOLEAN, honest : BOOLEAN]

ASSUME RegistryAssumption ==
    /\ Damaged \subseteq Doc /\ Misnamed \subseteq Doc /\ Pins \subseteq Doc \cup {NoDoc}
    /\ NoDoc \notin Doc /\ Image \cap Index = {}
    /\ \A x \in Index : DOMAIN x = 1..Len(x) /\ \A i \in DOMAIN x : x[i].doc \in Doc
    /\ Bearers \subseteq Token
    /\ MaxBlobs \in Nat

VARIABLES
    site,      \* the registry: its access, whether a token outlives the retry it
               \* was asked for, whether the user has credentials for it, whether
               \* the digests it sends in headers are those of its documents
    bearer,    \* Credentials.bearer
    cached,    \* RegistryClient.cached_token
    pc,        \* what the pull is after: "top", "child", "blob"; or how it ended
    req,       \* where the request stands: "first", "token", "second"
    pin,       \* the digest in the reference
    top,       \* the index a manifest was selected from
    used,      \* the bytes of the manifest
    digest,    \* the digest recorded for it
    left       \* blobs still to come

vars == <<site, bearer, cached, pc, req, pin, top, used, digest, left>>

Active   == pc \in {"top", "child", "blob"}
Resolved == pc \in {"blob", "done"}

--------------------------------------------------------------------------------
(* TargetPlatform::matches: a missing variant on either side is compatible. *)
Matches(p) ==
    /\ p.os = Target.os /\ p.arch = Target.arch
    /\ Target.variant = NoVariant \/ p.variant = NoVariant \/ p.variant = Target.variant

Fits(d) == d.platform # NoPlatform /\ d.platform.os # "unknown" /\ Matches(d.platform)

(* Mutant: any manifest will do. *)
SelectAny(x) ==
    LET images == {i \in DOMAIN x : x[i].kind = "manifest"}
    IN  IF images = {} THEN 0 ELSE Min(images)

(* select_platform: the first descriptor that fits, or else the first that is
   an image manifest; 0 when there is none. *)
SelectPlatform(x) ==
    LET fitting == {i \in DOMAIN x : Fits(x[i])}
        images  == {i \in DOMAIN x : x[i].kind = "manifest"}
    IN  IF fitting # {} THEN Min(fitting) ELSE IF images # {} THEN Min(images) ELSE 0

Selected == top[SelectPlatform(top)].doc

(* Mutant: the bytes are not compared with the digest that was asked for. *)
Trusted(want, body) == TRUE

(* get_manifest: the bytes of a pinned document are hashed. *)
Verified(want, body) == want = NoDoc \/ body = want

(* What the Docker-Content-Digest header says of a document: nothing, or a digest. *)
Headers(d) == {NoDoc, d} \cup (IF site.honest THEN {} ELSE Misnamed)

(* The digest taken for the document's: that of the header, whatever it says, and
   that of the bytes only without one. *)
Recorded(body, header) == IF header # NoDoc THEN header ELSE body

--------------------------------------------------------------------------------
TypeOK ==
    /\ site \in Site
    /\ bearer \in Token /\ cached \in Token
    /\ pc \in {"idle", "top", "child", "blob", "done", "failed", "refused"}
    /\ req \in {"first", "token", "second"}
    /\ pin \in Doc \cup {NoDoc}
    /\ top \in Index \cup {NoDoc}
    /\ used \in Doc \cup {NoDoc} /\ digest \in Doc \cup {NoDoc}
    /\ left \in 0..MaxBlobs

Init ==
    /\ site \in Site
    /\ bearer = "none" /\ cached = "none"
    /\ pc = "idle" /\ req = "first"
    /\ pin = NoDoc /\ top = NoDoc /\ used = NoDoc /\ digest = NoDoc
    /\ left = 0

(* A pull starts with a client of its own, which has no token yet. *)
Begin ==
    /\ ~Active
    /\ bearer' \in Bearers /\ cached' = "none"
    /\ pc' = "top" /\ req' = "first"
    /\ pin' \in Pins
    /\ top' = NoDoc /\ used' = NoDoc /\ digest' = NoDoc /\ left' = 0
    /\ UNCHANGED site

(* The pull ends. *)
Stop(how) ==
    /\ pc' = how
    /\ UNCHANGED <<site, bearer, cached, req, pin, top, used, digest, left>>

--------------------------------------------------------------------------------
(* try_get: a static bearer goes before the token negotiated. *)
Presented == IF bearer # "none" THEN bearer ELSE cached

Attempt  == Active /\ req \in {"first", "second"}
Accepted == site.access = "open" \/ Presented = "good"

(* The first attempt is answered with 401: the challenge can be used, or it is
   missing, is not a bearer challenge or names no realm. *)
Challenged ==
    /\ Attempt /\ req = "first" /\ ~Accepted
    /\ \/ /\ req' = "token"
          /\ UNCHANGED <<site, bearer, cached, pc, pin, top, used, digest, left>>
       \/ Stop("failed")

(* Mutant: a token that is there is kept. *)
TokenKept ==
    /\ Active /\ req = "token"
    /\ cached' = IF cached # "none" THEN cached
                 ELSE IF site.access = "private" /\ ~site.login THEN "weak" ELSE "good"
    /\ req' = "second"
    /\ UNCHANGED <<site, bearer, pc, pin, top, used, digest, left>>

(* obtain_token: without credentials a private registry grants less than is
   needed.  The token replaces the one cached before. *)
TokenArrives ==
    /\ Active /\ req = "token"
    /\ cached' = IF site.access = "private" /\ ~site.login THEN "weak" ELSE "good"
    /\ req' = "second"
    /\ UNCHANGED <<site, bearer, pc, pin, top, used, digest, left>>

(* Mutant: a second 401 is a challenge like the first. *)
ChallengedAgain ==
    /\ Attempt /\ req = "second" /\ ~Accepted
    /\ req' = "token"
    /\ UNCHANGED <<site, bearer, cached, pc, pin, top, used, digest, left>>

(* There is one retry. *)
Refused ==
    /\ Attempt /\ req = "second" /\ ~Accepted
    /\ Stop("refused")

(* The manifest is settled; its blobs are next. *)
Use(body, d) ==
    /\ pc' = "blob"
    /\ used' = body /\ digest' = d
    /\ left' \in 0..MaxBlobs

(* The document the reference names; a tag may name any, at any time.  The media
   type is that of the header and an image manifest's without one. *)
TopArrives ==
    /\ Attempt /\ Accepted /\ pc = "top"
    /\ \E d \in IF pin = NoDoc THEN Doc ELSE {pin} :
       \E body \in {d} \cup Damaged, typed \in BOOLEAN :
         LET isIndex == typed /\ d \in Index IN
         \/ /\ Verified(pin, body) /\ isIndex /\ body \in Index /\ SelectPlatform(body) # 0
            /\ pc' = "child" /\ top' = body
            /\ UNCHANGED <<used, digest, left>>
         \/ /\ Verified(pin, body) /\ ~isIndex /\ body \in Image
            /\ \E header \in Headers(d) : Use(body, Recorded(body, header))
            /\ UNCHANGED top
         \/ /\ \/ ~Verified(pin, body)
               \/ isIndex /\ (body \in Index => SelectPlatform(body) = 0)
               \/ ~isIndex /\ body \notin Image
            /\ pc' = "failed"
            /\ UNCHANGED <<top, used, digest, left>>
    /\ req' = "first"
    /\ UNCHANGED <<site, bearer, cached, pin>>

(* Mutant: the digest of the index is recorded for the image. *)
ChildOfIndex ==
    /\ Attempt /\ Accepted /\ pc = "child"
    /\ \E body \in {Selected} \cup Damaged :
         IF Verified(Selected, body) /\ body \in Image
           THEN Use(body, top)
           ELSE pc' = "failed" /\ UNCHANGED <<used, digest, left>>
    /\ req' = "first"
    /\ UNCHANGED <<site, bearer, cached, pin, top>>

(* get_manifest_by_digest of the manifest selected, parsed as an image manifest
   whatever it is. *)
ChildArrives ==
    /\ Attempt /\ Accepted /\ pc = "child"
    /\ \E body \in {Selected} \cup Damaged :
         IF Verified(Selected, body) /\ body \in Image
           THEN \E header \in Headers(Selected) : Use(body, Recorded(body, header))
           ELSE pc' = "failed" /\ UNCHANGED <<used, digest, left>>
    /\ req' = "first"
    /\ UNCHANGED <<site, bearer, cached, pin, top>>

(* A blob arrives, and the next is asked for. *)
BlobArrives ==
    /\ Attempt /\ Accepted /\ pc = "blob" /\ left > 0
    /\ left' = left - 1 /\ req' = "first"
    /\ UNCHANGED <<site, bearer, cached, pc, pin, top, used, digest>>

(* Mutant: the end of the list is not looked for. *)
BlobPastEnd ==
    /\ pc = "blob" /\ req = "first"
    /\ left' = left - 1
    /\ UNCHANGED <<site, bearer, cached, pc, req, pin, top, used, digest>>

(* A blob the store has is not asked for. *)
BlobInStore ==
    /\ pc = "blob" /\ req = "first" /\ left > 0
    /\ left' = left - 1
    /\ UNCHANGED <<site, bearer, cached, pc, req, pin, top, used, digest>>

Done == pc = "blob" /\ left = 0 /\ Stop("done")

(* Any other status, a header that is no digest, a media type that is neither, an
   error of the connection, of the token endpoint or of the store. *)
Fail == Active /\ Stop("failed")

(* A token expires; one that lasts does not between its grant and the retry. *)
Expire ==
    /\ Active /\ (site.lasting => req # "second")
    /\ \/ cached = "good" /\ cached' = "expired" /\ UNCHANGED bearer
       \/ bearer = "good" /\ bearer' = "expired" /\ UNCHANGED cached
    /\ UNCHANGED <<site, pc, req, pin, top, used, digest, left>>

Step ==
    \/ Challenged \/ TokenArrives \/ Refused
    \/ TopArrives \/ ChildArrives \/ BlobArrives \/ BlobInStore \/ Done

Next == Begin \/ Step \/ Fail \/ Expire

Spec == Init /\ [][Next]_vars

(* Requests are answered, with whatever status. *)
FairSpec == Spec /\ WF_vars(Step)

--------------------------------------------------------------------------------
(* The image of a pinned reference is the one pinned, or one the pinned index
   lists, whatever the registry sends (registry.rs, "If the reference pinned a
   digest, enforce it"). *)
PinnedUsed ==
    Resolved /\ pin # NoDoc =>
        used = pin \/ (top = pin /\ \E i \in DOMAIN pin : used = pin[i].doc)

(* The image taken from an index is the first one for the platform, if the index
   has one (lib.rs, select_platform). *)
PlatformFirst ==
    Resolved /\ top # NoDoc /\ (\E i \in DOMAIN top : Fits(top[i])) =>
        \E i \in DOMAIN top :
            /\ Fits(top[i]) /\ used = top[i].doc
            /\ \A j \in 1..(i - 1) : ~Fits(top[j])

(* The digest recorded, which names the rootfs and the entry, is that of the bytes
   used where they were asked for by digest, whatever becomes of a body on its way:
   not that of the index, nor of another document.  It takes a registry that names
   its documents rightly: a header is not compared with the bytes, nor with the pin
   (registry.rs, get_manifest). *)
HonestDigest ==
    Resolved /\ site.honest /\ (pin # NoDoc \/ top # NoDoc) => digest = used

(* Only a static bearer, missing credentials or a token that expired on its way
   can make the retry fail: what a pull was granted earlier never does
   (registry.rs, cached_token). *)
RefusedWithReason ==
    pc = "refused" =>
        bearer # "none" \/ (site.access = "private" /\ ~site.login) \/ ~site.lasting

(* Every pull ends, also when no token is ever good enough. *)
PullEnds == Active ~> ~Active
================================================================================
