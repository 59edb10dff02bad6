----------------------------- MODULE Registry_proofs -----------------------------
(***************************************************************************)
(* Proofs about Registry, for any documents, indexes and platforms, and    *)
(* for bodies that may turn into any document.                             *)
(***************************************************************************)
EXTENDS Registry, WellFoundedInduction, TLAPS

(* A set of naturals that is not empty has its minimum. *)
LEMMA MinOfNat ==
    ASSUME NEW S \in SUBSET Nat, S # {}
    PROVE  Min(S) \in S /\ \A n \in S : Min(S) <= n
<1> DEFINE R == OpToRel(<, Nat)
<1>1. PICK x \in S : \A y \in S : ~(<<y, x>> \in R)
  BY NatLessThanWellFounded, WFMin, Zenon
<1>2. ASSUME NEW y \in S PROVE x <= y
  <2>1. ~(y < x)
    BY <1>1 DEF OpToRel
  <2> QED
    BY <2>1
<1> QED
  BY <1>2 DEF Min

(* select_platform finds an entry of the index, and the first that fits. *)
LEMMA Selection ==
    ASSUME NEW x \in Index
    PROVE  /\ SelectPlatform(x) # 0 =>
                SelectPlatform(x) \in DOMAIN x /\ x[SelectPlatform(x)].doc \in Doc
           /\ (\E i \in DOMAIN x : Fits(x[i])) =>
                /\ SelectPlatform(x) # 0
                /\ Fits(x[SelectPlatform(x)])
                /\ \A j \in 1..(SelectPlatform(x) - 1) : ~Fits(x[j])
<1> DEFINE fitting == {i \in DOMAIN x : Fits(x[i])}
           images  == {i \in DOMAIN x : x[i].kind = "manifest"}
<1> HIDE DEF fitting, images
<1>1. DOMAIN x = 1..Len(x) /\ Len(x) \in Nat /\ \A i \in DOMAIN x : x[i].doc \in Doc
  BY RegistryAssumption
<1>2. fitting \in SUBSET Nat /\ images \in SUBSET Nat
  BY <1>1 DEF fitting, images
<1>3. SelectPlatform(x) =
        IF fitting # {} THEN Min(fitting) ELSE IF images # {} THEN Min(images) ELSE 0
  BY DEF SelectPlatform, fitting, images
<1>4. ASSUME fitting # {}
      PROVE  /\ SelectPlatform(x) \in fitting
             /\ \A j \in fitting : SelectPlatform(x) <= j
  BY <1>2, <1>3, <1>4, MinOfNat
<1>5. ASSUME fitting = {}, images # {} PROVE SelectPlatform(x) \in images
  BY <1>2, <1>3, <1>5, MinOfNat
<1>6. ASSUME SelectPlatform(x) # 0 PROVE SelectPlatform(x) \in DOMAIN x
  BY <1>3, <1>4, <1>5, <1>6 DEF fitting, images
<1>7. ASSUME NEW i \in DOMAIN x, Fits(x[i])
      PROVE  /\ SelectPlatform(x) # 0
             /\ Fits(x[SelectPlatform(x)])
             /\ \A j \in 1..(SelectPlatform(x) - 1) : ~Fits(x[j])
  <2>1. SelectPlatform(x) \in fitting /\ \A j \in fitting : SelectPlatform(x) <= j
    BY <1>4, <1>7 DEF fitting
  <2>2. SelectPlatform(x) \in DOMAIN x /\ Fits(x[SelectPlatform(x)])
    BY <2>1 DEF fitting
  <2>3. ASSUME NEW j \in 1..(SelectPlatform(x) - 1) PROVE ~Fits(x[j])
    <3>1. j \in DOMAIN x /\ ~(SelectPlatform(x) <= j)
      BY <1>1, <2>2
    <3> QED
      BY <2>1, <3>1 DEF fitting
  <2> QED
    BY <1>1, <2>2, <2>3
<1> QED
  BY <1>1, <1>6, <1>7

(* What the selection of a manifest rests on while it is fetched. *)
Choosing ==
    /\ pc = "top" => top = NoDoc
    /\ pc = "child" => top \in Index /\ SelectPlatform(top) # 0
    /\ pc \in {"child", "blob", "done"} /\ top # NoDoc /\ pin # NoDoc => top = pin

(* What is known of the manifest once it is there. *)
Settled ==
    Resolved =>
        /\ top # NoDoc => SelectPlatform(top) # 0 /\ used = Selected
        /\ top = NoDoc /\ pin # NoDoc => used = pin
        /\ site.honest /\ (pin # NoDoc \/ top # NoDoc) => digest = used

(* Between its grant and the retry, a sufficient token that lasts is good. *)
GrantHolds ==
    Active /\ req = "second" /\ site.lasting /\ ~(site.access = "private" /\ ~site.login) =>
        cached = "good"

RegInv == TypeOK /\ Choosing /\ Settled /\ GrantHolds /\ RefusedWithReason

LEMMA InitInv == Init => RegInv
BY RegistryAssumption DEF Init, RegInv, TypeOK, Site, Token, Choosing, Settled, GrantHolds, RefusedWithReason,
   Active, Resolved

(* Facts about the types that the steps share. *)
LEMMA DocTyped ==
    ASSUME TypeOK, top # NoDoc, SelectPlatform(top) # 0
    PROVE  Selected \in Doc /\ Selected # NoDoc
BY Selection, RegistryAssumption DEF TypeOK, Selected

LEMMA RecordedTyped ==
    ASSUME NEW d \in Doc, NEW body \in Doc, NEW header \in Headers(d)
    PROVE  /\ Recorded(body, header) \in Doc
           /\ site.honest /\ body = d => Recorded(body, header) = d
BY RegistryAssumption DEF Recorded, Headers

LEMMA TypeStep == ASSUME TypeOK, Choosing, [Next]_vars PROVE TypeOK'
<1> USE DEF TypeOK
<1>1. CASE Begin
  BY <1>1, RegistryAssumption DEF Begin, Token
<1>2. CASE Challenged
  BY <1>2 DEF Challenged, Stop
<1>3. CASE TokenArrives
  BY <1>3 DEF TokenArrives, Token
<1>4. CASE Refused
  BY <1>4 DEF Refused, Stop
<1>5. CASE TopArrives
  <2>1. UNCHANGED <<site, bearer, cached, pin>> /\ req' = "first"
    BY <1>5 DEF TopArrives
  <2>2. PICK d \in IF pin = NoDoc THEN Doc ELSE {pin} :
         \E body \in {d} \cup Damaged :
           \/ pc' = "child" /\ top' = body /\ body \in Index /\ UNCHANGED <<used, digest, left>>
           \/ (\E header \in Headers(d) : Use(body, Recorded(body, header))) /\ UNCHANGED top
           \/ pc' = "failed" /\ UNCHANGED <<top, used, digest, left>>
    BY <1>5 DEF TopArrives
  <2>3. PICK body \in {d} \cup Damaged :
           \/ pc' = "child" /\ top' = body /\ body \in Index /\ UNCHANGED <<used, digest, left>>
           \/ (\E header \in Headers(d) : Use(body, Recorded(body, header))) /\ UNCHANGED top
           \/ pc' = "failed" /\ UNCHANGED <<top, used, digest, left>>
    BY <2>2
  <2>4. d \in Doc /\ body \in Doc
    BY <2>2, <2>3, RegistryAssumption
  <2>5. \A header \in Headers(d) : Recorded(body, header) \in Doc
    BY <2>4, RecordedTyped
  <2> QED
    BY <2>1, <2>3, <2>4, <2>5 DEF Use
<1>6. CASE ChildArrives
  <2>1. Selected \in Doc /\ top \in Index
    BY <1>6, DocTyped, RegistryAssumption DEF ChildArrives, Choosing, Doc
  <2>2. UNCHANGED <<site, bearer, cached, pin, top>> /\ req' = "first"
    BY <1>6 DEF ChildArrives
  <2>3. PICK body \in {Selected} \cup Damaged :
           \/ \E header \in Headers(Selected) : Use(body, Recorded(body, header))
           \/ pc' = "failed" /\ UNCHANGED <<used, digest, left>>
    BY <1>6 DEF ChildArrives
  <2>4. body \in Doc
    BY <2>1, <2>3, RegistryAssumption
  <2>5. \A header \in Headers(Selected) : Recorded(body, header) \in Doc
    BY <2>1, <2>4, RecordedTyped
  <2> QED
    BY <2>1, <2>2, <2>3, <2>4, <2>5 DEF Use
<1>7. CASE BlobArrives
  BY <1>7, RegistryAssumption DEF BlobArrives
<1>8. CASE BlobInStore
  BY <1>8, RegistryAssumption DEF BlobInStore
<1>9. CASE Done
  BY <1>9 DEF Done, Stop
<1>10. CASE Fail
  BY <1>10 DEF Fail, Stop
<1>11. CASE Expire
  BY <1>11 DEF Expire, Token
<1>12. CASE UNCHANGED vars
  BY <1>12 DEF vars
<1> QED
  BY <1>1, <1>2, <1>3, <1>4, <1>5, <1>6, <1>7, <1>8, <1>9, <1>10, <1>11, <1>12 DEF Next, Step

(* The manifest: a step other than the arrival of a document keeps what is known
   of it, or starts afresh. *)
LEMMA SettledStep ==
    ASSUME TypeOK, Choosing, Settled, [Next]_vars
    PROVE  Choosing' /\ Settled'
<1>1. CASE Begin
  BY <1>1 DEF Begin, Choosing, Settled, Resolved
<1>2. CASE TopArrives
  <2>1. pc = "top" /\ top = NoDoc /\ UNCHANGED <<site, pin>>
    BY <1>2 DEF TopArrives, Choosing
  <2>2. PICK d \in IF pin = NoDoc THEN Doc ELSE {pin} :
         \E body \in {d} \cup Damaged :
           \/ /\ Verified(pin, body) /\ body \in Index /\ SelectPlatform(body) # 0
              /\ pc' = "child" /\ top' = body
           \/ /\ Verified(pin, body) /\ UNCHANGED top
              /\ \E header \in Headers(d) :
                   pc' = "blob" /\ used' = body /\ digest' = Recorded(body, header)
           \/ pc' = "failed"
    BY <1>2 DEF TopArrives, Use
  <2>3. PICK body \in {d} \cup Damaged :
           \/ /\ Verified(pin, body) /\ body \in Index /\ SelectPlatform(body) # 0
              /\ pc' = "child" /\ top' = body
           \/ /\ Verified(pin, body) /\ UNCHANGED top
              /\ \E header \in Headers(d) :
                   pc' = "blob" /\ used' = body /\ digest' = Recorded(body, header)
           \/ pc' = "failed"
    BY <2>2
  <2>4. CASE /\ Verified(pin, body) /\ body \in Index /\ SelectPlatform(body) # 0
             /\ pc' = "child" /\ top' = body
    BY <2>1, <2>4 DEF Verified, Choosing, Settled, Resolved
  <2>5. ASSUME Verified(pin, body), UNCHANGED top, NEW header \in Headers(d),
               pc' = "blob", used' = body, digest' = Recorded(body, header)
        PROVE  Choosing' /\ Settled'
    <3>1. pin # NoDoc => body = pin /\ d = pin
      BY <2>2, <2>5 DEF Verified
    <3>2. d \in Doc /\ body \in Doc
      BY <2>2, <2>3, RegistryAssumption DEF TypeOK
    <3>3. pin # NoDoc /\ site.honest => digest' = pin
      BY <2>5, <3>1, <3>2, RecordedTyped
    <3> QED
      BY <2>1, <2>5, <3>1, <3>3 DEF Choosing, Settled, Resolved
  <2>6. CASE pc' = "failed"
    BY <2>6 DEF Choosing, Settled, Resolved
  <2> QED
    BY <2>3, <2>4, <2>5, <2>6
<1>3. CASE ChildArrives
  <2>1. pc = "child" /\ UNCHANGED <<site, pin, top>>
    BY <1>3 DEF ChildArrives
  <2>2. top # NoDoc /\ SelectPlatform(top) # 0 /\ Selected # NoDoc /\ Selected \in Doc
    BY <2>1, DocTyped, RegistryAssumption DEF Choosing, Doc
  <2>3. CASE pc' = "failed"
    BY <2>3 DEF Choosing, Settled, Resolved
  <2>4. CASE pc' # "failed"
    <3>1. PICK body \in {Selected} \cup Damaged, header \in Headers(Selected) :
             /\ Verified(Selected, body)
             /\ pc' = "blob" /\ used' = body /\ digest' = Recorded(body, header)
      BY <1>3, <2>4 DEF ChildArrives, Use
    <3>2. body = Selected /\ (site.honest => Recorded(body, header) = Selected)
      BY <2>2, <3>1, RecordedTyped DEF Verified
    <3>3. Selected' = Selected /\ SelectPlatform(top)' = SelectPlatform(top)
      BY <2>1 DEF Selected
    <3> QED
      BY <2>1, <2>2, <3>1, <3>2, <3>3 DEF Choosing, Settled, Resolved
  <2> QED
    BY <2>3, <2>4
<1>4. CASE UNCHANGED <<site, pin, top, used, digest>> /\ (pc' = pc \/ (Resolved /\ pc' = "done")
                                                     \/ pc' \in {"failed", "refused"})
  <2>1. SelectPlatform(top)' = SelectPlatform(top) /\ Selected' = Selected
    BY <1>4 DEF Selected
  <2> QED
    BY <1>4, <2>1 DEF Choosing, Settled, Resolved
<1>5. CASE \/ Challenged \/ TokenArrives \/ Refused \/ BlobArrives \/ BlobInStore \/ Done
           \/ Fail \/ Expire \/ UNCHANGED vars
  BY <1>4, <1>5 DEF Challenged, TokenArrives, Refused, BlobArrives, BlobInStore, Done,
     Fail, Expire, Stop, Resolved, vars
<1> QED
  BY <1>1, <1>2, <1>3, <1>5 DEF Next, Step

(* The retry: only Refused ends a pull as refused, and only with a reason. *)
LEMMA GrantStep ==
    ASSUME TypeOK, GrantHolds, RefusedWithReason, [Next]_vars
    PROVE  GrantHolds' /\ RefusedWithReason'
<1> USE DEF GrantHolds, RefusedWithReason, Active
<1>1. CASE Begin
  BY <1>1 DEF Begin
<1>2. CASE Refused
  BY <1>2 DEF Refused, Stop, Attempt, Accepted, Presented, TypeOK
<1>3. CASE TokenArrives
  BY <1>3 DEF TokenArrives
<1>4. CASE TopArrives
  BY <1>4 DEF TopArrives, Use, Attempt
<1>5. CASE ChildArrives
  BY <1>5 DEF ChildArrives, Use, Attempt
<1>6. CASE Expire
  BY <1>6 DEF Expire
<1>7. CASE \/ Challenged \/ BlobArrives \/ BlobInStore \/ Done \/ Fail \/ UNCHANGED vars
  BY <1>7 DEF Challenged, BlobArrives, BlobInStore, Done, Fail, Stop, Attempt, vars
<1> QED
  BY <1>1, <1>2, <1>3, <1>4, <1>5, <1>6, <1>7 DEF Next, Step

LEMMA InvAlways == Spec => []RegInv
<1>1. RegInv /\ [Next]_vars => RegInv'
  BY TypeStep, SettledStep, GrantStep DEF RegInv
<1> QED
  BY <1>1, InitInv, PTL DEF Spec

(* The client's state keeps its types. *)
THEOREM TypeCorrect == Spec => []TypeOK
<1>1. RegInv => TypeOK
  BY DEF RegInv
<1> QED
  BY <1>1, InvAlways, PTL

(* A pull pinned to a document uses that document or an entry of it, whatever the
   registry sends. *)
THEOREM PinIsEnforced == Spec => []PinnedUsed
<1>1. RegInv => PinnedUsed
  <2> SUFFICES ASSUME RegInv, Resolved, pin # NoDoc PROVE PinnedUsed
    BY DEF PinnedUsed
  <2>1. CASE top = NoDoc
    BY <2>1 DEF RegInv, Settled, PinnedUsed
  <2>2. CASE top # NoDoc
    <3>1. top = pin /\ used = Selected /\ SelectPlatform(top) # 0 /\ top \in Index
      BY <2>2 DEF RegInv, TypeOK, Choosing, Settled, Resolved
    <3>2. SelectPlatform(top) \in DOMAIN top
      BY <3>1, Selection
    <3> QED
      BY <3>1, <3>2 DEF PinnedUsed, Selected
  <2> QED
    BY <2>1, <2>2
<1> QED
  BY <1>1, InvAlways, PTL

(* For every index and platform, the image used is the first that fits. *)
THEOREM PlatformIsFirst == Spec => []PlatformFirst
<1>1. RegInv => PlatformFirst
  <2> SUFFICES ASSUME RegInv, Resolved, top # NoDoc, \E i \in DOMAIN top : Fits(top[i])
               PROVE  PlatformFirst
    BY DEF PlatformFirst
  <2>1. top \in Index /\ used = Selected /\ SelectPlatform(top) # 0
    BY DEF RegInv, TypeOK, Settled
  <2>2. /\ SelectPlatform(top) \in DOMAIN top /\ Fits(top[SelectPlatform(top)])
        /\ \A j \in 1..(SelectPlatform(top) - 1) : ~Fits(top[j])
    BY <2>1, Selection
  <2> QED
    BY <2>1, <2>2 DEF PlatformFirst, Selected
<1> QED
  BY <1>1, InvAlways, PTL

(* Of a registry that names its documents rightly the digest recorded is that of
   the bytes, wherever they were asked for by digest.  Nothing more can be said: a
   header is never compared with the bytes (registry.rs, get_manifest). *)
THEOREM DigestIsOfBytes == Spec => []HonestDigest
<1>1. RegInv => HonestDigest
  BY DEF RegInv, Settled, HonestDigest
<1> QED
  BY <1>1, InvAlways, PTL

(* A retry is refused only for a reason that lies outside the client. *)
THEOREM RefusalHasReason == Spec => []RefusedWithReason
<1>1. RegInv => RefusedWithReason
  BY DEF RegInv
<1> QED
  BY <1>1, InvAlways, PTL

(* How far a pull is from its end: the documents still to come, and for the one
   asked for now whether its first attempt, its token or its retry comes next. *)
Documents(at, blobs) ==
    CASE at = "top" -> MaxBlobs + 3
      [] at = "child" -> MaxBlobs + 2
      [] at = "blob" -> blobs + 1
      [] OTHER -> 0

Stage(r) == CASE r = "first" -> 2 [] r = "token" -> 1 [] OTHER -> 0

Ahead(at, blobs, r) == 3 * Documents(at, blobs) + Stage(r)

LEMMA AheadTyped ==
    ASSUME NEW at, NEW blobs \in Nat, NEW r
    PROVE  Documents(at, blobs) \in Nat /\ Stage(r) \in 0..2 /\ Ahead(at, blobs, r) \in Nat
<1>1. Documents(at, blobs) \in Nat
  BY RegistryAssumption DEF Documents
<1>2. Stage(r) \in 0..2
  BY DEF Stage
<1> QED
  BY <1>1, <1>2 DEF Ahead

(* Whatever ends the document that is asked for now leaves less to come. *)
LEMMA FewerDocuments ==
    ASSUME NEW at, NEW blobs \in Nat, NEW r, NEW then, NEW rest \in Nat, NEW s,
           Documents(then, rest) < Documents(at, blobs)
    PROVE  Ahead(then, rest, s) < Ahead(at, blobs, r)
<1>1. /\ Documents(at, blobs) \in Nat /\ Documents(then, rest) \in Nat
      /\ Stage(r) \in 0..2 /\ Stage(s) \in 0..2
  BY AheadTyped
<1> QED
  BY <1>1 DEF Ahead

(* A pull never goes back, and an expired token does not set it back: for each of
   its documents it sends at most an attempt, a request for a token and a retry,
   in this order, and then it has one document less to come or it ends
   (registry.rs, authorized_get). *)
THEOREM PullsAdvance ==
    Spec => [][Active =>
                 \/ Ahead(pc', left', req') < Ahead(pc, left, req)
                 \/ UNCHANGED <<site, pc, req, pin, top, used, digest, left>>]_vars
<1>1. ASSUME TypeOK, TypeOK', [Next]_vars, Active
      PROVE  \/ Ahead(pc', left', req') < Ahead(pc, left, req)
             \/ UNCHANGED <<site, pc, req, pin, top, used, digest, left>>
  <2> USE <1>1
  <2>1. left \in Nat /\ left' \in Nat /\ left <= MaxBlobs /\ left' <= MaxBlobs /\ MaxBlobs \in Nat
    BY RegistryAssumption DEF TypeOK
  <2>2. Documents(pc, left) \in Nat /\ Documents(pc, left) > 0
    BY <2>1 DEF Documents, Active
  <2>3. ASSUME Documents(pc', left') < Documents(pc, left)
        PROVE  Ahead(pc', left', req') < Ahead(pc, left, req)
    BY <2>1, <2>3, FewerDocuments
  <2>4. ASSUME pc' \in {"failed", "refused", "done"}
        PROVE  Ahead(pc', left', req') < Ahead(pc, left, req)
    <3>1. Documents(pc', left') = 0
      BY <2>4 DEF Documents
    <3> QED
      BY <2>2, <2>3, <3>1
  <2>5. CASE Challenged
    <3>1. CASE pc' = "failed"
      BY <2>4, <3>1
    <3>2. CASE pc' # "failed"
      <4>1. req = "first" /\ req' = "token" /\ pc' = pc /\ left' = left
        BY <2>5, <3>2 DEF Challenged, Stop
      <4>2. Stage(req) = 2 /\ Stage(req') = 1
        BY <4>1 DEF Stage
      <4> QED
        BY <2>2, <4>1, <4>2 DEF Ahead
    <3> QED
      BY <3>1, <3>2
  <2>6. CASE TokenArrives
    <3>1. req = "token" /\ req' = "second" /\ pc' = pc /\ left' = left
      BY <2>6 DEF TokenArrives
    <3>2. Stage(req) = 1 /\ Stage(req') = 0
      BY <3>1 DEF Stage
    <3> QED
      BY <2>2, <3>1, <3>2 DEF Ahead
  <2>7. CASE Refused \/ Done \/ Fail
    BY <2>4, <2>7 DEF Refused, Done, Fail, Stop
  <2>8. CASE TopArrives
    <3>1. pc = "top" /\ pc' \in {"child", "blob", "failed"}
      BY <2>8 DEF TopArrives, Use
    <3> QED
      BY <2>1, <2>3, <3>1 DEF Documents
  <2>9. CASE ChildArrives
    <3>1. pc = "child" /\ pc' \in {"blob", "failed"}
      BY <2>9 DEF ChildArrives, Use
    <3> QED
      BY <2>1, <2>3, <3>1 DEF Documents
  <2>10. CASE BlobArrives \/ BlobInStore
    <3>1. pc = "blob" /\ pc' = "blob" /\ left' = left - 1
      BY <2>10 DEF BlobArrives, BlobInStore
    <3> QED
      BY <2>1, <2>3, <3>1 DEF Documents
  <2>11. CASE Expire \/ UNCHANGED vars
    BY <2>11 DEF Expire, vars
  <2>12. CASE Begin
    BY <2>12 DEF Begin
  <2> QED
    BY <2>5, <2>6, <2>7, <2>8, <2>9, <2>10, <2>11, <2>12 DEF Next, Step
<1>2. TypeOK /\ TypeOK' /\ [Next]_vars =>
        [Active => \/ Ahead(pc', left', req') < Ahead(pc, left, req)
                   \/ UNCHANGED <<site, pc, req, pin, top, used, digest, left>>]_vars
  BY <1>1
<1> QED
  BY <1>2, TypeCorrect, PTL DEF Spec
================================================================================
