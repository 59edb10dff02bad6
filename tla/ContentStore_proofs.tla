--------------------------- MODULE ContentStore_proofs ---------------------------
(***************************************************************************)
(* Proofs about ContentStore, for every number of processes, digests and   *)
(* inodes, every blob size and every fault.                                *)
(***************************************************************************)
EXTENDS ContentStore, TLAPS

(* A file written up to some chunk, and what one more chunk makes of it. *)
LEMMA PrefixTyped ==
    ASSUME NEW k PROVE Prefix(k) \in [Chunk -> {"good", "bad", "none"}]
BY DEF Prefix

LEMMA PrefixGrows ==
    ASSUME NEW k \in Nat, k < Size
    PROVE  [Prefix(k) EXCEPT ![k + 1] = "good"] = Prefix(k + 1)
<1> DEFINE F == [Prefix(k) EXCEPT ![k + 1] = "good"]
<1>1. ASSUME NEW n \in Chunk PROVE F[n] = Prefix(k + 1)[n]
  BY <1>1, StoreAssumption DEF Prefix, Chunk
<1>2. F = [n \in Chunk |-> F[n]] /\ Prefix(k + 1) = [n \in Chunk |-> Prefix(k + 1)[n]]
  BY DEF Prefix
<1> QED
  BY <1>1, <1>2, Zenon

(* Leaving download_blob gives the process's own variables their first values. *)
LEMMA ExitTyped ==
    ASSUME TypeOK, NEW p \in Proc, Exit(p)
    PROVE  /\ pc' \in [Proc -> PC]
           /\ want' \in [Proc -> Digest \cup {NoDigest}]
           /\ fd' \in [Proc -> Inode \cup {NoInode}]
           /\ off' \in [Proc -> 0..(Size + 1)]
           /\ clean' \in [Proc -> BOOLEAN]
           /\ \A q \in Proc : pc'[q] # "idle" => want'[q] \in Digest
<1>1. pc' \in [Proc -> PC]
  BY DEF TypeOK, Exit, PC
<1>2. want' \in [Proc -> Digest \cup {NoDigest}]
  BY DEF TypeOK, Exit
<1>3. fd' \in [Proc -> Inode \cup {NoInode}]
  BY DEF TypeOK, Exit
<1>4. off' \in [Proc -> 0..(Size + 1)]
  BY StoreAssumption DEF TypeOK, Exit
<1>5. clean' \in [Proc -> BOOLEAN]
  BY DEF TypeOK, Exit
<1>6. ASSUME NEW q \in Proc, pc'[q] # "idle" PROVE want'[q] \in Digest
  BY <1>6 DEF TypeOK, Exit
<1> QED
  BY <1>1, <1>2, <1>3, <1>4, <1>5, <1>6

(* The types alone: they hold of every deployment, serialized or not. *)
THEOREM TypeCorrect == Spec => []TypeOK
<1>1. Init => TypeOK
  BY StoreAssumption, PrefixTyped DEF Init, TypeOK, Blank, PC
<1>2. TypeOK /\ [Next]_vars => TypeOK'
  <2> SUFFICES ASSUME TypeOK, [Next]_vars PROVE TypeOK'
    OBVIOUS
  <2> USE StoreAssumption DEF TypeOK, PC, Asking, Writing
  <2>1. ASSUME NEW p \in Proc, NEW d \in Digest, Start(p, d) PROVE TypeOK'
    BY <2>1 DEF Start
  <2>2. ASSUME NEW p \in Proc, Connect(p) PROVE TypeOK'
    BY <2>2 DEF Connect, Goto, files
  <2>3. ASSUME NEW p \in Proc, Recheck(p) PROVE TypeOK'
    BY <2>3 DEF Recheck, Goto, files
  <2>4. ASSUME NEW p \in Proc, Drain(p) PROVE TypeOK'
    BY <2>4 DEF Drain, Goto, files
  <2>5. ASSUME NEW p \in Proc, CreateTmp(p) PROVE TypeOK'
    <3>1. PICK i \in Inode :
            /\ content' = [content EXCEPT ![i] = Blank]
            /\ tmp' = [tmp EXCEPT ![want[p]] = i]
            /\ fd' = [fd EXCEPT ![p] = i]
      BY <2>5 DEF CreateTmp, Emptied
    <3>2. content' \in [Inode -> [Chunk -> {"good", "bad", "none"}]]
      <4>1. Blank \in [Chunk -> {"good", "bad", "none"}]
        BY PrefixTyped DEF Blank
      <4> QED
        BY <3>1, <4>1
    <3>3. tmp' \in [Digest -> Inode \cup {NoInode}]
      BY <3>1
    <3>4. fd' \in [Proc -> Inode \cup {NoInode}]
      BY <3>1
    <3> QED
      BY <2>5, <3>2, <3>3, <3>4 DEF CreateTmp
  <2>6. ASSUME NEW p \in Proc, Receive(p) PROVE TypeOK'
    <3>1. PICK c \in {"good", "bad"} :
            /\ content' = [content EXCEPT ![fd[p]][off[p] + 1] = c]
            /\ clean' = [clean EXCEPT ![p] = @ /\ c = "good"]
      BY ONLY <2>6, Zenon DEF Receive
    <3>2. content' \in [Inode -> [Chunk -> {"good", "bad", "none"}]]
      BY <3>1
    <3>3. clean' \in [Proc -> BOOLEAN]
      BY <3>1
    <3>4. off' \in [Proc -> 0..(Size + 1)]
      BY <2>6 DEF Receive
    <3> QED
      BY <2>6, <3>2, <3>3, <3>4 DEF Receive
  <2>7. ASSUME NEW p \in Proc, EndOfStream(p) PROVE TypeOK'
    BY <2>7 DEF EndOfStream
  <2>8. ASSUME NEW p \in Proc, Discard(p) PROVE TypeOK'
    BY <2>8, ExitTyped DEF Discard
  <2>9. ASSUME NEW p \in Proc, Commit(p) PROVE TypeOK'
    <3>1. CASE tmp[want[p]] = NoInode
      BY <2>9, <3>1, ExitTyped DEF Commit, files
    <3>2. CASE tmp[want[p]] # NoInode
      BY <2>9, <3>2 DEF Commit, Goto
    <3> QED
      BY <3>1, <3>2
  <2>10. ASSUME NEW p \in Proc, Cut(p) PROVE TypeOK'
    BY <2>10, ExitTyped DEF Cut, files
  <2>11. ASSUME NEW p \in Proc, Kill(p) PROVE TypeOK'
    BY <2>11, ExitTyped DEF Kill, files
  <2>12. ASSUME NEW p \in Proc, OpenBlob(p) PROVE TypeOK'
    BY <2>12 DEF OpenBlob
  <2>13. ASSUME NEW p \in Proc, Done(p) PROVE TypeOK'
    BY <2>13, ExitTyped DEF Done, files
  <2>14. CASE UNCHANGED vars
    BY <2>14 DEF vars
  <2> QED
    BY <2>1, <2>2, <2>3, <2>4, <2>5, <2>6, <2>7, <2>8, <2>9, <2>10, <2>11,
       <2>12, <2>13, <2>14 DEF Next, Download
<1> QED
  BY <1>1, <1>2, PTL DEF Spec

--------------------------------------------------------------------------------
(* Whose file is whose, whatever races and whatever fails: a file has at most one
   name, those that stream into it want the blob it is named for, and a blob that
   somebody was told of is there. *)
Named(i, d)   == tmp[d] = i \/ blob[d] = i
Streams(p, i) == pc[p] = "stream" /\ fd[p] = i

OneName ==
    \A d, e \in Digest : \A i \in Inode :
        /\ Named(i, d) /\ Named(i, e) => d = e
        /\ ~(tmp[d] = i /\ blob[e] = i)

StreamsOwn ==
    \A p \in Proc : \A d \in Digest : \A i \in Inode :
        Streams(p, i) /\ Named(i, d) => want[p] = d

StreamsOpen == \A p \in Proc : pc[p] = "stream" => fd[p] \in Inode

Fresh ==
    \A p \in Proc : pc[p] \in {"idle"} \cup Asking => off[p] = 0 /\ clean[p] = TRUE

NameInv == OneName /\ StreamsOwn /\ StreamsOpen /\ Fresh /\ HoldersFindTheBlob

(* A step of a process that opens no file and gives no file another blob's name. *)
LEMMA QuietKeepsNames ==
    ASSUME TypeOK, NameInv, NEW p \in Proc,
           pc'[p] = "stream" => pc[p] = "stream" /\ fd'[p] = fd[p] /\ want'[p] = want[p],
           pc'[p] \in {"idle"} \cup Asking => off'[p] = 0 /\ clean'[p] = TRUE,
           pc'[p] \in {"ok", "reading", "drain"} => Has(want[p])',
           \A q \in Proc \ {p} : /\ pc'[q] = pc[q] /\ want'[q] = want[q] /\ fd'[q] = fd[q]
                                 /\ off'[q] = off[q] /\ clean'[q] = clean[q],
           \A d \in Digest : Has(d) => Has(d)',
           \A d \in Digest : \A i \in Inode : Named(i, d)' => Named(i, d),
           \A d, e \in Digest : \A i \in Inode : ~(tmp'[d] = i /\ blob'[e] = i)
    PROVE  NameInv'
<1> USE DEF NameInv
<1>1. OneName'
  <2>1. ASSUME NEW d \in Digest, NEW e \in Digest, NEW i \in Inode, Named(i, d)', Named(i, e)'
        PROVE  d = e
    BY <2>1 DEF OneName
  <2> QED
    BY <2>1, Zenon DEF OneName
<1>2. ASSUME NEW q \in Proc, NEW i \in Inode, Streams(q, i)'
      PROVE  Streams(q, i) /\ want'[q] = want[q]
  BY <1>2 DEF Streams
<1>3. StreamsOwn'
  <2> SUFFICES ASSUME NEW q \in Proc, NEW d \in Digest, NEW i \in Inode,
                      Streams(q, i)', Named(i, d)'
               PROVE  want'[q] = d
    BY DEF StreamsOwn
  <2> QED
    BY <1>2 DEF StreamsOwn
<1>4. StreamsOpen'
  BY DEF StreamsOpen
<1>5. Fresh'
  BY DEF Fresh
<1>6. HoldersFindTheBlob'
  <2> SUFFICES ASSUME NEW q \in Proc, pc'[q] \in {"ok", "reading", "drain"}
               PROVE  Has(want[q])'
    BY DEF HoldersFindTheBlob
  <2>1. CASE q = p
    BY <2>1
  <2>2. CASE q # p
    <3>1. want[q] \in Digest /\ Has(want[q]) /\ want'[q] = want[q]
      BY <2>2 DEF HoldersFindTheBlob, TypeOK
    <3> QED
      BY <3>1 DEF Has
  <2> QED
    BY <2>1, <2>2
<1> QED
  BY <1>1, <1>3, <1>4, <1>5, <1>6

(* The file a download creates is one nobody names, or the one that already has
   the temporary name of the blob. *)
LEMMA CreatesOwn ==
    ASSUME TypeOK, OneName, StreamsOwn, NEW p \in Proc, want[p] \in Digest, NEW i \in Inode,
           IF tmp[want[p]] = NoInode THEN Free(i) ELSE i = tmp[want[p]]
    PROVE  /\ \A d \in Digest : blob[d] # i
           /\ \A d \in Digest : tmp[d] = i => d = want[p]
           /\ \A q \in Proc : Streams(q, i) => want[q] = want[p]
<1>1. CASE tmp[want[p]] = NoInode
  BY <1>1 DEF Free, Streams
<1>2. CASE tmp[want[p]] # NoInode
  <2>1. i = tmp[want[p]] /\ Named(i, want[p])
    BY <1>2 DEF Named
  <2>2. ASSUME NEW d \in Digest, Named(i, d) PROVE d = want[p]
    BY <2>1, <2>2 DEF OneName
  <2>3. \A d \in Digest : blob[d] # i
    BY <2>1 DEF OneName
  <2>4. \A d \in Digest : tmp[d] = i => d = want[p]
    BY <2>2 DEF Named
  <2>5. \A q \in Proc : Streams(q, i) => want[q] = want[p]
    BY <2>1 DEF StreamsOwn
  <2> QED
    BY <2>3, <2>4, <2>5
<1> QED
  BY <1>1, <1>2

LEMMA CreateKeepsNames ==
    ASSUME TypeOK, NameInv, NEW p \in Proc, CreateTmp(p)
    PROVE  NameInv'
<1> USE DEF TypeOK, NameInv
<1>1. PICK i \in Inode :
        /\ IF tmp[want[p]] = NoInode THEN Free(i) ELSE i = tmp[want[p]]
        /\ tmp' = [tmp EXCEPT ![want[p]] = i]
        /\ fd' = [fd EXCEPT ![p] = i]
  BY DEF CreateTmp
<1>2. /\ pc[p] = "create" /\ want[p] \in Digest
      /\ pc' = [pc EXCEPT ![p] = "stream"]
      /\ UNCHANGED <<blob, want, off, clean>>
  BY DEF CreateTmp
<1>3. /\ \A d \in Digest : blob[d] # i
      /\ \A d \in Digest : tmp[d] = i => d = want[p]
      /\ \A q \in Proc : Streams(q, i) => want[q] = want[p]
  BY <1>1, <1>2, CreatesOwn
<1>4. ASSUME NEW d \in Digest, NEW j \in Inode, Named(j, d)'
      PROVE  IF j = i THEN d = want[p] ELSE Named(j, d)
  <2>1. CASE d = want[p]
    BY <1>1, <1>2, <1>3, <1>4, <2>1 DEF Named
  <2>2. CASE d # want[p]
    BY <1>1, <1>2, <1>3, <1>4, <2>2 DEF Named
  <2> QED
    BY <2>1, <2>2
<1>5. OneName'
  <2> SUFFICES ASSUME NEW d \in Digest, NEW e \in Digest, NEW j \in Inode
               PROVE  /\ Named(j, d)' /\ Named(j, e)' => d = e
                      /\ ~(tmp'[d] = j /\ blob'[e] = j)
    BY DEF OneName
  <2>1. ASSUME Named(j, d)', Named(j, e)' PROVE d = e
    BY <1>4, <2>1 DEF OneName
  <2>2. ~(tmp'[d] = j /\ blob'[e] = j)
    <3>1. CASE j = i
      BY <1>2, <1>3, <3>1
    <3>2. CASE j # i
      BY <1>1, <1>2, <3>2 DEF OneName
    <3> QED
      BY <3>1, <3>2
  <2> QED
    BY <2>1, <2>2
<1>6. ASSUME NEW q \in Proc, NEW j \in Inode, Streams(q, j)'
      PROVE  q # p => Streams(q, j)
  BY <1>1, <1>2, <1>6 DEF Streams
<1>7. StreamsOwn'
  <2> SUFFICES ASSUME NEW q \in Proc, NEW d \in Digest, NEW j \in Inode,
                      Streams(q, j)', Named(j, d)'
               PROVE  want[q] = d
    BY <1>2 DEF StreamsOwn
  <2>1. CASE q = p
    <3>1. j = i
      BY <1>1, <2>1 DEF Streams
    <3> QED
      BY <1>4, <2>1, <3>1
  <2>2. CASE q # p
    <3>1. Streams(q, j)
      BY <1>6, <2>2
    <3> QED
      BY <1>3, <1>4, <3>1 DEF StreamsOwn
  <2> QED
    BY <2>1, <2>2
<1>8. StreamsOpen'
  BY <1>1, <1>2 DEF StreamsOpen
<1>9. Fresh'
  BY <1>2 DEF Fresh, Asking
<1>10. HoldersFindTheBlob'
  BY <1>2 DEF HoldersFindTheBlob, Has
<1> QED
  BY <1>5, <1>7, <1>8, <1>9, <1>10

LEMMA NameInvStep ==
    ASSUME TypeOK, NameInv, [Next]_vars
    PROVE  NameInv'
<1>1. ASSUME NEW p \in Proc, \/ \E d \in Digest : Start(p, d)
                             \/ Connect(p) \/ Recheck(p) \/ Drain(p) \/ Receive(p)
                             \/ EndOfStream(p) \/ Discard(p) \/ Commit(p) \/ Cut(p)
                             \/ Kill(p) \/ OpenBlob(p) \/ Done(p)
      PROVE  NameInv'
  <2> USE DEF TypeOK
  <2>1. pc[p] # "idle" => want[p] \in Digest
    OBVIOUS
  <2>2. pc'[p] = "stream" => pc[p] = "stream" /\ fd'[p] = fd[p] /\ want'[p] = want[p]
    BY <1>1 DEF Start, Connect, Recheck, Drain, Receive, EndOfStream, Discard, Commit, Cut,
       Kill, OpenBlob, Done, Goto, Exit
  <2>3. pc'[p] \in {"idle"} \cup Asking => off'[p] = 0 /\ clean'[p] = TRUE
    BY <1>1, StoreAssumption
       DEF NameInv, Fresh, Start, Connect, Recheck, Drain, Receive, EndOfStream, Discard, Commit,
           Cut, Kill, OpenBlob, Done, Goto, Exit, Asking
  <2>4. \A d \in Digest : Has(d) => Has(d)'
    BY <1>1 DEF Has, Start, Connect, Recheck, Drain, Receive, EndOfStream, Discard, Commit,
       Cut, Kill, OpenBlob, Done, Goto, Exit, files
  <2>5. pc'[p] \in {"ok", "reading", "drain"} => Has(want[p])'
    BY <1>1, <2>1
       DEF NameInv, HoldersFindTheBlob, Has, Start, Connect, Recheck, Drain, Receive,
           EndOfStream, Discard, Commit, Cut, Kill, OpenBlob, Done, Goto, Exit, files
  <2>6. \A q \in Proc \ {p} : /\ pc'[q] = pc[q] /\ want'[q] = want[q] /\ fd'[q] = fd[q]
                              /\ off'[q] = off[q] /\ clean'[q] = clean[q]
    BY <1>1 DEF Start, Connect, Recheck, Drain, Receive, EndOfStream, Discard, Commit,
       Cut, Kill, OpenBlob, Done, Goto, Exit
  <2>7. /\ \A d \in Digest : tmp'[d] \in {tmp[d], NoInode}
        /\ \A d \in Digest : blob'[d] = blob[d] \/ (tmp'[d] = NoInode /\ blob'[d] = tmp[d])
    BY <1>1 DEF Start, Connect, Recheck, Drain, Receive, EndOfStream, OpenBlob, Done, Discard,
       Commit, Cut, Kill, files
  <2>8. \A d \in Digest : \A i \in Inode : Named(i, d)' => Named(i, d)
    BY <2>7, StoreAssumption DEF Named
  <2>9. ASSUME NEW d \in Digest, NEW e \in Digest, NEW i \in Inode, tmp'[d] = i, blob'[e] = i
        PROVE  FALSE
    <3>1. tmp[d] = i
      BY <2>7, <2>9, StoreAssumption
    <3>2. blob[e] # i
      BY <3>1 DEF NameInv, OneName
    <3>3. tmp[e] = i /\ tmp'[e] = NoInode
      BY <2>7, <2>9, <3>2
    <3>4. d = e
      BY <3>1, <3>3 DEF NameInv, OneName, Named
    <3> QED
      BY <2>9, <3>3, <3>4, StoreAssumption
  <2> QED
    BY <2>2, <2>3, <2>4, <2>5, <2>6, <2>8, <2>9, QuietKeepsNames
<1>2. CASE UNCHANGED vars
  <2>1. \A i, d : Named(i, d)' = Named(i, d)
    BY <1>2 DEF Named, vars
  <2>2. \A q, i : Streams(q, i)' = Streams(q, i)
    BY <1>2 DEF Streams, vars
  <2>3. OneName' /\ StreamsOpen' /\ Fresh' /\ HoldersFindTheBlob'
    BY <1>2, <2>1 DEF NameInv, OneName, StreamsOpen, Fresh, HoldersFindTheBlob, Has, vars, Named
  <2>4. StreamsOwn'
    BY <1>2, <2>1, <2>2 DEF NameInv, StreamsOwn, vars
  <2> QED
    BY <2>3, <2>4 DEF NameInv
<1> QED
  BY <1>1, <1>2, CreateKeepsNames DEF Next, Download

LEMMA NameInvHolds == Spec => [](TypeOK /\ NameInv)
<1>1. Init => NameInv
  BY StoreAssumption
     DEF Init, NameInv, OneName, StreamsOwn, StreamsOpen, Fresh, HoldersFindTheBlob, Named,
         Streams, Asking
<1>2. TypeOK /\ NameInv /\ [Next]_vars => NameInv'
  BY NameInvStep
<1> QED
  BY <1>1, <1>2, TypeCorrect, PTL DEF Spec

(* store.read after a download that reported success: whatever races, is cut short
   or killed, there is a file under the blob's name to open. *)
THEOREM HoldersFind == Spec => []HoldersFindTheBlob
<1>1. NameInv => HoldersFindTheBlob
  BY DEF NameInv
<1> QED
  BY <1>1, NameInvHolds, PTL

--------------------------------------------------------------------------------
(* Why they hold when writers of one blob are kept apart (Serialized): a
   temporary file belongs to its one writer until it is renamed, and no file
   that has a blob name, or that a reader has open, is behind a temporary name. *)
OneWriter ==
    \A p, q \in Proc :
        /\ p # q
        /\ pc[p] \in Writing /\ pc[q] \in Writing
        => want[p] # want[q]

OpenFiles ==
    \A p \in Proc : fd[p] # NoInode => pc[p] \in {"stream", "reading"}

TmpApart ==
    \A d \in Digest : tmp[d] # NoInode =>
        /\ \A e \in Digest : blob[e] # tmp[d]
        /\ \A e \in Digest : e # d => tmp[e] # tmp[d]
        /\ \A p \in Proc : fd[p] = tmp[d] => pc[p] = "stream" /\ want[p] = d

WriterOwnsTmp ==
    \A p \in Proc : pc[p] = "stream" => tmp[want[p]] \in Inode /\ fd[p] = tmp[want[p]]

WrittenIsHashed ==
    \A p \in Proc : pc[p] = "stream" /\ clean[p] = TRUE =>
        /\ off[p] <= Size
        /\ content[fd[p]] = Prefix(off[p])

CommitsWhole ==
    \A p \in Proc : pc[p] = "commit" => tmp[want[p]] \in Inode /\ Whole(tmp[want[p]])

SerialInv ==
    /\ OneWriter
    /\ OpenFiles
    /\ TmpApart
    /\ WriterOwnsTmp
    /\ Fresh
    /\ WrittenIsHashed
    /\ CommitsWhole
    /\ HoldersFindTheBlob
    /\ BlobsVerified
    /\ ReadersSeeVerified


(* A process that leaves, closing its file, takes nothing from the others: a
   writer takes at most its own temporary name with it. *)
LEMMA ExitKeepsSerialInv ==
    ASSUME TypeOK, SerialInv, NEW p \in Proc, Exit(p),
           content' = content, blob' = blob,
           \/ tmp' = tmp
           \/ pc[p] = "discard" /\ tmp' = [tmp EXCEPT ![want[p]] = NoInode]
    PROVE  SerialInv'
<1> USE DEF TypeOK, SerialInv, Exit, Writing
<1>1. OneWriter'
  BY DEF OneWriter
<1>2. OpenFiles'
  BY DEF OpenFiles
<1>3. TmpApart'
  BY StoreAssumption DEF TmpApart
<1>4. WriterOwnsTmp'
  BY DEF WriterOwnsTmp, OneWriter
<1>5. Fresh'
  BY DEF Fresh
<1>6. WrittenIsHashed'
  BY DEF WrittenIsHashed
<1>7. CommitsWhole'
  BY DEF CommitsWhole, Whole, OneWriter
<1>8. HoldersFindTheBlob'
  BY DEF HoldersFindTheBlob, Has
<1>9. BlobsVerified'
  BY DEF BlobsVerified, Has, Whole
<1>10. ReadersSeeVerified'
  BY DEF ReadersSeeVerified, Whole
<1> QED
  BY <1>1, <1>2, <1>3, <1>4, <1>5, <1>6, <1>7, <1>8, <1>9, <1>10

(* A call that finds the blob holds it; one that does not begins afresh. *)
LEMMA StartKeepsSerialInv ==
    ASSUME TypeOK, SerialInv, NEW p \in Proc, NEW d \in Digest, Start(p, d)
    PROVE  SerialInv'
<1> USE DEF TypeOK, SerialInv, Start, Writing, Asking
<1>1. OneWriter'
  BY DEF OneWriter
<1>2. OpenFiles'
  BY StoreAssumption DEF OpenFiles
<1>3. TmpApart'
  BY StoreAssumption DEF TmpApart
<1>4. WriterOwnsTmp'
  BY DEF WriterOwnsTmp
<1>5. Fresh'
  BY DEF Fresh
<1>6. WrittenIsHashed'
  BY DEF WrittenIsHashed
<1>7. CommitsWhole'
  BY DEF CommitsWhole, Whole
<1>8. HoldersFindTheBlob'
  BY DEF HoldersFindTheBlob, Has
<1>9. BlobsVerified'
  BY DEF BlobsVerified, Has, Whole
<1>10. ReadersSeeVerified'
  BY DEF ReadersSeeVerified, Whole
<1> QED
  BY <1>1, <1>2, <1>3, <1>4, <1>5, <1>6, <1>7, <1>8, <1>9, <1>10

(* Up to the creation of the temporary file no file is touched. *)
LEMMA AskKeepsSerialInv ==
    ASSUME TypeOK, SerialInv, NEW p \in Proc,
           Connect(p) \/ Recheck(p) \/ Drain(p)
    PROVE  SerialInv'
<1> USE DEF TypeOK, SerialInv, Connect, Recheck, Drain, Goto, files, Writing, Asking
<1>1. OneWriter'
  BY DEF OneWriter
<1>2. OpenFiles'
  BY StoreAssumption DEF OpenFiles
<1>3. TmpApart'
  BY StoreAssumption DEF TmpApart
<1>4. WriterOwnsTmp'
  BY DEF WriterOwnsTmp
<1>5. Fresh'
  BY DEF Fresh
<1>6. WrittenIsHashed'
  BY DEF WrittenIsHashed
<1>7. CommitsWhole'
  BY DEF CommitsWhole, Whole
<1>8. HoldersFindTheBlob'
  BY DEF HoldersFindTheBlob, Has
<1>9. BlobsVerified'
  BY DEF BlobsVerified, Has, Whole
<1>10. ReadersSeeVerified'
  BY DEF ReadersSeeVerified, Whole
<1> QED
  BY <1>1, <1>2, <1>3, <1>4, <1>5, <1>6, <1>7, <1>8, <1>9, <1>10

(* The one writer of a blob empties a file that nobody else uses. *)
LEMMA CreateKeepsSerialInv ==
    ASSUME TypeOK, SerialInv, Serialized, NEW p \in Proc, CreateTmp(p)
    PROVE  SerialInv'
<1> USE DEF TypeOK, SerialInv, CreateTmp, Emptied, Writing, Asking, Free
<1>a. PICK i \in Inode :
        /\ IF tmp[want[p]] = NoInode THEN Free(i) ELSE i = tmp[want[p]]
        /\ content' = [content EXCEPT ![i] = Blank]
        /\ tmp' = [tmp EXCEPT ![want[p]] = i]
        /\ fd' = [fd EXCEPT ![p] = i]
  OBVIOUS
<1>b. pc[p] = "create" /\ want[p] \in Digest /\ off[p] = 0 /\ clean[p] = TRUE
  BY DEF Fresh
<1>c. /\ i # NoInode
      /\ \A d \in Digest : blob[d] # i
      /\ \A d \in Digest : tmp[d] = i => d = want[p]
  BY <1>a, <1>b, StoreAssumption DEF TmpApart
<1>d. \A q \in Proc : pc[q] \in Writing => q = p \/ want[q] # want[p]
  BY <1>b DEF NoOtherWriter
<1>e. \A q \in Proc : fd[q] # i
  BY <1>a, <1>b, <1>d DEF TmpApart
<1>f. \A j \in Inode : j # i => content'[j] = content[j]
  BY <1>a
<1>1. OneWriter'
  BY DEF OneWriter, NoOtherWriter
<1>2. OpenFiles'
  BY StoreAssumption DEF OpenFiles
<1>3. TmpApart'
  BY StoreAssumption DEF TmpApart
<1>4. WriterOwnsTmp'
  BY <1>a, <1>b, <1>d DEF WriterOwnsTmp
<1>5. Fresh'
  BY DEF Fresh
<1>6. WrittenIsHashed'
  <2>1. ASSUME NEW q \in Proc, q # p, pc[q] = "stream", clean[q] = TRUE
        PROVE  /\ off[q] <= Size
               /\ content'[fd[q]] = Prefix(off[q])
    <3>1. fd[q] \in Inode /\ fd[q] # i
      BY <2>1, <1>e DEF WriterOwnsTmp
    <3> QED
      BY <2>1, <3>1, <1>f DEF WrittenIsHashed
  <2>2. content'[i] = Prefix(0)
    BY <1>a DEF Blank
  <2>3. fd'[p] = i /\ (\A q \in Proc : q # p => fd'[q] = fd[q] /\ pc'[q] = pc[q])
    BY <1>a
  <2>4. off' = off /\ clean' = clean /\ 0 <= Size
    BY StoreAssumption
  <2> SUFFICES ASSUME NEW q \in Proc, pc'[q] = "stream", clean'[q] = TRUE
               PROVE  off'[q] <= Size /\ content'[fd'[q]] = Prefix(off'[q])
    BY DEF WrittenIsHashed, Prefix
  <2>5. CASE q = p
    BY ONLY <2>5, <1>b, <2>2, <2>3, <2>4
  <2>6. CASE q # p
    BY ONLY <2>6, <2>1, <2>3, <2>4, pc'[q] = "stream", clean'[q] = TRUE, q \in Proc
  <2> QED
    BY <2>5, <2>6
<1>7. CommitsWhole'
  BY <1>a, <1>b, <1>c, <1>d, <1>f DEF CommitsWhole, Whole
<1>8. HoldersFindTheBlob'
  BY DEF HoldersFindTheBlob, Has
<1>9. BlobsVerified'
  BY <1>c, <1>f DEF BlobsVerified, Has, Whole
<1>10. ReadersSeeVerified'
  BY <1>a, <1>b, <1>e, <1>f DEF ReadersSeeVerified, Whole
<1> QED
  BY <1>1, <1>2, <1>3, <1>4, <1>5, <1>6, <1>7, <1>8, <1>9, <1>10

(* A chunk goes to the file of its writer, at the place it was hashed for. *)
LEMMA ReceiveKeepsSerialInv ==
    ASSUME TypeOK, SerialInv, NEW p \in Proc, Receive(p)
    PROVE  SerialInv'
<1> USE DEF TypeOK, SerialInv, Receive, Writing
<1>a. /\ pc[p] = "stream" /\ fd[p] \in Inode /\ want[p] \in Digest
      /\ fd[p] = tmp[want[p]] /\ fd[p] # NoInode
  BY StoreAssumption DEF WriterOwnsTmp
<1>b. PICK c \in {"good", "bad"} :
        /\ c = "good" => off[p] < Size
        /\ content' = [content EXCEPT ![fd[p]][off[p] + 1] = c]
        /\ clean' = [clean EXCEPT ![p] = @ /\ c = "good"]
  BY Zenon
<1>c. \A j \in Inode : j # fd[p] => content'[j] = content[j]
  BY <1>a, <1>b
<1>d. \A q \in Proc : q # p /\ fd[q] = fd[p] => FALSE
  BY <1>a DEF TmpApart, WriterOwnsTmp, OneWriter
<1>e. clean'[p] = TRUE => clean[p] = TRUE /\ c = "good"
  BY <1>b
<1>1. OneWriter'
  BY DEF OneWriter
<1>2. OpenFiles'
  BY StoreAssumption DEF OpenFiles
<1>3. TmpApart'
  BY StoreAssumption DEF TmpApart
<1>4. WriterOwnsTmp'
  BY DEF WriterOwnsTmp
<1>5. Fresh'
  BY DEF Fresh, Asking
<1>6. WrittenIsHashed'
  <2>1. ASSUME NEW q \in Proc, q # p, pc[q] = "stream", clean'[q] = TRUE
        PROVE  /\ off'[q] <= Size
               /\ content'[fd[q]] = Prefix(off'[q])
    <3>1. fd[q] \in Inode /\ fd[q] # fd[p]
      BY <2>1, <1>d, StoreAssumption DEF WriterOwnsTmp
    <3>2. clean'[q] = clean[q] /\ off'[q] = off[q]
      BY <2>1, <1>b
    <3> QED
      BY <2>1, <3>1, <3>2, <1>c DEF WrittenIsHashed
  <2>2. ASSUME clean'[p] = TRUE
        PROVE  /\ off'[p] <= Size
               /\ content'[fd[p]] = Prefix(off'[p])
    <3>1. /\ off[p] \in Nat /\ off[p] < Size /\ off'[p] = off[p] + 1
          /\ content[fd[p]] = Prefix(off[p])
      BY <1>a, <1>b, <1>e, <2>2 DEF WrittenIsHashed
    <3>2. content'[fd[p]] = [content[fd[p]] EXCEPT ![off[p] + 1] = "good"]
      BY <1>a, <1>b, <1>e, <2>2
    <3> QED
      BY <3>1, <3>2, PrefixGrows, StoreAssumption
  <2> QED
    BY <1>a, <2>1, <2>2 DEF WrittenIsHashed
<1>7. CommitsWhole'
  BY <1>a, <1>c DEF CommitsWhole, Whole, OneWriter, TmpApart
<1>8. HoldersFindTheBlob'
  BY DEF HoldersFindTheBlob, Has
<1>9. BlobsVerified'
  BY <1>a, <1>c DEF BlobsVerified, Has, Whole, TmpApart
<1>10. ReadersSeeVerified'
  BY <1>a, <1>c, <1>d DEF ReadersSeeVerified, Whole
<1> QED
  BY <1>1, <1>2, <1>3, <1>4, <1>5, <1>6, <1>7, <1>8, <1>9, <1>10

(* Only a file that holds what was hashed goes on to the commit. *)
LEMMA EndKeepsSerialInv ==
    ASSUME TypeOK, SerialInv, NEW p \in Proc, EndOfStream(p)
    PROVE  SerialInv'
<1> USE DEF TypeOK, SerialInv, EndOfStream, Matches, Writing
<1>1. OneWriter'
  BY DEF OneWriter
<1>2. OpenFiles'
  BY StoreAssumption DEF OpenFiles
<1>3. TmpApart'
  BY StoreAssumption DEF TmpApart
<1>4. WriterOwnsTmp'
  BY DEF WriterOwnsTmp
<1>5. Fresh'
  BY DEF Fresh, Asking
<1>6. WrittenIsHashed'
  BY DEF WrittenIsHashed
<1>7. CommitsWhole'
  <2>1. ASSUME NEW q \in Proc, q # p, pc'[q] = "commit"
        PROVE  tmp'[want'[q]] \in Inode /\ Whole(tmp[want[q]])'
    BY <2>1 DEF CommitsWhole, Whole
  <2>2. ASSUME pc'[p] = "commit"
        PROVE  tmp'[want'[p]] \in Inode /\ Whole(tmp[want[p]])'
    <3>1. clean[p] = TRUE /\ off[p] = Size
      BY <2>2
    <3>2. tmp[want[p]] \in Inode /\ fd[p] = tmp[want[p]]
      BY DEF WriterOwnsTmp
    <3>3. content[tmp[want[p]]] = Prefix(Size)
      BY <3>1, <3>2 DEF WrittenIsHashed
    <3> QED
      BY <3>2, <3>3 DEF Whole
  <2> QED
    BY <2>1, <2>2 DEF CommitsWhole
<1>8. HoldersFindTheBlob'
  BY DEF HoldersFindTheBlob, Has
<1>9. BlobsVerified'
  BY DEF BlobsVerified, Has, Whole
<1>10. ReadersSeeVerified'
  BY DEF ReadersSeeVerified, Whole
<1> QED
  BY <1>1, <1>2, <1>3, <1>4, <1>5, <1>6, <1>7, <1>8, <1>9, <1>10

(* The rename gives a blob name to a whole file that nobody writes. *)
LEMMA CommitKeepsSerialInv ==
    ASSUME TypeOK, SerialInv, NEW p \in Proc, Commit(p)
    PROVE  SerialInv'
<1> USE DEF TypeOK, SerialInv, Writing
<1>a. /\ pc[p] = "commit" /\ want[p] \in Digest
      /\ tmp[want[p]] \in Inode /\ tmp[want[p]] # NoInode /\ Whole(tmp[want[p]])
  BY StoreAssumption DEF Commit, CommitsWhole
<1>b. /\ blob' = [blob EXCEPT ![want[p]] = tmp[want[p]]]
      /\ tmp' = [tmp EXCEPT ![want[p]] = NoInode]
      /\ pc' = [pc EXCEPT ![p] = "ok"]
      /\ UNCHANGED <<content, want, fd, off, clean>>
  BY <1>a DEF Commit, Goto
<1>1. OneWriter'
  BY <1>a, <1>b DEF OneWriter
<1>2. OpenFiles'
  BY <1>a, <1>b DEF OpenFiles
<1>3. TmpApart'
  BY <1>a, <1>b DEF TmpApart
<1>4. WriterOwnsTmp'
  BY <1>a, <1>b DEF WriterOwnsTmp, OneWriter
<1>5. Fresh'
  BY <1>a, <1>b DEF Fresh, Asking
<1>6. WrittenIsHashed'
  BY <1>a, <1>b DEF WrittenIsHashed
<1>7. CommitsWhole'
  BY <1>a, <1>b DEF CommitsWhole, Whole, OneWriter, TmpApart
<1>8. HoldersFindTheBlob'
  BY <1>a, <1>b DEF HoldersFindTheBlob, Has
<1>9. BlobsVerified'
  BY <1>a, <1>b DEF BlobsVerified, Has, Whole
<1>10. ReadersSeeVerified'
  BY <1>a, <1>b DEF ReadersSeeVerified, Whole
<1> QED
  BY <1>1, <1>2, <1>3, <1>4, <1>5, <1>6, <1>7, <1>8, <1>9, <1>10

(* A reader opens a blob, which is not behind a temporary name. *)
LEMMA OpenKeepsSerialInv ==
    ASSUME TypeOK, SerialInv, NEW p \in Proc, OpenBlob(p)
    PROVE  SerialInv'
<1> USE DEF TypeOK, SerialInv, OpenBlob, Writing
<1>1. OneWriter'
  BY DEF OneWriter
<1>2. OpenFiles'
  BY StoreAssumption DEF OpenFiles
<1>3. TmpApart'
  BY StoreAssumption DEF TmpApart
<1>4. WriterOwnsTmp'
  BY DEF WriterOwnsTmp
<1>5. Fresh'
  BY DEF Fresh, Asking
<1>6. WrittenIsHashed'
  BY DEF WrittenIsHashed
<1>7. CommitsWhole'
  BY DEF CommitsWhole, Whole
<1>8. HoldersFindTheBlob'
  BY DEF HoldersFindTheBlob, Has
<1>9. BlobsVerified'
  BY DEF BlobsVerified, Has, Whole
<1>10. ReadersSeeVerified'
  <2>1. blob[want[p]] # NoInode /\ Whole(blob[want[p]])
    BY DEF HoldersFindTheBlob, BlobsVerified, Has
  <2> QED
    BY <2>1 DEF ReadersSeeVerified, Whole
<1> QED
  BY <1>1, <1>2, <1>3, <1>4, <1>5, <1>6, <1>7, <1>8, <1>9, <1>10

LEMMA SerialInvStep ==
    ASSUME Serialized, TypeOK, SerialInv, [Next]_vars
    PROVE  SerialInv'
<1>1. ASSUME NEW p \in Proc, NEW d \in Digest, Start(p, d) PROVE SerialInv'
  BY <1>1, StartKeepsSerialInv
<1>2. ASSUME NEW p \in Proc, Connect(p) \/ Recheck(p) \/ Drain(p) PROVE SerialInv'
  BY <1>2, AskKeepsSerialInv
<1>3. ASSUME NEW p \in Proc, CreateTmp(p) PROVE SerialInv'
  BY <1>3, CreateKeepsSerialInv
<1>4. ASSUME NEW p \in Proc, Receive(p) PROVE SerialInv'
  BY <1>4, ReceiveKeepsSerialInv
<1>5. ASSUME NEW p \in Proc, EndOfStream(p) PROVE SerialInv'
  BY <1>5, EndKeepsSerialInv
<1>6. ASSUME NEW p \in Proc, Discard(p) \/ Cut(p) \/ Kill(p) \/ Done(p) PROVE SerialInv'
  BY <1>6, ExitKeepsSerialInv DEF Discard, Cut, Kill, Done, files
<1>7. ASSUME NEW p \in Proc, Commit(p) PROVE SerialInv'
  BY <1>7, CommitKeepsSerialInv
<1>8. ASSUME NEW p \in Proc, OpenBlob(p) PROVE SerialInv'
  BY <1>8, OpenKeepsSerialInv
<1>9. CASE UNCHANGED vars
  BY <1>9 DEF vars, SerialInv, OneWriter, OpenFiles, TmpApart, WriterOwnsTmp, Fresh,
     WrittenIsHashed, CommitsWhole, HoldersFindTheBlob, BlobsVerified, ReadersSeeVerified,
     Has, Whole
<1> QED
  BY <1>1, <1>2, <1>3, <1>4, <1>5, <1>6, <1>7, <1>8, <1>9 DEF Next, Download

LEMMA SerialInvHolds ==
    ASSUME Serialized
    PROVE  Spec => [](TypeOK /\ SerialInv)
<1>1. Init => SerialInv
  BY StoreAssumption DEF Init, SerialInv, OneWriter, OpenFiles, TmpApart, WriterOwnsTmp,
     Fresh, WrittenIsHashed, CommitsWhole, HoldersFindTheBlob, BlobsVerified,
     ReadersSeeVerified, Has, Whole, Writing, Asking
<1>2. TypeOK /\ SerialInv /\ [Next]_vars => SerialInv'
  BY SerialInvStep
<1> QED
  BY <1>1, <1>2, TypeCorrect, PTL DEF Spec

(* As long as something keeps the writers of one blob apart, whatever is cut
   short, corrupted or killed, every blob file holds its blob. *)
THEOREM SerializedBlobsVerified ==
    ASSUME Serialized
    PROVE  Spec => []BlobsVerified
<1>1. SerialInv => BlobsVerified
  BY DEF SerialInv
<1> QED
  BY <1>1, SerialInvHolds, PTL

(* Under the same condition a reader that opened a blob reads its bytes. *)
THEOREM SerializedReadersSeeVerified ==
    ASSUME Serialized
    PROVE  Spec => []ReadersSeeVerified
<1>1. SerialInv => ReadersSeeVerified
  BY DEF SerialInv
<1> QED
  BY <1>1, SerialInvHolds, PTL

(* A step writes only files without a blob name. *)
LEMMA CommittedStep ==
    ASSUME TypeOK, SerialInv, Next, NEW d \in Digest, Has(d)
    PROVE  content'[blob[d]] = content[blob[d]]
<1> USE DEF TypeOK, SerialInv
<1>1. ASSUME NEW p \in Proc, CreateTmp(p) PROVE content'[blob[d]] = content[blob[d]]
  <2>1. PICK i \in Inode :
          /\ IF tmp[want[p]] = NoInode THEN Free(i) ELSE i = tmp[want[p]]
          /\ content' = [content EXCEPT ![i] = Blank]
    BY <1>1 DEF CreateTmp, Emptied
  <2>2. want[p] \in Digest
    BY <1>1 DEF CreateTmp
  <2>3. i # blob[d]
    BY <2>1, <2>2 DEF Free, TmpApart
  <2> QED
    BY <2>1, <2>3
<1>2. ASSUME NEW p \in Proc, Receive(p) PROVE content'[blob[d]] = content[blob[d]]
  <2>1. fd[p] # blob[d]
    BY <1>2, StoreAssumption DEF Receive, WriterOwnsTmp, TmpApart
  <2>2. PICK c \in {"good", "bad"} :
          content' = [content EXCEPT ![fd[p]][off[p] + 1] = c]
    BY <1>2, Zenon DEF Receive
  <2> QED
    BY <2>1, <2>2 DEF Has
<1>3. ASSUME ~ \E p \in Proc : CreateTmp(p) \/ Receive(p) PROVE content' = content
  BY <1>3 DEF Next, Download, Start, Connect, Recheck, Drain, EndOfStream, Discard,
     Commit, Cut, Kill, OpenBlob, Done, files
<1> QED
  BY <1>1, <1>2, <1>3

(* No step rewrites a file that has a blob name. *)
THEOREM SerializedCommittedNeverRewritten ==
    ASSUME Serialized
    PROVE  Spec => CommittedNeverRewritten
<1>1. TypeOK /\ SerialInv /\ [Next]_vars =>
        [\A d \in Digest : Has(d) => content'[blob[d]] = content[blob[d]]]_vars
  BY CommittedStep
<1> QED
  BY <1>1, SerialInvHolds, PTL DEF Spec, CommittedNeverRewritten

--------------------------------------------------------------------------------
(* Where writers are kept apart no download loses its temporary file. *)
Calm == Serialized => \A p \in Proc : ~Disturbed(p)

LEMMA CalmHolds == Spec => []Calm
<1>1. CASE Serialized
  <2>1. TypeOK /\ SerialInv => Calm
    BY StoreAssumption
       DEF SerialInv, WriterOwnsTmp, WrittenIsHashed, CommitsWhole, Calm, Disturbed
  <2> QED
    BY <1>1, <2>1, SerialInvHolds, PTL
<1>2. CASE ~Serialized
  <2>1. Calm
    BY <1>2 DEF Calm
  <2> QED
    BY <2>1, PTL
<1> QED
  BY <1>1, <1>2

(* How a process looks to BlobCas. *)
LEMMA PhaseIs ==
    ASSUME NEW p \in Proc
    PROVE  /\ Client[p] = Phase(p)
           /\ pc[p] = "idle" => Phase(p) = "idle"
           /\ pc[p] \in {"ok", "reading"} => Phase(p) = "holding"
           /\ pc[p] \notin {"idle", "ok", "reading"} =>
                Phase(p) = IF Disturbed(p) THEN "racing" ELSE "fetching"
BY Zenon DEF Client, Phase

LEMMA NextPhaseIs ==
    ASSUME NEW p \in Proc
    PROVE  /\ Client'[p] = Phase(p)'
           /\ pc'[p] = "idle" => Phase(p)' = "idle"
           /\ pc'[p] \in {"ok", "reading"} => Phase(p)' = "holding"
           /\ pc'[p] \notin {"idle", "ok", "reading"} =>
                Phase(p)' = IF Disturbed(p)' THEN "racing" ELSE "fetching"
BY Zenon DEF Client, Phase

(* A download stays as it is as long as its own variables and the temporary file of
   its blob do. *)
LEMMA UndisturbedStep ==
    ASSUME NameInv, NEW q \in Proc,
           pc'[q] = pc[q], want'[q] = want[q], fd'[q] = fd[q], off'[q] = off[q],
           clean'[q] = clean[q],
           pc[q] \in {"stream", "commit"} =>
               /\ tmp'[want[q]] = tmp[want[q]]
               /\ tmp[want[q]] \in Inode => content'[tmp[want[q]]] = content[tmp[want[q]]]
               /\ tmp[want[q]] \in Inode \cup {NoInode}
    PROVE  Disturbed(q)' <=> Disturbed(q)
<1>1. CASE pc[q] = "stream"
  <2>1. fd[q] \in Inode
    BY <1>1 DEF NameInv, StreamsOpen
  <2> QED
    BY <1>1, <2>1 DEF Disturbed
<1>2. CASE pc[q] = "commit"
  BY <1>2 DEF Disturbed, Whole
<1>3. CASE pc[q] \notin {"stream", "commit"}
  BY <1>3 DEF Disturbed
<1> QED
  BY <1>1, <1>2, <1>3

(* When one process steps, the downloads it disturbs are those of the same blob. *)
LEMMA TurnStep ==
    ASSUME TypeOK, Calm, Calm', NEW p \in Proc, NEW at, Phase(p)' = at,
           \A q \in Proc \ {p} :
               /\ pc'[q] = pc[q] /\ want'[q] = want[q]
               /\ \/ Disturbed(q)' <=> Disturbed(q)
                  \/ Client[p] \in Cas!Downloading /\ want[q] = want[p]
    PROVE  Cas!Moved(p, at)
<1> DEFINE turned == {q \in Proc \ {p} : Phase(q)' # Phase(q)}
<1>1. ASSUME NEW q \in turned
      PROVE  /\ Client[q] \in Cas!Downloading
             /\ Phase(q)' = Cas!Turned(Client[q])
             /\ q \in Cas!Rivals(p)
  <2>1. pc[q] \notin {"idle", "ok", "reading"} /\ ~(Disturbed(q)' <=> Disturbed(q))
    BY PhaseIs, NextPhaseIs
  <2>2. /\ Client[q] = IF Disturbed(q) THEN "racing" ELSE "fetching"
        /\ Phase(q)' = IF Disturbed(q)' THEN "racing" ELSE "fetching"
    BY <2>1, PhaseIs, NextPhaseIs
  <2>3. ~Serialized
    BY <2>1 DEF Calm
  <2>4. Client[p] \in Cas!Downloading /\ want[q] = want[p]
    BY <2>1
  <2>5. Client[q] \in Cas!Downloading /\ Phase(q)' = Cas!Turned(Client[q])
    BY <2>1, <2>2 DEF Cas!Downloading, Cas!Turned
  <2> QED
    BY <2>3, <2>4, <2>5 DEF Cas!Rivals
<1>2. turned \in SUBSET Cas!Rivals(p)
  BY <1>1
<1>3. ASSUME NEW q \in Proc
      PROVE  Phase(q)' = IF q = p THEN at
                         ELSE IF q \in turned THEN Cas!Turned(Client[q])
                         ELSE Client[q]
  BY <1>1, PhaseIs
<1>4. Client' = [q \in Proc |-> IF q = p THEN at
                                ELSE IF q \in turned THEN Cas!Turned(Client[q])
                                ELSE Client[q]]
  BY <1>3 DEF Client
<1> HIDE DEF turned
<1> QED
  BY <1>2, <1>4 DEF Cas!Moved

(* When it disturbs none, its own phase is all that changes. *)
LEMMA AloneStep ==
    ASSUME NEW p \in Proc,
           \A q \in Proc \ {p} : pc'[q] = pc[q] /\ (Disturbed(q)' <=> Disturbed(q))
    PROVE  Client' = [Client EXCEPT ![p] = Phase(p)']
<1>1. ASSUME NEW q \in Proc \ {p} PROVE Phase(q)' = Phase(q)
  BY <1>1, PhaseIs, NextPhaseIs
<1> QED
  BY <1>1 DEF Client

LEMMA BlobsUntouched ==
    ASSUME blob' = blob,
           \A d \in Digest : Has(d) => content'[blob[d]] = content[blob[d]]
    PROVE  Present' = Present /\ Stored' = Stored
BY DEF Present, Stored, Has, Whole

(* A chunk, or the truncation of the temporary file: the files of other blobs are
   not touched, and the blob's own only by one that lost the temporary file. *)
LEMMA WriteIsRace ==
    ASSUME TypeOK, NameInv, Calm, Calm', NEW p \in Proc,
           CreateTmp(p) \/ Receive(p) \/ EndOfStream(p)
    PROVE  Cas!Race(p)
<1> USE DEF TypeOK
<1>1. /\ pc[p] \in {"create", "stream"} /\ want[p] \in Digest
      /\ pc'[p] \in {"stream", "commit", "discard"}
      /\ UNCHANGED <<blob, want>>
  BY DEF CreateTmp, Receive, EndOfStream
<1>2. \A q \in Proc \ {p} : /\ pc'[q] = pc[q] /\ want'[q] = want[q] /\ fd'[q] = fd[q]
                            /\ off'[q] = off[q] /\ clean'[q] = clean[q]
  BY DEF CreateTmp, Receive, EndOfStream
<1>3. Client[p] \in Cas!Downloading
  BY <1>1, PhaseIs DEF Cas!Downloading
<1>4. PICK i \in Inode :
        /\ \A j \in Inode : j # i => content'[j] = content[j]
        /\ \A d \in Digest : Named(i, d) => d = want[p]
        /\ \A d \in Digest : d # want[p] => tmp'[d] = tmp[d]
        /\ \A d \in Digest : blob[d] = i => pc[p] = "stream" /\ fd[p] = i /\ tmp[d] # i
  <2>1. CASE CreateTmp(p)
    <3>1. PICK i \in Inode :
            /\ IF tmp[want[p]] = NoInode THEN Free(i) ELSE i = tmp[want[p]]
            /\ content' = [content EXCEPT ![i] = Blank]
            /\ tmp' = [tmp EXCEPT ![want[p]] = i]
      BY <2>1 DEF CreateTmp, Emptied
    <3>2. /\ \A d \in Digest : blob[d] # i
          /\ \A d \in Digest : tmp[d] = i => d = want[p]
      BY <1>1, <3>1, CreatesOwn DEF NameInv
    <3> QED
      BY <3>1, <3>2 DEF Named
  <2>2. CASE Receive(p)
    <3>1. PICK c \in {"good", "bad"} : content' = [content EXCEPT ![fd[p]][off[p] + 1] = c]
      BY <2>2, Zenon DEF Receive
    <3>2. pc[p] = "stream" /\ fd[p] \in Inode /\ tmp' = tmp
      BY <2>2 DEF Receive, NameInv, StreamsOpen
    <3>3. \A d \in Digest : Named(fd[p], d) => d = want[p]
      BY <3>2 DEF NameInv, StreamsOwn, Streams
    <3>4. \A d \in Digest : blob[d] = fd[p] => tmp[d] # fd[p]
      BY <3>2 DEF NameInv, OneName
    <3> QED
      BY <3>1, <3>2, <3>3, <3>4
  <2>3. CASE EndOfStream(p)
    <3>1. pc[p] = "stream" /\ fd[p] \in Inode /\ tmp' = tmp /\ content' = content
      BY <2>3 DEF EndOfStream, NameInv, StreamsOpen
    <3>2. \A d \in Digest : Named(fd[p], d) => d = want[p]
      BY <3>1 DEF NameInv, StreamsOwn, Streams
    <3>3. \A d \in Digest : blob[d] = fd[p] => tmp[d] # fd[p]
      BY <3>1 DEF NameInv, OneName
    <3> QED
      BY <3>1, <3>2, <3>3
  <2> QED
    BY <2>1, <2>2, <2>3
<1>5. ASSUME NEW q \in Proc \ {p}, want[q] # want[p] PROVE Disturbed(q)' <=> Disturbed(q)
  <2>1. ASSUME pc[q] \in {"stream", "commit"}
        PROVE  /\ tmp'[want[q]] = tmp[want[q]]
               /\ tmp[want[q]] \in Inode => content'[tmp[want[q]]] = content[tmp[want[q]]]
               /\ tmp[want[q]] \in Inode \cup {NoInode}
    <3>1. want[q] \in Digest
      BY <2>1
    <3>2. tmp[want[q]] # i
      BY <1>4, <1>5, <3>1 DEF Named
    <3> QED
      BY <1>4, <1>5, <3>1, <3>2
  <2> QED
    BY <1>2, <2>1, UndisturbedStep, StoreAssumption
<1>6. Cas!Moved(p, Phase(p)')
  BY <1>2, <1>3, <1>5, TurnStep
<1>7. Phase(p)' \in {"fetching", Client[p]}
  <2>1. Phase(p)' = IF Disturbed(p)' THEN "racing" ELSE "fetching"
    BY <1>1, NextPhaseIs
  <2>2. Client[p] = IF Disturbed(p) THEN "racing" ELSE "fetching"
    BY <1>1, PhaseIs
  <2>3. ~Disturbed(p) => ~Disturbed(p)'
    <3>1. CASE CreateTmp(p)
      <4>1. PICK j \in Inode :
              /\ content' = [content EXCEPT ![j] = Blank]
              /\ tmp' = [tmp EXCEPT ![want[p]] = j]
              /\ fd' = [fd EXCEPT ![p] = j]
        BY <3>1 DEF CreateTmp, Emptied
      <4>2. pc'[p] = "stream" /\ off'[p] = 0 /\ want'[p] = want[p]
        BY <3>1 DEF CreateTmp, NameInv, Fresh, Asking
      <4>3. fd'[p] = tmp'[want[p]] /\ content'[fd'[p]] = Prefix(0)
        BY <1>1, <4>1 DEF Blank
      <4> QED
        BY <4>2, <4>3 DEF Disturbed
    <3>2. CASE Receive(p) /\ ~Disturbed(p)
      <4>1. PICK c \in {"good", "bad"} :
              /\ c = "good" => off[p] < Size
              /\ content' = [content EXCEPT ![fd[p]][off[p] + 1] = c]
              /\ clean' = [clean EXCEPT ![p] = @ /\ c = "good"]
        BY <3>2, Zenon DEF Receive
      <4>2. /\ pc[p] = "stream" /\ pc'[p] = "stream" /\ fd[p] \in Inode
            /\ off'[p] = off[p] + 1 /\ UNCHANGED <<tmp, want, fd>>
        BY <3>2 DEF Receive, NameInv, StreamsOpen
      <4>3. fd[p] = tmp[want[p]] /\ (clean[p] = TRUE => content[fd[p]] = Prefix(off[p]))
        BY <3>2, <4>2 DEF Disturbed
      <4>4. clean'[p] = TRUE => content'[fd[p]] = Prefix(off'[p])
        <5>1. SUFFICES ASSUME clean'[p] = TRUE PROVE content'[fd[p]] = Prefix(off'[p])
          OBVIOUS
        <5>2. clean[p] = TRUE /\ c = "good"
          BY <4>1, <5>1
        <5>3. content'[fd[p]] = [Prefix(off[p]) EXCEPT ![off[p] + 1] = "good"]
          BY <4>1, <4>2, <4>3, <5>2
        <5>4. off[p] \in Nat /\ off[p] < Size
          BY <4>1, <5>2, StoreAssumption
        <5> QED
          BY <4>2, <5>3, <5>4, PrefixGrows
      <4>5. clean'[p] \in BOOLEAN
        BY <4>1
      <4> QED
        BY <4>2, <4>3, <4>4, <4>5 DEF Disturbed
    <3>3. CASE EndOfStream(p) /\ ~Disturbed(p)
      <4>1. /\ pc[p] = "stream" /\ fd[p] \in Inode
            /\ pc'[p] = IF Matches(p) THEN "commit" ELSE "discard"
            /\ UNCHANGED <<content, tmp, want, off, clean>>
        BY <3>3 DEF EndOfStream, NameInv, StreamsOpen
      <4>2. fd[p] = tmp[want[p]] /\ (clean[p] => content[fd[p]] = Prefix(off[p]))
        BY <3>3, <4>1 DEF Disturbed
      <4>3. Matches(p) => tmp[want[p]] # NoInode /\ Whole(tmp[want[p]])
        BY <4>1, <4>2, StoreAssumption DEF Matches, Whole
      <4> QED
        BY <4>1, <4>3 DEF Disturbed, Whole
    <3> QED
      BY <3>1, <3>2, <3>3
  <2> QED
    BY <2>1, <2>2, <2>3
<1>8. \/ UNCHANGED Stored
      \/ /\ Client[p] = "racing" /\ want[p] \in Present
         /\ Stored' \in {Stored \cup {want[p]}, Stored \ {want[p]}}
  <2>1. CASE blob[want[p]] = i
    <3>1. pc[p] = "stream" /\ fd[p] = i /\ tmp[want[p]] # i
      BY <1>1, <1>4, <2>1
    <3>2. Client[p] = "racing"
      BY <3>1, PhaseIs DEF Disturbed
    <3>3. want[p] \in Present
      BY <1>1, <2>1, StoreAssumption DEF Present, Has
    <3>4. \A d \in Digest \ {want[p]} : d \in Stored' <=> d \in Stored
      <4>1. \A d \in Digest \ {want[p]} : blob[d] # i
        BY <1>4 DEF Named
      <4> QED
        BY <1>1, <1>4, <4>1 DEF Stored, Has, Whole
    <3>5. Stored' \in {Stored \cup {want[p]}, Stored \ {want[p]}}
      BY <3>4 DEF Stored
    <3> QED
      BY <3>2, <3>3, <3>5
  <2>2. CASE blob[want[p]] # i
    <3>1. \A d \in Digest : blob[d] # i
      BY <1>4, <2>2 DEF Named
    <3>2. \A d \in Digest : Has(d) => content'[blob[d]] = content[blob[d]]
      BY <1>4, <3>1 DEF Has
    <3> QED
      BY <1>1, <3>2, BlobsUntouched
  <2> QED
    BY <2>1, <2>2
<1>9. Present' = Present
  BY <1>1 DEF Present, Has
<1> QED
  BY <1>1, <1>3, <1>6, <1>7, <1>8, <1>9 DEF Cas!Race

(* The rename stores the blob, whole unless a rival had the temporary file. *)
LEMMA CommitIsStore ==
    ASSUME TypeOK, NameInv, Calm, Calm', NEW p \in Proc, Commit(p), tmp[want[p]] # NoInode
    PROVE  Cas!Store(p)
<1> USE DEF TypeOK
<1>1. /\ pc[p] = "commit" /\ want[p] \in Digest /\ pc' = [pc EXCEPT ![p] = "ok"]
      /\ blob' = [blob EXCEPT ![want[p]] = tmp[want[p]]]
      /\ tmp' = [tmp EXCEPT ![want[p]] = NoInode]
      /\ UNCHANGED <<content, want, fd, off, clean>>
  BY DEF Commit, Goto
<1>2. Client[p] = IF Whole(tmp[want[p]]) THEN "fetching" ELSE "racing"
  BY <1>1, PhaseIs DEF Disturbed
<1>3. Phase(p)' = "holding"
  BY <1>1, NextPhaseIs
<1>4. ASSUME NEW q \in Proc \ {p}
      PROVE  /\ pc'[q] = pc[q] /\ want'[q] = want[q]
             /\ (Disturbed(q)' <=> Disturbed(q)) \/ want[q] = want[p]
  <2>1. ASSUME want[q] # want[p], pc[q] \in {"stream", "commit"}
        PROVE  /\ tmp'[want[q]] = tmp[want[q]]
               /\ tmp[want[q]] \in Inode \cup {NoInode}
    BY <1>1, <2>1
  <2> QED
    BY <1>1, <2>1, UndisturbedStep, StoreAssumption
<1>5. Cas!Moved(p, "holding")
  <2>1. Client[p] \in Cas!Downloading
    BY <1>2 DEF Cas!Downloading
  <2> QED
    BY <1>3, <1>4, <2>1, TurnStep
<1>6. Present' = Present \cup {want[p]}
  BY <1>1 DEF Present, Has
<1>7. Stored' = IF Whole(tmp[want[p]]) THEN Stored \cup {want[p]} ELSE Stored \ {want[p]}
  BY <1>1 DEF Stored, Has, Whole
<1>8. Client[p] \in Cas!Downloading /\ (Whole(tmp[want[p]]) \/ Client[p] = "racing")
  BY <1>2 DEF Cas!Downloading
<1> QED
  BY <1>1, <1>5, <1>6, <1>7, <1>8 DEF Cas!Store

(* Whoever leaves takes at most the temporary name of its blob along. *)
LEMMA ExitIsLeave ==
    ASSUME TypeOK, NameInv, Calm, Calm', NEW p \in Proc, pc[p] # "idle", Exit(p),
           content' = content, blob' = blob,
           \/ tmp' = tmp
           \/ pc[p] = "discard" /\ tmp' = [tmp EXCEPT ![want[p]] = NoInode]
    PROVE  Cas!Leave(p)
<1> USE DEF TypeOK
<1>1. pc' = [pc EXCEPT ![p] = "idle"] /\ want' = [want EXCEPT ![p] = NoDigest]
  BY DEF Exit
<1>2. ASSUME NEW q \in Proc \ {p}
      PROVE  /\ pc'[q] = pc[q] /\ want'[q] = want[q]
             /\ \/ Disturbed(q)' <=> Disturbed(q)
                \/ Client[p] \in Cas!Downloading /\ want[q] = want[p]
  <2>1. fd'[q] = fd[q] /\ off'[q] = off[q] /\ clean'[q] = clean[q]
        /\ pc'[q] = pc[q] /\ want'[q] = want[q]
    BY DEF Exit
  <2>2. CASE tmp' = tmp \/ want[q] # want[p]
    <3>1. ASSUME pc[q] \in {"stream", "commit"}
          PROVE  /\ tmp'[want[q]] = tmp[want[q]]
                 /\ tmp[want[q]] \in Inode \cup {NoInode}
      BY <2>2, <3>1
    <3> QED
      BY <2>1, <3>1, UndisturbedStep, StoreAssumption
  <2>3. CASE pc[p] = "discard" /\ want[q] = want[p]
    <3>1. Client[p] \in Cas!Downloading
      BY <2>3, PhaseIs DEF Cas!Downloading
    <3> QED
      BY <2>1, <2>3, <3>1
  <2> QED
    BY <2>2, <2>3
<1>3. Phase(p)' = "idle"
  BY <1>1, NextPhaseIs
<1>4. Cas!Moved(p, "idle")
  BY <1>2, <1>3, TurnStep
<1>5. Client[p] # "idle"
  BY PhaseIs
<1>6. Present' = Present /\ Stored' = Stored
  BY BlobsUntouched
<1> QED
  BY <1>1, <1>4, <1>5, <1>6 DEF Cas!Leave

LEMMA RefinementStep ==
    ASSUME TypeOK, NameInv, Calm, Calm', [Next]_vars
    PROVE  [Cas!CasNext]_<<Present, Stored, Client, want>>
<1> USE DEF TypeOK
<1>1. ASSUME NEW p \in Proc, NEW q \in Proc \ {p},
             \/ \E d \in Digest : Start(p, d)
             \/ Connect(p) \/ Recheck(p) \/ Drain(p) \/ OpenBlob(p)
      PROVE  pc'[q] = pc[q] /\ want'[q] = want[q] /\ (Disturbed(q)' <=> Disturbed(q))
  <2>1. /\ fd'[q] = fd[q] /\ off'[q] = off[q] /\ clean'[q] = clean[q]
        /\ pc'[q] = pc[q] /\ want'[q] = want[q]
        /\ UNCHANGED <<content, tmp>>
    BY <1>1 DEF Start, Connect, Recheck, Drain, OpenBlob, Goto, files
  <2>2. pc[q] \in {"stream", "commit"} => tmp[want[q]] \in Inode \cup {NoInode}
    OBVIOUS
  <2> QED
    BY <2>1, <2>2, UndisturbedStep, StoreAssumption
<1>2. ASSUME NEW p \in Proc, NEW d \in Digest, Start(p, d)
      PROVE  Cas!Fetch(p, d) \/ Cas!Hit(p, d)
  <2>1. /\ pc[p] = "idle" /\ want' = [want EXCEPT ![p] = d]
        /\ pc' = [pc EXCEPT ![p] = IF Has(d) THEN "ok" ELSE "ask"]
        /\ UNCHANGED <<content, blob>>
    BY <1>2 DEF Start
  <2>2. Client[p] = "idle"
    BY <2>1, PhaseIs
  <2>3. Present' = Present /\ Stored' = Stored
    BY <2>1, BlobsUntouched
  <2>4. Client' = [Client EXCEPT ![p] = Phase(p)']
    BY <1>1, <1>2, AloneStep
  <2>5. CASE Has(d)
    <3>1. Phase(p)' = "holding"
      BY <2>1, <2>5, NextPhaseIs
    <3> QED
      BY <2>1, <2>2, <2>3, <2>4, <2>5, <3>1 DEF Cas!Hit, Present
  <2>6. CASE ~Has(d)
    <3>1. pc'[p] = "ask"
      BY <2>1, <2>6
    <3>2. Phase(p)' = "fetching"
      BY <3>1, NextPhaseIs DEF Disturbed
    <3> QED
      BY <2>1, <2>2, <2>3, <2>4, <2>6, <3>2 DEF Cas!Fetch, Present
  <2> QED
    BY <2>5, <2>6
<1>3. ASSUME NEW p \in Proc, Connect(p) \/ Recheck(p) \/ OpenBlob(p)
      PROVE  UNCHANGED <<Present, Stored, Client, want>>
  <2>1. UNCHANGED <<content, blob, want>>
    BY <1>3 DEF Connect, Recheck, OpenBlob, Goto, files
  <2>2. Client' = [Client EXCEPT ![p] = Phase(p)']
    BY <1>1, <1>3, AloneStep
  <2>3. CASE Connect(p) \/ Recheck(p)
    <3>1. /\ pc[p] \in {"ask", "check"}
          /\ pc'[p] \in {"check", "drain", "create"}
      BY <2>3 DEF Connect, Recheck, Goto
    <3>2. Phase(p)' = "fetching" /\ Client[p] = "fetching"
      BY <3>1, PhaseIs, NextPhaseIs DEF Disturbed
    <3>3. Client' = Client
      BY <2>2, <3>2 DEF Client
    <3> QED
      BY <2>1, <3>3, BlobsUntouched
  <2>4. CASE OpenBlob(p)
    <3>1. pc[p] = "ok" /\ pc'[p] = "reading"
      BY <2>4 DEF OpenBlob
    <3>2. Phase(p)' = "holding" /\ Client[p] = "holding"
      BY <3>1, PhaseIs, NextPhaseIs
    <3>3. Client' = Client
      BY <2>2, <3>2 DEF Client
    <3> QED
      BY <2>1, <3>3, BlobsUntouched
  <2> QED
    BY <1>3, <2>3, <2>4
<1>4. ASSUME NEW p \in Proc, Drain(p) PROVE Cas!Hit(p, want[p])
  <2>1. pc[p] = "drain" /\ pc'[p] = "ok" /\ want[p] \in Digest /\ UNCHANGED <<content, blob, want>>
    BY <1>4 DEF Drain, Goto, files
  <2>2. Client[p] = "fetching" /\ Phase(p)' = "holding"
    BY <2>1, PhaseIs, NextPhaseIs DEF Disturbed
  <2>3. want[p] \in Present
    BY <2>1 DEF NameInv, HoldersFindTheBlob, Present
  <2>4. Client' = [Client EXCEPT ![p] = "holding"]
    BY <1>1, <1>4, <2>2, AloneStep
  <2>5. Present' = Present /\ Stored' = Stored
    BY <2>1, BlobsUntouched
  <2> QED
    BY <2>1, <2>2, <2>3, <2>4, <2>5 DEF Cas!Hit
<1>5. ASSUME NEW p \in Proc, Discard(p) \/ Cut(p) \/ Kill(p) \/ Done(p) PROVE Cas!Leave(p)
  <2>1. /\ pc[p] # "idle" /\ Exit(p) /\ content' = content /\ blob' = blob
        /\ \/ tmp' = tmp
           \/ pc[p] = "discard" /\ tmp' = [tmp EXCEPT ![want[p]] = NoInode]
    BY <1>5 DEF Discard, Cut, Kill, Done, files
  <2> QED
    BY <2>1, ExitIsLeave
<1>6. ASSUME NEW p \in Proc, Commit(p) PROVE Cas!Store(p) \/ Cas!Leave(p)
  <2>1. CASE tmp[want[p]] = NoInode
    <3>1. pc[p] # "idle" /\ Exit(p) /\ UNCHANGED <<content, tmp, blob>>
      BY <1>6, <2>1 DEF Commit, files
    <3> QED
      BY <3>1, ExitIsLeave
  <2>2. CASE tmp[want[p]] # NoInode
    BY <1>6, <2>2, CommitIsStore
  <2> QED
    BY <2>1, <2>2
<1>7. CASE UNCHANGED vars
  <2>1. \A q \in Proc : Phase(q)' = Phase(q)
    BY <1>7 DEF vars, Phase, Disturbed, Whole
  <2>2. Client' = Client /\ want' = want
    BY <1>7, <2>1 DEF vars, Client
  <2>3. Present' = Present /\ Stored' = Stored
    BY <1>7, BlobsUntouched DEF vars
  <2> QED
    BY <2>2, <2>3
<1>8. ASSUME NEW p \in Proc, Drain(p) PROVE want[p] \in Digest
  BY <1>8 DEF Drain
<1> QED
  BY <1>2, <1>3, <1>4, <1>5, <1>6, <1>7, <1>8, WriteIsRace DEF Next, Download, Cas!CasNext

(* The files of store.rs implement the store of BlobCas whatever races, is cut short,
   corrupted or killed; where the writers of one blob are kept apart, they implement
   it without its races (OneWriter is Serialized). *)
THEOREM FilesImplementCas == Spec => CasSpec
<1>1. Init => Cas!CasInit
  BY Zenon DEF Init, Cas!CasInit, Present, Stored, Client, Phase, Has
<1>2. TypeOK /\ NameInv /\ Calm /\ Calm' /\ [Next]_vars
      => [Cas!CasNext]_<<Present, Stored, Client, want>>
  BY RefinementStep
<1> QED
  BY <1>1, <1>2, NameInvHolds, CalmHolds, PTL DEF Spec, CasSpec, Cas!CasSpec, Cas!casVars

--------------------------------------------------------------------------------
(* Why a race without faults does no lasting damage: a chunk of a named file that is
   not the blob's chunk is one that somebody who streams into it has yet to write. *)
ShortEnough == \A p \in Proc : off[p] <= Size

Owed(i, k) == content[i][k] = "good" \/ \E p \in Proc : Streams(p, i) /\ off[p] < k

DamageIsOwed ==
    \A d \in Digest : \A i \in Inode : Named(i, d) =>
        /\ \A k \in 1..Size : Owed(i, k)
        /\ content[i][Size + 1] = "none"

RaceInv == ShortEnough /\ DamageIsOwed

(* A process that leaves, or moves on, without a file open, names as they are. *)
LEMMA QuietKeepsRaceInv ==
    ASSUME TypeOK, RaceInv, NEW p \in Proc, pc[p] # "stream", pc'[p] # "stream",
           \A q \in Proc \ {p} : pc'[q] = pc[q] /\ fd'[q] = fd[q] /\ off'[q] = off[q],
           off'[p] \in 0..Size,
           content' = content,
           \A d \in Digest : \A i \in Inode : Named(i, d)' => Named(i, d)
    PROVE  RaceInv'
<1> USE DEF TypeOK, RaceInv
<1>1. \A q \in Proc : \A i \in Inode : Streams(q, i)' <=> Streams(q, i)
  BY DEF Streams
<1>2. ShortEnough'
  BY StoreAssumption DEF ShortEnough
<1>3. DamageIsOwed'
  <2>1. ASSUME NEW i \in Inode, NEW k \in 1..Size, Owed(i, k) PROVE Owed(i, k)'
    <3>1. CASE content[i][k] = "good"
      BY <3>1 DEF Owed
    <3>2. CASE \E q \in Proc : Streams(q, i) /\ off[q] < k
      <4>1. PICK q \in Proc : Streams(q, i) /\ off[q] < k
        BY <3>2
      <4>2. Streams(q, i)' /\ off'[q] = off[q]
        BY <4>1, <1>1 DEF Streams
      <4> QED
        BY <4>1, <4>2 DEF Owed
    <3> QED
      BY <2>1, <3>1, <3>2 DEF Owed
  <2> SUFFICES ASSUME NEW d \in Digest, NEW i \in Inode, Named(i, d)'
               PROVE  (\A k \in 1..Size : Owed(i, k)') /\ content'[i][Size + 1] = "none"
    BY DEF DamageIsOwed
  <2>2. Named(i, d)
    OBVIOUS
  <2> QED
    BY <2>1, <2>2 DEF DamageIsOwed
<1> QED
  BY <1>2, <1>3

(* A temporary file that is made or emptied is owed from its first chunk on. *)
LEMMA CreateKeepsRaceInv ==
    ASSUME TypeOK, NameInv, RaceInv, NEW p \in Proc, CreateTmp(p)
    PROVE  RaceInv'
<1> USE DEF TypeOK, NameInv, RaceInv
<1>1. PICK i \in Inode :
        /\ IF tmp[want[p]] = NoInode THEN Free(i) ELSE i = tmp[want[p]]
        /\ content' = [content EXCEPT ![i] = Blank]
        /\ tmp' = [tmp EXCEPT ![want[p]] = i]
        /\ fd' = [fd EXCEPT ![p] = i]
  BY DEF CreateTmp, Emptied
<1>2. /\ pc[p] = "create" /\ want[p] \in Digest /\ off[p] = 0
      /\ pc' = [pc EXCEPT ![p] = "stream"]
      /\ UNCHANGED <<blob, want, off, clean>>
  BY DEF CreateTmp, Fresh, Asking
<1>3. /\ \A d \in Digest : blob[d] # i
      /\ \A d \in Digest : tmp[d] = i => d = want[p]
      /\ \A q \in Proc : Streams(q, i) => want[q] = want[p]
  BY <1>1, <1>2, CreatesOwn
<1>4. ASSUME NEW d \in Digest, NEW j \in Inode, Named(j, d)'
      PROVE  IF j = i THEN d = want[p] ELSE Named(j, d)
  <2>1. CASE d = want[p]
    BY <1>1, <1>2, <1>3, <1>4, <2>1 DEF Named
  <2>2. CASE d # want[p]
    BY <1>1, <1>2, <1>3, <1>4, <2>2 DEF Named
  <2> QED
    BY <2>1, <2>2
<1>5. ShortEnough'
  BY <1>2 DEF ShortEnough
<1>6. DamageIsOwed'
  <2> SUFFICES ASSUME NEW d \in Digest, NEW j \in Inode, Named(j, d)'
               PROVE  (\A k \in 1..Size : Owed(j, k)') /\ content'[j][Size + 1] = "none"
    BY DEF DamageIsOwed
  <2>1. CASE j = i
    <3>1. Streams(p, i)' /\ off'[p] = 0
      BY <1>1, <1>2 DEF Streams
    <3>2. content'[i] = Blank
      BY <1>1
    <3>3. \A k \in 1..Size : Owed(i, k)'
      BY <3>1 DEF Owed
    <3>4. Blank[Size + 1] = "none"
      BY StoreAssumption DEF Blank, Prefix, Chunk
    <3> QED
      BY <2>1, <3>2, <3>3, <3>4
  <2>2. CASE j # i
    <3>1. Named(j, d)
      BY <1>4, <2>2
    <3>2. content'[j] = content[j]
      BY <1>1, <2>2
    <3>3. \A q \in Proc : Streams(q, j) => Streams(q, j)'
      BY <1>1, <1>2, <2>2 DEF Streams
    <3>4. ASSUME NEW k \in 1..Size PROVE Owed(j, k)'
      <4>1. Owed(j, k)
        BY <3>1 DEF DamageIsOwed
      <4> QED
        BY <1>2, <3>2, <3>3, <4>1 DEF Owed
    <3> QED
      BY <3>1, <3>2, <3>4 DEF DamageIsOwed
  <2> QED
    BY <2>1, <2>2
<1> QED
  BY <1>5, <1>6

(* A chunk that is received is the blob's, and goes where it belongs. *)
LEMMA ReceiveKeepsRaceInv ==
    ASSUME Faults = {}, TypeOK, NameInv, RaceInv, NEW p \in Proc, Receive(p)
    PROVE  RaceInv'
<1> USE DEF TypeOK, NameInv, RaceInv
<1>1. /\ pc[p] = "stream" /\ off[p] < Size /\ fd[p] \in Inode
      /\ content' = [content EXCEPT ![fd[p]][off[p] + 1] = "good"]
      /\ off' = [off EXCEPT ![p] = @ + 1]
      /\ UNCHANGED <<tmp, blob, pc, want, fd>>
  BY DEF Receive, ShortEnough, StreamsOpen
<1>2. \A d \in Digest : \A i \in Inode : Named(i, d)' <=> Named(i, d)
  BY <1>1 DEF Named
<1>3. \A q \in Proc : \A i \in Inode : Streams(q, i)' <=> Streams(q, i)
  BY <1>1 DEF Streams
<1>4. ShortEnough'
  BY <1>1, StoreAssumption DEF ShortEnough
<1>5. DamageIsOwed'
  <2> SUFFICES ASSUME NEW d \in Digest, NEW i \in Inode, Named(i, d)'
               PROVE  (\A k \in 1..Size : Owed(i, k)') /\ content'[i][Size + 1] = "none"
    BY DEF DamageIsOwed
  <2>1. (\A k \in 1..Size : Owed(i, k)) /\ content[i][Size + 1] = "none"
    BY <1>2 DEF DamageIsOwed
  <2>2. \A k \in Chunk : content'[i][k] = content[i][k]
                         \/ (i = fd[p] /\ k = off[p] + 1 /\ content'[i][k] = "good")
    BY <1>1
  <2>3. ASSUME NEW k \in 1..Size PROVE Owed(i, k)'
    <3>0. k \in Chunk /\ content[i] \in [Chunk -> {"good", "bad", "none"}]
      BY StoreAssumption DEF Chunk
    <3>1. CASE content[i][k] = "good"
      BY <2>2, <3>0, <3>1 DEF Owed
    <3>2. CASE \E q \in Proc : Streams(q, i) /\ off[q] < k
      <4>1. PICK q \in Proc : Streams(q, i) /\ off[q] < k
        BY <3>2
      <4>2. CASE q = p
        <5>1. i = fd[p]
          BY <4>1, <4>2 DEF Streams
        <5>2. CASE k = off[p] + 1
          <6>1. content'[i][k] = "good"
            BY <1>1, <3>0, <5>1, <5>2
          <6> QED
            BY <6>1 DEF Owed
        <5>3. CASE k # off[p] + 1
          <6>1. off'[p] < k
            BY <1>1, <4>1, <4>2, <5>3
          <6> QED
            BY <1>3, <4>1, <4>2, <6>1 DEF Owed
        <5> QED
          BY <5>2, <5>3
      <4>3. CASE q # p
        <5>1. off'[q] = off[q]
          BY <1>1, <4>3
        <5> QED
          BY <1>3, <4>1, <5>1 DEF Owed
      <4> QED
        BY <4>2, <4>3
    <3> QED
      BY <2>1, <3>1, <3>2 DEF Owed
  <2>4. content'[i][Size + 1] = "none"
    <3>1. Size + 1 \in Chunk /\ Size + 1 # off[p] + 1
      BY <1>1, StoreAssumption DEF Chunk
    <3> QED
      BY <2>1, <2>2, <3>1
  <2> QED
    BY <2>3, <2>4
<1> QED
  BY <1>4, <1>5

(* A stream that ends has paid all it owed: without faults it was not cut short. *)
LEMMA EndKeepsRaceInv ==
    ASSUME Faults = {}, TypeOK, RaceInv, NEW p \in Proc, EndOfStream(p)
    PROVE  RaceInv'
<1> USE DEF TypeOK, RaceInv
<1>0. off[p] = Size
  <2>1. off[p] >= Size
    BY DEF EndOfStream
  <2>2. off[p] <= Size /\ off[p] \in Nat
    BY DEF ShortEnough
  <2>3. Size \in Nat
    BY StoreAssumption
  <2> QED
    BY ONLY <2>1, <2>2, <2>3
<1>1. /\ pc[p] = "stream" /\ off[p] = Size
      /\ pc'[p] \in {"commit", "discard"}
      /\ \A q \in Proc \ {p} : pc'[q] = pc[q] /\ fd'[q] = fd[q]
      /\ UNCHANGED <<content, tmp, blob, want, off, clean>>
  BY <1>0 DEF EndOfStream
<1>2. \A d \in Digest : \A i \in Inode : Named(i, d)' <=> Named(i, d)
  BY <1>1 DEF Named
<1>3. \A q \in Proc : \A i \in Inode : Streams(q, i)' <=> Streams(q, i) /\ q # p
  BY <1>1 DEF Streams
<1>4. ShortEnough'
  BY <1>1 DEF ShortEnough
<1>5. DamageIsOwed'
  <2>1. ASSUME NEW i \in Inode, NEW k \in 1..Size, Owed(i, k) PROVE Owed(i, k)'
    <3>1. CASE content[i][k] = "good"
      BY <1>1, <3>1 DEF Owed
    <3>2. CASE \E q \in Proc : Streams(q, i) /\ off[q] < k
      <4>1. PICK q \in Proc : Streams(q, i) /\ off[q] < k
        BY <3>2
      <4>2. q # p
        BY <1>1, <4>1, StoreAssumption
      <4> QED
        BY <1>1, <1>3, <4>1, <4>2 DEF Owed
    <3> QED
      BY <2>1, <3>1, <3>2 DEF Owed
  <2> QED
    BY <1>1, <1>2, <2>1 DEF DamageIsOwed
<1> QED
  BY <1>4, <1>5

LEMMA RaceInvStep ==
    ASSUME Faults = {}, TypeOK, NameInv, RaceInv, [Next]_vars
    PROVE  RaceInv'
<1> USE DEF TypeOK
<1>1. ASSUME NEW p \in Proc,
             \/ \E d \in Digest : Start(p, d)
             \/ Connect(p) \/ Recheck(p) \/ Drain(p) \/ OpenBlob(p) \/ Done(p) \/ Discard(p)
             \/ Commit(p)
      PROVE  RaceInv'
  <2>1. off[p] \in 0..Size
    BY StoreAssumption DEF RaceInv, ShortEnough
  <2>2. pc[p] # "stream" /\ pc'[p] # "stream"
    BY <1>1 DEF Start, Connect, Recheck, Drain, OpenBlob, Done, Discard, Commit, Goto, Exit, Asking
  <2>3. \A q \in Proc \ {p} : pc'[q] = pc[q] /\ fd'[q] = fd[q] /\ off'[q] = off[q]
    BY <1>1 DEF Start, Connect, Recheck, Drain, OpenBlob, Done, Discard, Commit, Goto, Exit
  <2>4. off'[p] \in 0..Size
    BY <1>1, <2>1, StoreAssumption
       DEF Start, Connect, Recheck, Drain, OpenBlob, Done, Discard, Commit, Goto, Exit
  <2>5. content' = content
    BY <1>1 DEF Start, Connect, Recheck, Drain, OpenBlob, Done, Discard, Commit, files
  <2>6. /\ \A d \in Digest : tmp'[d] \in {tmp[d], NoInode}
        /\ \A d \in Digest : blob'[d] \in {blob[d], tmp[d]}
    BY <1>1 DEF Start, Connect, Recheck, Drain, OpenBlob, Done, Discard, Commit, files
  <2>7. \A d \in Digest : \A i \in Inode : Named(i, d)' => Named(i, d)
    BY <2>6, StoreAssumption DEF Named
  <2> QED
    BY <2>2, <2>3, <2>4, <2>5, <2>7, QuietKeepsRaceInv
<1>2. ASSUME NEW p \in Proc, Cut(p) \/ Kill(p) PROVE FALSE
  BY <1>2 DEF Cut, Kill
<1>3. CASE UNCHANGED vars
  <2>1. \A i, d : Named(i, d)' = Named(i, d)
    BY <1>3 DEF Named, vars
  <2>2. \A i, k : Owed(i, k)' = Owed(i, k)
    BY <1>3 DEF Owed, Streams, vars
  <2> QED
    BY <1>3, <2>1, <2>2 DEF RaceInv, ShortEnough, DamageIsOwed, vars
<1> QED
  BY <1>1, <1>2, <1>3, CreateKeepsRaceInv, ReceiveKeepsRaceInv, EndKeepsRaceInv
     DEF Next, Download

LEMMA RaceInvHolds ==
    ASSUME Faults = {}
    PROVE  Spec => [](TypeOK /\ RaceInv)
<1>1. Init => RaceInv
  BY StoreAssumption DEF Init, RaceInv, ShortEnough, DamageIsOwed, Named
<1>2. TypeOK /\ NameInv /\ RaceInv /\ [Next]_vars => RaceInv'
  BY RaceInvStep
<1> QED
  BY <1>1, <1>2, NameInvHolds, PTL DEF Spec

(* The files of a blob nobody is streaming, and whoever has one of them open. *)
QuietBlobsWhole ==
    \A d \in Digest :
        Has(d) /\ (\A p \in Proc : pc[p] = "stream" => want[p] # d) => Whole(blob[d])

(* However many downloads race for one temporary name, serialized or not: if the
   network and the processes hold, the damage they do to each other's file is
   gone when the last one has written, so that a blob nobody is still writing
   holds its bytes (write_verified of store.rs). *)
THEOREM RaceLeavesBlobsWhole ==
    ASSUME Faults = {}
    PROVE  Spec => []QuietBlobsWhole
<1>1. TypeOK /\ NameInv /\ RaceInv => QuietBlobsWhole
  <2> SUFFICES ASSUME TypeOK, NameInv, RaceInv, NEW d \in Digest, Has(d),
                      \A p \in Proc : pc[p] = "stream" => want[p] # d
               PROVE  Whole(blob[d])
    BY DEF QuietBlobsWhole
  <2>1. blob[d] \in Inode /\ Named(blob[d], d)
    BY DEF Has, TypeOK, Named
  <2>2. ASSUME NEW k \in 1..Size PROVE content[blob[d]][k] = "good"
    <3>1. Owed(blob[d], k)
      BY <2>1 DEF RaceInv, DamageIsOwed
    <3>2. ASSUME NEW p \in Proc, Streams(p, blob[d]) PROVE FALSE
      BY <2>1, <3>2 DEF NameInv, StreamsOwn, Streams
    <3> QED
      BY <3>1, <3>2 DEF Owed
  <2>3. content[blob[d]][Size + 1] = "none"
    BY <2>1 DEF RaceInv, DamageIsOwed
  <2>4. content[blob[d]] = [k \in Chunk |-> content[blob[d]][k]]
    BY <2>1 DEF TypeOK
  <2>5. \A k \in Chunk : content[blob[d]][k] = Prefix(Size)[k]
    BY <2>2, <2>3, StoreAssumption DEF Prefix, Chunk
  <2>6. Prefix(Size) = [k \in Chunk |-> Prefix(Size)[k]]
    BY DEF Prefix
  <2> QED
    BY <2>4, <2>5, <2>6 DEF Whole
<1> QED
  BY <1>1, NameInvHolds, RaceInvHolds, PTL

(* A blob that is there stays there, whatever races and whatever fails: no step
   of the store removes a file with a blob name (store.rs has no remove_file on
   one). *)
THEOREM BlobsStay == Spec => [][\A d \in Digest : Has(d) => Has(d)']_vars
<1>1. TypeOK /\ [Next]_vars => [\A d \in Digest : Has(d) => Has(d)']_vars
  <2> SUFFICES ASSUME TypeOK, [Next]_vars PROVE \A d \in Digest : Has(d) => Has(d)'
    OBVIOUS
  <2>1. ASSUME NEW p \in Proc, Commit(p), NEW d \in Digest, Has(d) PROVE Has(d)'
    BY <2>1 DEF TypeOK, Commit, Has, files
  <2>2. ASSUME ~ \E p \in Proc : Commit(p) PROVE blob' = blob
    BY <2>2 DEF Next, Download, Start, Connect, Recheck, Drain, CreateTmp, Receive,
       EndOfStream, Discard, Cut, Kill, OpenBlob, Done, files, vars
  <2> QED
    BY <2>1, <2>2 DEF Has
<1> QED
  BY <1>1, TypeCorrect, PTL DEF Spec

(* How far a download is from its end. *)
Left(p) ==
    CASE pc[p] = "ask" -> Size + 6
      [] pc[p] = "check" -> Size + 5
      [] pc[p] = "create" -> Size + 4
      [] pc[p] = "stream" -> Size + 3 - off[p]
      [] pc[p] \in {"drain", "commit", "discard"} -> 1
      [] OTHER -> 0

(* A download never goes back, and no step of another process sets it back: each
   of its steps brings it nearer to its end, so that it has at most Size + 6 of
   them, whatever races and whatever fails. *)
THEOREM DownloadsAdvance ==
    Spec => [][\A p \in Proc :
                 Left(p) > 0 => \/ Left(p)' \in Nat /\ Left(p)' < Left(p)
                                \/ UNCHANGED <<pc[p], want[p], fd[p], off[p], clean[p]>>]_vars
<1>1. ASSUME TypeOK, [Next]_vars, NEW p \in Proc, Left(p) > 0
      PROVE  \/ Left(p)' \in Nat /\ Left(p)' < Left(p)
             \/ UNCHANGED <<pc[p], want[p], fd[p], off[p], clean[p]>>
  <2> USE <1>1 DEF TypeOK
  <2>1. pc[p] \notin {"idle", "ok", "reading"}
    BY <1>1 DEF Left
  <2>2. Left(p) \in Nat /\ off[p] \in 0..(Size + 1)
    BY <1>1, StoreAssumption DEF Left
  <2>3. CASE Download(p)
    <3>1. CASE Connect(p)
      BY <3>1, StoreAssumption DEF Connect, Goto, Left
    <3>2. CASE Recheck(p)
      BY <3>2, StoreAssumption DEF Recheck, Goto, Left
    <3>3. CASE Drain(p)
      BY <3>3, StoreAssumption DEF Drain, Goto, Left
    <3>4. CASE CreateTmp(p)
      <4>1. pc[p] = "create" /\ pc'[p] = "stream" /\ off'[p] = off[p]
        BY <3>4 DEF CreateTmp
      <4> QED
        BY <2>2, <4>1, StoreAssumption DEF Left
    <3>5. CASE Receive(p)
      <4>1. pc[p] = "stream" /\ pc'[p] = "stream" /\ off'[p] = off[p] + 1 /\ off[p] <= Size
        BY <3>5 DEF Receive
      <4> QED
        BY <2>2, <4>1, StoreAssumption DEF Left
    <3>6. CASE EndOfStream(p)
      <4>1. pc[p] = "stream" /\ pc'[p] \in {"commit", "discard"}
        BY <3>6 DEF EndOfStream
      <4>2. Left(p) = Size + 3 - off[p] /\ Left(p)' = 1
        BY <4>1 DEF Left
      <4> QED
        BY <2>2, <4>2, StoreAssumption
    <3>7. CASE Discard(p)
      BY <3>7, StoreAssumption DEF Discard, Exit, Left
    <3>8. CASE Commit(p)
      <4>1. pc[p] = "commit" /\ pc'[p] \in {"idle", "ok"}
        BY <3>8 DEF Commit, Goto, Exit
      <4> QED
        BY <4>1 DEF Left
    <3> QED
      BY <2>3, <3>1, <3>2, <3>3, <3>4, <3>5, <3>6, <3>7, <3>8 DEF Download
  <2>4. CASE Cut(p) \/ Kill(p)
    <3>1. pc'[p] = "idle"
      BY <2>4 DEF Cut, Kill, Exit
    <3>2. Left(p)' = 0
      BY <3>1 DEF Left
    <3> QED
      BY <1>1, <2>2, <3>2
  <2>5. ASSUME NEW q \in Proc \ {p},
               \/ \E d \in Digest : Start(q, d)
               \/ Connect(q) \/ Recheck(q) \/ Drain(q) \/ CreateTmp(q) \/ Receive(q)
               \/ EndOfStream(q) \/ Discard(q) \/ Commit(q)
               \/ Cut(q) \/ Kill(q) \/ OpenBlob(q) \/ Done(q)
        PROVE  UNCHANGED <<pc[p], want[p], fd[p], off[p], clean[p]>>
    BY <2>5 DEF Start, Connect, Recheck, Drain, CreateTmp, Receive, EndOfStream, Discard, Commit,
       Cut, Kill, OpenBlob, Done, Goto, Exit, files
  <2>6. CASE UNCHANGED vars
    BY <2>6 DEF vars
  <2>7. ASSUME (\E d \in Digest : Start(p, d)) \/ OpenBlob(p) \/ Done(p) PROVE FALSE
    BY <2>1, <2>7 DEF Start, OpenBlob, Done
  <2> QED
    BY <1>1, <2>3, <2>4, <2>5, <2>6, <2>7 DEF Next, Download
<1>2. TypeOK /\ [Next]_vars =>
        [\A p \in Proc :
           Left(p) > 0 => \/ Left(p)' \in Nat /\ Left(p)' < Left(p)
                          \/ UNCHANGED <<pc[p], want[p], fd[p], off[p], clean[p]>>]_vars
  BY <1>1
<1> QED
  BY <1>2, TypeCorrect, PTL DEF Spec

(* Without faults, what a download writes or is about to rename is there, or another
   has renamed it already, when the digest is a sha256; the store computes no other. *)
EndInv ==
    \A p \in Proc :
        /\ clean[p] = TRUE
        /\ want[p] \notin Sha512 =>
            /\ pc[p] # "discard"
            /\ pc[p] \in {"stream", "commit"} => tmp[want[p]] # NoInode \/ Has(want[p])
            /\ pc[p] = "drain" => Has(want[p])

LEMMA EndInvStep ==
    ASSUME Faults = {}, TypeOK, RaceInv, EndInv, [Next]_vars
    PROVE  EndInv'
<1> USE DEF TypeOK
<1>0. \A p \in Proc : want[p] \in Digest \/ pc[p] = "idle"
  OBVIOUS
<1>1. ASSUME NEW p \in Proc, \/ \E d \in Digest : Start(p, d)
                             \/ Connect(p) \/ Recheck(p) \/ Drain(p) \/ OpenBlob(p) \/ Done(p)
      PROVE  EndInv'
  <2>1. UNCHANGED <<tmp, blob>>
    BY <1>1 DEF Start, Connect, Recheck, Drain, OpenBlob, Done, files
  <2>2. /\ clean'[p] = TRUE /\ pc'[p] \notin {"discard", "stream", "commit"}
        /\ pc'[p] = "drain" => Has(want[p]) /\ want' = want
    BY <1>1 DEF Start, Connect, Recheck, Drain, OpenBlob, Done, Goto, Exit, EndInv, files
  <2>3. \A q \in Proc \ {p} : pc'[q] = pc[q] /\ want'[q] = want[q] /\ clean'[q] = clean[q]
    BY <1>1 DEF Start, Connect, Recheck, Drain, OpenBlob, Done, Goto, Exit
  <2> QED
    BY <2>1, <2>2, <2>3 DEF EndInv, Has
<1>2. ASSUME NEW p \in Proc, CreateTmp(p) PROVE EndInv'
  <2>1. PICK i \in Inode : tmp' = [tmp EXCEPT ![want[p]] = i]
    BY <1>2 DEF CreateTmp
  <2>2. /\ pc[p] = "create" /\ pc' = [pc EXCEPT ![p] = "stream"]
        /\ UNCHANGED <<blob, want, clean>>
    BY <1>2 DEF CreateTmp
  <2>3. \A d \in Digest : tmp[d] # NoInode => tmp'[d] # NoInode
    BY <2>1, StoreAssumption
  <2>4. tmp'[want[p]] # NoInode
    BY <1>0, <2>1, <2>2, StoreAssumption
  <2> QED
    BY <1>0, <2>2, <2>3, <2>4 DEF EndInv, Has
<1>3. ASSUME NEW p \in Proc, Receive(p) PROVE EndInv'
  <2>1. PICK c \in {"good", "bad"} :
          /\ c = "bad" => "corrupt" \in Faults
          /\ clean' = [clean EXCEPT ![p] = @ /\ c = "good"]
    BY <1>3, Zenon DEF Receive
  <2>2. clean' = [clean EXCEPT ![p] = @ /\ TRUE]
    BY <2>1
  <2>3. \A q \in Proc : clean'[q] = TRUE
    BY <2>2 DEF EndInv
  <2> QED
    BY <1>3, <2>3 DEF Receive, EndInv, Has
<1>4. ASSUME NEW p \in Proc, EndOfStream(p) PROVE EndInv'
  <2>1. off[p] >= Size /\ pc[p] = "stream"
    BY <1>4 DEF EndOfStream
  <2>2. off[p] <= Size /\ off[p] \in Nat
    BY DEF RaceInv, ShortEnough
  <2>3. Size \in Nat
    BY StoreAssumption
  <2>4. off[p] = Size
    BY ONLY <2>1, <2>2, <2>3
  <2>5. want[p] \notin Sha512 => Matches(p)
    BY <2>4 DEF Matches, EndInv
  <2>6. /\ pc' = [pc EXCEPT ![p] = IF Matches(p) THEN "commit" ELSE "discard"]
        /\ UNCHANGED <<tmp, blob, want, clean>>
    BY <1>4 DEF EndOfStream
  <2> QED
    BY <2>1, <2>5, <2>6 DEF EndInv, Has
<1>5. ASSUME NEW p \in Proc, Commit(p) PROVE EndInv'
  <2>1. CASE tmp[want[p]] = NoInode
    BY <1>5, <2>1 DEF Commit, Exit, EndInv, Has, files
  <2>2. CASE tmp[want[p]] # NoInode
    <3>1. /\ blob' = [blob EXCEPT ![want[p]] = tmp[want[p]]]
          /\ tmp' = [tmp EXCEPT ![want[p]] = NoInode]
          /\ pc' = [pc EXCEPT ![p] = "ok"] /\ want[p] \in Digest
          /\ UNCHANGED <<want, clean>>
      BY <1>5, <2>2 DEF Commit, Goto
    <3>2. ASSUME NEW d \in Digest, tmp[d] # NoInode \/ Has(d)
          PROVE  tmp'[d] # NoInode \/ Has(d)'
      BY <2>2, <3>1, <3>2 DEF Has
    <3>3. \A d \in Digest : Has(d) => Has(d)'
      BY <2>2, <3>1 DEF Has
    <3> QED
      BY <1>0, <3>1, <3>2, <3>3 DEF EndInv
  <2> QED
    BY <2>1, <2>2
<1>6. ASSUME NEW p \in Proc, Discard(p) PROVE EndInv'
  <2>1. /\ want[p] \in Sha512
        /\ tmp' = [tmp EXCEPT ![want[p]] = NoInode]
        /\ Exit(p) /\ UNCHANGED <<content, blob>>
    BY <1>6 DEF Discard, EndInv
  <2>2. \A q \in Proc \ {p} : /\ pc'[q] = pc[q] /\ want'[q] = want[q] /\ clean'[q] = clean[q]
                              /\ want[q] \notin Sha512 => tmp'[want[q]] = tmp[want[q]]
    BY <2>1 DEF Exit
  <2>3. pc'[p] = "idle" /\ clean'[p] = TRUE
    BY <2>1 DEF Exit
  <2> QED
    BY <2>1, <2>2, <2>3 DEF EndInv, Has
<1>8. ASSUME NEW p \in Proc, Cut(p) \/ Kill(p) PROVE FALSE
  BY <1>8 DEF Cut, Kill
<1>7. CASE UNCHANGED vars
  BY <1>7 DEF vars, EndInv, Has
<1> QED
  BY <1>1, <1>2, <1>3, <1>4, <1>5, <1>6, <1>7, <1>8 DEF Next, Download

(* The same race seen from its losers: one that finds its temporary file renamed by
   another ends with an error, but no download of a sha256 ends, well or with an
   error, before the blob is there. *)
THEOREM DownloadsLeaveTheBlob ==
    ASSUME Faults = {}
    PROVE  Spec => [][\A p \in Proc : \A d \in Digest \ Sha512 :
                        Left(p) > 0 /\ want[p] = d /\ Left(p)' = 0 => Has(d)']_vars
<1>1. Init => EndInv
  BY DEF Init, EndInv
<1>2. TypeOK /\ RaceInv /\ EndInv /\ [Next]_vars => EndInv'
  BY EndInvStep
<1>3. ASSUME TypeOK, RaceInv, EndInv, [Next]_vars, NEW p \in Proc,
             NEW d \in Digest \ Sha512, Left(p) > 0, want[p] = d, Left(p)' = 0
      PROVE  Has(d)'
  <2> USE <1>3 DEF TypeOK
  <2>1. pc[p] \notin {"idle", "ok", "reading"}
    BY DEF Left
  <2>2. Left(p) \in Nat /\ off[p] \in 0..Size
    BY StoreAssumption DEF Left, RaceInv, ShortEnough
  <2>3. Left(p)' # Left(p)
    BY <2>2
  <2>4. CASE Drain(p)
    BY <2>4 DEF Drain, Goto, EndInv, Has, files
  <2>5. CASE Commit(p)
    <3>1. CASE tmp[want[p]] = NoInode
      <4>1. Has(want[p]) /\ blob' = blob
        BY <2>5, <3>1 DEF Commit, EndInv, files
      <4> QED
        BY <4>1 DEF Has
    <3>2. CASE tmp[want[p]] # NoInode
      BY <2>5, <3>2 DEF Commit, Goto, Has
    <3> QED
      BY <3>1, <3>2
  <2>6. CASE Connect(p) \/ Recheck(p) \/ CreateTmp(p) \/ Receive(p) \/ EndOfStream(p)
    <3>1. pc'[p] \in {"check", "drain", "create", "stream", "commit", "discard"}
      BY <2>6 DEF Connect, Recheck, CreateTmp, Receive, EndOfStream, Goto
    <3>2. off'[p] <= Size /\ off'[p] \in Nat
      BY <2>2, <2>6, StoreAssumption DEF Connect, Recheck, CreateTmp, Receive, EndOfStream, Goto
    <3>3. Left(p)' > 0
      BY <3>1, <3>2, StoreAssumption DEF Left
    <3> QED
      BY <3>3
  <2>7. ASSUME NEW q \in Proc, Cut(q) \/ Kill(q) PROVE FALSE
    BY <2>7 DEF Cut, Kill
  <2>11. ~Discard(p)
    BY DEF Discard, EndInv
  <2>8. ASSUME (\E e \in Digest : Start(p, e)) \/ OpenBlob(p) \/ Done(p) PROVE FALSE
    BY <2>1, <2>8 DEF Start, OpenBlob, Done
  <2>9. ASSUME NEW q \in Proc \ {p},
               \/ \E e \in Digest : Start(q, e)
               \/ Connect(q) \/ Recheck(q) \/ Drain(q) \/ CreateTmp(q) \/ Receive(q)
               \/ EndOfStream(q) \/ Discard(q) \/ Commit(q) \/ OpenBlob(q) \/ Done(q)
        PROVE  FALSE
    <3>1. pc'[p] = pc[p] /\ off'[p] = off[p]
      BY <2>9 DEF Start, Connect, Recheck, Drain, CreateTmp, Receive, EndOfStream, Discard,
         Commit, OpenBlob, Done, Goto, Exit
    <3> QED
      BY <2>3, <3>1 DEF Left
  <2>10. ~ UNCHANGED vars
    BY <2>3 DEF vars, Left
  <2> QED
    BY <2>4, <2>5, <2>6, <2>7, <2>8, <2>9, <2>10, <2>11 DEF Next, Download
<1>4. TypeOK /\ RaceInv /\ EndInv /\ [Next]_vars =>
        [\A p \in Proc : \A d \in Digest \ Sha512 :
           Left(p) > 0 /\ want[p] = d /\ Left(p)' = 0 => Has(d)']_vars
  BY <1>3
<1> QED
  BY <1>1, <1>2, <1>4, RaceInvHolds, PTL DEF Spec
================================================================================
