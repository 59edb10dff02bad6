------------------------------ MODULE ContentStore ------------------------------
(***************************************************************************)
(* The content-addressable store of oci-core/src/store.rs as several       *)
(* wwn-oci processes use it through download_blob (lib.rs) on one root:    *)
(* the `has` fast path, the stream into the shared temporary name, the     *)
(* sha256 computed over what was READ, the comparison and the rename.      *)
(*                                                                         *)
(* A file is an inode: tmp and blob are the directory entries              *)
(* <hex>.tmp-download and <hex>, and a process that has a file open keeps  *)
(* writing to its inode after the entry was renamed.  The content of a     *)
(* blob is Size chunks, and a file has room for one more, the excess of a  *)
(* stream that is too long.  A chunk is "good" when it is the chunk of the *)
(* blob the file is named for, "bad" when it is anything else, "none" when *)
(* it was never written (past the end, or a hole).                         *)
(***************************************************************************)
EXTENDS Naturals

CONSTANTS
    Proc,        \* the wwn-oci processes that share the store root
    Digest,      \* the digests they download
    Sha512,      \* those whose algorithm is sha512
    Inode,       \* enough inodes: one per process and two per digest
    Size,        \* chunks per blob
    Serialized,  \* TRUE: something outside keeps writers of one blob apart
    Faults,      \* what may go wrong: "cut", "corrupt", "kill"
    NoDigest, NoInode

ASSUME StoreAssumption ==
    /\ Sha512 \subseteq Digest
    /\ Size \in Nat
    /\ Serialized \in BOOLEAN
    /\ Faults \subseteq {"cut", "corrupt", "kill"}
    /\ NoDigest \notin Digest
    /\ NoInode \notin Inode

VARIABLES
    content,  \* [Inode -> chunks]
    tmp,      \* [Digest -> inode behind <hex>.tmp-download]
    blob,     \* [Digest -> inode behind <hex>]
    pc,       \* where each process stands in download_blob
    want,     \* the digest it is downloading
    fd,       \* the inode it has open
    off,      \* chunks read from the network and written so far
    clean     \* whether the chunks hashed so far are those of the blob

files  == <<content, tmp, blob>>
locals == <<pc, want, fd, off, clean>>
vars   == <<content, tmp, blob, pc, want, fd, off, clean>>

Chunk   == 1..(Size + 1)
Writing == {"stream", "commit", "discard"}
Asking  == {"ask", "check", "create", "drain"}
PC      == {"idle", "ok", "reading"} \cup Asking \cup Writing

(* A file that holds the first k chunks of the blob and nothing else. *)
Prefix(k) == [n \in Chunk |-> IF n <= k THEN "good" ELSE "none"]
Blank     == Prefix(0)
Whole(i)  == content[i] = Prefix(Size)
Has(d)    == blob[d] # NoInode

(* An inode no directory entry and no open file refers to. *)
Free(i) ==
    /\ \A d \in Digest : tmp[d] # i /\ blob[d] # i
    /\ \A p \in Proc : fd[p] # i

--------------------------------------------------------------------------------
TypeOK ==
    /\ content \in [Inode -> [Chunk -> {"good", "bad", "none"}]]
    /\ tmp \in [Digest -> Inode \cup {NoInode}]
    /\ blob \in [Digest -> Inode \cup {NoInode}]
    /\ pc \in [Proc -> PC]
    /\ want \in [Proc -> Digest \cup {NoDigest}]
    /\ fd \in [Proc -> Inode \cup {NoInode}]
    /\ off \in [Proc -> 0..(Size + 1)]
    /\ clean \in [Proc -> BOOLEAN]
    /\ \A p \in Proc : pc[p] # "idle" => want[p] \in Digest

Init ==
    /\ content = [i \in Inode |-> Blank]
    /\ tmp = [d \in Digest |-> NoInode]
    /\ blob = [d \in Digest |-> NoInode]
    /\ pc = [p \in Proc |-> "idle"]
    /\ want = [p \in Proc |-> NoDigest]
    /\ fd = [p \in Proc |-> NoInode]
    /\ off = [p \in Proc |-> 0]
    /\ clean = [p \in Proc |-> TRUE]

(* The process leaves download_blob: its files are closed, nothing is undone. *)
Exit(p) ==
    /\ pc' = [pc EXCEPT ![p] = "idle"]
    /\ want' = [want EXCEPT ![p] = NoDigest]
    /\ fd' = [fd EXCEPT ![p] = NoInode]
    /\ off' = [off EXCEPT ![p] = 0]
    /\ clean' = [clean EXCEPT ![p] = TRUE]

Goto(p, at) ==
    /\ pc' = [pc EXCEPT ![p] = at]
    /\ UNCHANGED <<want, fd, off, clean>>

--------------------------------------------------------------------------------
(* download_blob is called: an Ok at once when the blob file is there. *)
Start(p, d) ==
    /\ pc[p] = "idle"
    /\ want' = [want EXCEPT ![p] = d]
    /\ pc' = [pc EXCEPT ![p] = IF Has(d) THEN "ok" ELSE "ask"]
    /\ UNCHANGED <<content, tmp, blob, fd, off, clean>>

(* blob_reader: the registry answered and the body can be read. *)
Connect(p) ==
    /\ pc[p] = "ask"
    /\ Goto(p, "check")
    /\ UNCHANGED files

(* write_verified asks again, after the request: another process may have
   stored the blob meanwhile. *)
Recheck(p) ==
    /\ pc[p] = "check"
    /\ Goto(p, IF Has(want[p]) THEN "drain" ELSE "create")
    /\ UNCHANGED files

(* The body is read to its end and thrown away. *)
Drain(p) ==
    /\ pc[p] = "drain"
    /\ Goto(p, "ok")
    /\ UNCHANGED files

(* The deployment's promise, not the code's: one writer per blob. *)
NoOtherWriter(p) ==
    \A q \in Proc \ {p} : ~(pc[q] \in Writing /\ want[q] = want[p])

(* Mutant: the file is opened without truncation. *)
KeepOld(i) == content[i]

(* File::create on the temporary name: a file left there, by a killed or a
   running process, is the same inode emptied. *)
Emptied(i) == Blank

CreateTmp(p) ==
    LET d == want[p] IN
    /\ pc[p] = "create"
    /\ Serialized => NoOtherWriter(p)
    /\ \E i \in Inode :
        /\ IF tmp[d] = NoInode THEN Free(i) ELSE i = tmp[d]
        /\ content' = [content EXCEPT ![i] = Emptied(i)]
        /\ tmp' = [tmp EXCEPT ![d] = i]
        /\ fd' = [fd EXCEPT ![p] = i]
    /\ pc' = [pc EXCEPT ![p] = "stream"]
    /\ UNCHANGED <<blob, want, off, clean>>

(* Mutant: the end of the body is not noticed. *)
ReceiveAnyway(p) ==
    /\ pc[p] = "stream"
    /\ off' = [off EXCEPT ![p] = @ + 1]
    /\ UNCHANGED <<content, clean, tmp, blob, pc, want, fd>>

(* One turn of io::copy: a chunk is read, hashed, and written at the process's
   own offset of the open file.  A corrupt body may also be longer. *)
Receive(p) ==
    /\ pc[p] = "stream"
    /\ off[p] <= Size
    /\ \E c \in {"good", "bad"} :
        /\ c = "good" => off[p] < Size
        /\ c = "bad" => "corrupt" \in Faults
        /\ content' = [content EXCEPT ![fd[p]][off[p] + 1] = c]
        /\ clean' = [clean EXCEPT ![p] = @ /\ c = "good"]
    /\ off' = [off EXCEPT ![p] = @ + 1]
    /\ UNCHANGED <<tmp, blob, pc, want, fd>>

(* Mutant: the length is compared, not the hash. *)
MatchesUnread(p) == off[p] = Size

(* The hash of everything read is the expected digest.  It is always a sha256,
   whatever the algorithm of the expected one. *)
Matches(p) == clean[p] /\ off[p] = Size /\ want[p] \notin Sha512

(* The body ended, or was cut short: the temporary file is closed and the
   digests are compared. *)
EndOfStream(p) ==
    /\ pc[p] = "stream"
    /\ off[p] >= Size \/ "cut" \in Faults
    /\ pc' = [pc EXCEPT ![p] = IF Matches(p) THEN "commit" ELSE "discard"]
    /\ fd' = [fd EXCEPT ![p] = NoInode]
    /\ UNCHANGED <<content, tmp, blob, want, off, clean>>

(* DigestMismatch: whatever is behind the temporary name is removed. *)
Discard(p) ==
    /\ pc[p] = "discard"
    /\ tmp' = [tmp EXCEPT ![want[p]] = NoInode]
    /\ Exit(p)
    /\ UNCHANGED <<content, blob>>

(* Mutants: a link where the rename is, so that the temporary name stays; a
   failed rename that also removes the blob. *)
CommitLink(p) ==
    /\ pc[p] = "commit"
    /\ blob' = [blob EXCEPT ![want[p]] = tmp[want[p]]]
    /\ Goto(p, "ok")
    /\ UNCHANGED <<content, tmp>>

CommitOrRemove(p) ==
    LET d == want[p] IN
    /\ pc[p] = "commit"
    /\ blob' = [blob EXCEPT ![d] = tmp[d]]
    /\ tmp' = [tmp EXCEPT ![d] = NoInode]
    /\ IF tmp[d] = NoInode THEN Exit(p) ELSE Goto(p, "ok")
    /\ UNCHANGED content

(* The rename: an error when the temporary name is gone, otherwise whatever
   is behind it becomes the blob. *)
Commit(p) ==
    LET d == want[p] IN
    /\ pc[p] = "commit"
    /\ IF tmp[d] = NoInode
         THEN Exit(p) /\ UNCHANGED files
         ELSE /\ blob' = [blob EXCEPT ![d] = tmp[d]]
              /\ tmp' = [tmp EXCEPT ![d] = NoInode]
              /\ Goto(p, "ok")
              /\ UNCHANGED content

(* The network fails while the process is waiting for it; a partly written
   temporary file stays behind. *)
Cut(p) ==
    /\ "cut" \in Faults
    /\ pc[p] \in {"ask", "drain", "stream"}
    /\ Exit(p)
    /\ UNCHANGED files

(* The process is killed. *)
Kill(p) ==
    /\ "kill" \in Faults
    /\ pc[p] # "idle"
    /\ Exit(p)
    /\ UNCHANGED files

(* store.read: the caller opens the blob it was told it has, and reads it. *)
OpenBlob(p) ==
    /\ pc[p] = "ok"
    /\ pc' = [pc EXCEPT ![p] = "reading"]
    /\ fd' = [fd EXCEPT ![p] = blob[want[p]]]
    /\ UNCHANGED <<content, tmp, blob, want, off, clean>>

Done(p) ==
    /\ pc[p] \in {"ok", "reading"}
    /\ Exit(p)
    /\ UNCHANGED files

Download(p) ==
    \/ Connect(p) \/ Recheck(p) \/ Drain(p) \/ CreateTmp(p) \/ Receive(p)
    \/ EndOfStream(p) \/ Discard(p) \/ Commit(p)

Next ==
    \E p \in Proc :
        \/ \E d \in Digest : Start(p, d)
        \/ Download(p)
        \/ Cut(p) \/ Kill(p)
        \/ OpenBlob(p) \/ Done(p)

Spec == Init /\ [][Next]_vars

(* A download that was begun is carried on: no step of it waits for another
   process (as long as Serialized is FALSE) and the network answers. *)
FairSpec == Spec /\ \A p \in Proc : WF_vars(Download(p))

--------------------------------------------------------------------------------
(* Every file under its blob name holds the blob: content is verified before
   it is committed and the commit is atomic (store.rs, module comment). *)
BlobsVerified == \A d \in Digest : Has(d) => Whole(blob[d])

(* Whoever has a blob open reads the verified bytes, whatever the others do:
   store.read opens files that are never written again. *)
ReadersSeeVerified ==
    \A p \in Proc : pc[p] = "reading" => fd[p] # NoInode /\ Whole(fd[p])

(* Whoever was told that it has a blob finds a file under the blob's name when it
   opens it, whatever raced or failed meanwhile: store.read does not miss. *)
HoldersFindTheBlob ==
    \A p \in Proc : pc[p] \in {"ok", "reading", "drain"} => Has(want[p])

(* A committed file is never written in place: its inode may be replaced by
   another rename, but its bytes do not change under a reader. *)
CommittedNeverRewritten ==
    [][\A d \in Digest : Has(d) => content'[blob[d]] = content[blob[d]]]_vars

(* Downloads of one blob that race for the temporary name may fail, and the
   blob may be damaged for a while, but without faults a blob named by a sha256
   ends up whole and stays whole. *)
RaceConverges ==
    \A p \in Proc : \A d \in Digest \ Sha512 :
        (pc[p] = "ask" /\ want[p] = d) ~> [](Has(d) /\ Whole(blob[d]))

(* The store of files implements the abstract store: a blob is named when its
   file is there and stored when that file is whole.  A download has lost the
   temporary file when it writes to another one, or one that does not hold what
   it wrote, or when it is about to rename one that is not whole. *)
Disturbed(p) ==
    LET t == tmp[want[p]] IN
    \/ /\ pc[p] = "stream"
       /\ fd[p] # t \/ (clean[p] /\ content[fd[p]] # Prefix(off[p]))
    \/ /\ pc[p] = "commit"
       /\ t = NoInode \/ ~Whole(t)

Phase(p) ==
    CASE pc[p] = "idle" -> "idle"
      [] pc[p] \in {"ok", "reading"} -> "holding"
      [] OTHER -> IF Disturbed(p) THEN "racing" ELSE "fetching"

Present == {d \in Digest : Has(d)}
Stored  == {d \in Digest : Has(d) /\ Whole(blob[d])}
Client  == [p \in Proc |-> Phase(p)]

Cas == INSTANCE BlobCas WITH
         OneWriter <- Serialized, named <- Present, stored <- Stored, client <- Client

CasSpec == Cas!CasSpec
================================================================================
