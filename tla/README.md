# wwn-containers: TLA+ models, TLC runs and TLAPS proofs

This directory models the parts of wwn-containers whose correctness depends on
the order of steps or on small syntax: several `wwn-oci` processes on one root,
downloads that are cut or killed, images that are pulled, moved and removed, requests that
are refused and asked again, layers that fail half way, references and challenges as they
are spelled, launchers that build what they launch, containers that are created, run
and deleted, hashes that are fetched in parallel. Paths below are relative to `src/dependencies/containers/` unless they start with `src/`.

## The system

| Component | State it keeps | Operations | What makes it correct |
|---|---|---|---|
| Content store, `oci-core/src/store.rs`, `digest.rs` | one file per blob, `blobs/<alg>/<hex>`, and one temporary file per blob, `<hex>.tmp-download` | `has`, `write_verified`, `read`, `read_bytes` | a file under a blob name holds exactly that blob, at every moment and for every reader |
| Image commands, `main.rs`, `lib.rs`, `catalog.rs` | `images/*.json`, `rootfs/<digest>/` with its `.unpacked` marker | `pull`, `rmi`, `images`, `inspect`, `resolve` | the catalog names only blobs that are there; a marked rootfs is whole; a killed command never blocks the next |
| Registry client, `registry.rs` | one cached token | `get_manifest`, `get_manifest_by_digest`, `blob_reader`, the 401 challenge | the token endpoint is asked for what the challenge says; a token that does not do is replaced; the client stops after one retry |
| Manifest resolution, `lib.rs`, `spec.rs` | none | `pull`, `select_platform` | the manifest matches the pin and the platform |
| Layer unpacking, `unpack.rs` | the rootfs tree | `apply_layer`, `apply_tar` | the tree is the overlay of the layers |
| Reference parsing, `reference.rs`, `catalog.rs`, `cli/container-cli.nix` | none of its own; it names the files of the catalog | `parse`, `canonicalize`, the shell normalization | one image has one canonical name, which parses to itself; `container run` means what `container pull` has pulled |
| Container CLI, `cli/container-cli.nix` | none | dispatch to `wwn-oci` and `wwn-containerd-run` | the right program gets the right reference |
| macOS bridge launcher, `macos/containerd-bridge.nix`, and `macos/apple-container.nix` | a source tree, a build directory, a signed binary in a cache | first-run compile, sign, install, exec | only a whole binary is executed, signed where it has to be; a first run that dies blocks nothing |
| `wwn-containerd`, `macos/Sources/.../main.swift` | a VM, a container in it, a rootfs image | `run` with its deferred clean-up | a container is deleted by its own run and no other; the terminal is given back; the exit code is the guest's |
| Guest module, `container-in-vm/guest-module.nix` | two systemd units | start order, restart policies | the container never runs without the compositor |
| Android runner, `android/proot-runner.nix` | none | one exec | - |
| Lock script, `src/scripts/update-apple-container-swiftpm2nix.sh` | temporary hash files, two outputs | six parallel prefetches, merge | the pool is bounded; the lock is of one revision, and lacks only what failed |
| Capability matrix, `src/capabilities.nix` | constant data | assertions at evaluation | the data satisfies them |

How they interact. The CLI runs `wwn-oci`, which calls the registry client for
the manifest and for each blob, streams a blob through the hasher into the
store, unpacks the stored layers into a rootfs and saves a catalog entry last.
On macOS the CLI's `run` goes another way: it fills in the registry of the reference and
starts the bridge launcher, which builds `wwn-containerd` when there is none and becomes it;
that pulls and runs the image by Apple's Containerization framework. The guest module reads a
rootfs that `wwn-oci` unpacked. The processes share
nothing but the file system (and the framework's containers), and no component takes a
lock: every interaction is a file that is there, absent, half written or replaced.

What is hard here: two processes that write one file name; a file that is
asked for before a request and used after it; a process that dies between two
file operations, so that the next finds a state nobody wrote a test for; a
directory shared by everything that has the same digest; a save that truncates
before it writes; defaults that are filled in by two programs in two languages; a scanner
that must not be misled by commas inside quotes; deferred clean-up that depends on where it
was deferred; background jobs whose status nobody asks for.

## The modules

**`BlobCas`** is what the image commands can expect of the store: the digests that have a file
under their name (`named`), those whose file holds the blob (`stored`), and, per process, whether
it is fetching a blob with the temporary file to itself, racing others for that file, or holding the
blob. A name stays. A download that a rival disturbed may put a damaged file under the name, damage
the one that is there, or make it whole (`Race`, `Store`); with `OneWriter` there are no rivals, and
what is stored stays stored.

**`ContentStore`** is the store as the code has it. Names point to inodes
(`tmp`, `blob`), inodes hold sequences of chunks (`content`), each process has a
handle (`fd`), a position in the stream (`off`) and what its hasher has seen
(`clean`). A file name and the file it names are kept apart because that is
where the code's behaviour is decided: `File::create` empties the inode that the
name points to, also under another process that writes to it; `rename` moves a
name, and a reader keeps its inode. A blob is `Size` chunks; a chunk out of
place or the extra chunk `Size + 1` stands for wrong bytes.

| Action | Code |
|---|---|
| `Start`, `Connect`, `Recheck`, `Drain` | `download_blob` (`lib.rs` 161-173): `has`, the request, `has` again inside `write_verified` and the drain of the reader |
| `CreateTmp` | `File::create` of the temporary name (`store.rs` 47-54) |
| `Receive`, `Cut` | `copy_verifying` through `Sha256Reader` (`digest.rs` 68-102): a chunk that may be wrong or too much, or an error of the connection |
| `EndOfStream`, `Discard`, `Commit` | the comparison of digests, the removal of the temporary file, the rename (`store.rs` 55-70) |
| `OpenBlob`, `Done` | `read` / `read_bytes`, the end of the download |
| `Kill` | the process dies in any state; its temporary file stays |

**`Images`** is `pull` and `rmi` (`main.rs` 90-192, `catalog.rs`) over a
`BlobCas` store, races included. A process is a command; a rootfs directory holds one item per
unpacked layer and the item `Marker` for `.unpacked`; an entry file has a size,
because an entry written over a longer one leaves the tail of the longer one
behind and then no longer parses. `Published[r]` is what the registry may
answer for a reference, so a tag may move between two pulls. `Root` has the spellings of
the one root directory, of which an entry records the one it was saved under.

| Action | Code |
|---|---|
| `StartPull`, `RequestBlob`, `BlobComes`, `BlobArrives`, `NextBlob`, `FetchFails` | `pull` of `lib.rs` 126-136: the config, which is read and parsed and may be found damaged, then the layers in order; the first error ends the command |
| `Guard`, `Clean`, `Wipe`, `RemoveDir` | the `.unpacked` guard and `remove_dir_all` (`main.rs` 105-115), one item at a time |
| `ApplyLayer`, `WriteMarker` | the layers in order, always as gzip, so that one that is no gzip stream fails and a damaged one may; then the marker into a directory that has to exist (`main.rs` 116-125) |
| `OpenEntry`, `WriteEntry`, `WriteLost` | `fs::write` of the entry (`catalog.rs` 73): truncate, then write, possibly into a file an `rmi` has unlinked |
| `StartRmi`, `ReadEntry`, `CheckRootfs`, `Wipe`, `RemoveDir`, `RemoveEntry` | `remove` (`catalog.rs` 109-124): the entry is read, and fails the command when it does not parse; the rootfs goes first, if it lies under the root as it is spelled here, then the entry |
| `Fail`, `Kill` | an error of the file system ends the command; a killed command stops where it is |

`images`, `inspect` and `resolve` change nothing; what they could read, an
entry in the middle of a save, is the subject of `SavedReadable`.

**`Registry`** is what one pull asks of a registry. A document is its own digest: an
image manifest is a model value, an index the sequence of its descriptors. So
"the bytes hash to the digest" is an equation, and a damaged body is simply
another document. What the `Docker-Content-Digest` header says is separate from both: nothing,
the right digest, or, where `site` is not `honest`, any of `Misnamed`. `cached` and `bearer` say what the token held is good for:
nothing (`none`), too little (`weak`), `good`, or no longer (`expired`). `site` is the
registry the pull meets: open, public (any token will do) or private; whether a
token outlives the retry it was asked for; whether the user has credentials.

| Action or operator | Code |
|---|---|
| `Begin`, `Done`, `Stop` | `pull` with a client of its own (`lib.rs` 99-110), its return, its errors |
| `Presented`, `Challenged`, `TokenArrives`, `Refused` | `try_get`, `authorized_get`, `obtain_token` (`registry.rs` 114-174): the token sent, the first 401, the token endpoint, the second 401 |
| `TopArrives`, `Verified`, `Headers`, `Recorded` | `get_manifest` (`registry.rs` 52-84), which hashes the bytes for a pin and takes the digest from the header, and what `pull` makes of its media type (`lib.rs` 110-123) |
| `SelectPlatform`, `Fits`, `Matches` | `select_platform` and `TargetPlatform::matches` |
| `ChildArrives` | `get_manifest_by_digest`, parsed as an image manifest |
| `BlobArrives`, `BlobInStore` | `blob_reader` or a blob the store has |
| `Expire`, `Accepted` | the registry's side |

**`Overlay`** says what layers make of a tree, by the rules of the OCI image
specification: a node lies over what was below, a whiteout hides what the layers
below left and never what its own layer put there. Every node remembers its
layer, which the code's tree does not need to and the rules do.

**`Unpack`** is `apply_layer` (`unpack.rs`), entry by entry and inside an entry step by step along
its path. `safe_join` judges the path as it is spelled; what `create_dir_all`, `remove_path`,
`read_dir` and `unpack` are given is then walked by the kernel, which follows symbolic links on the
way, also to places outside the rootfs. A link is a node whose kind is the place it points to;
`walk` is where the walk stands (`at`), where it is going (`goal`), what of that must exist already
because a link said so (`sure`), and how many links it has followed (`hops`). `Grafted` says which
place has the rest of a path under the target of a link.

| Action | Code |
|---|---|
| `StartLayer`, `EndLayer` | the choice of the decompressor, `create_dir_all` of the rootfs, the end of the archive (`unpack.rs` 23-43, 83) |
| `StartEntry` | the path of an entry and `safe_join` (48-70) |
| `Enter`, `Follow`, `MakeDir`, `DeadEnd` | the walk: through a directory, through a link, into a directory that is made (71-73), or against something that is none |
| `Remove`, `Clear` | the two whiteouts: a path with all that is in it, links as links; what is in a directory (59-68, 115-132) |
| `PutDir`, `Put`, `HardLink` | the removal of what is in the place of anything but a directory, and `Entry::unpack` (77-81) |
| `Fail`, `Restart` | an error of `?`, and `main.rs` 112-115, which throws the rootfs away |

It implements `Overlay`, with a failed rootfs mapped to an empty one, but for two kinds of steps,
which the code takes otherwise and `OverlaySteps` names: a whiteout that comes after what its own
layer put in its scope (`Late`), and a step of a walk that has followed a link (`Detour`). But for
these, `Laid`, the step that ends an entry is the overlay's own step for that entry, at the path the
entry spells. Modes, times and extended attributes are left out, and so is what a hard link is made to.

**`Reference`** (with `Strings`, what it and `Challenge` use of Rust's `str`) is
`Reference::parse` part by part over sequences of tokens: separators, the words the code knows,
other words with and without a dot, hexadecimal words. `ManifestUrl` is where the
registry client then looks, so "the same image" means "asked for at the same place",
and the state is the catalog with its files named by `canonicalize`.

| Action or operator | Code |
|---|---|
| `NameAndTag`, `DigestOf`, `IsHost`, `RegistryRaw`, `Remainder`, `Tagged`, `Registry`, `Repository`, `TagOf`, `Parses` | `Reference::parse` (`reference.rs` 29-81), in its order: digest, registry, tag, defaults, errors |
| `ManifestUrl`, `Scheme` | `base_url`, `manifest_ref` (`reference.rs` 86-96) |
| `DigestParses` | `Digest::parse` (`digest.rs` 18-36) |
| `Canonical`, `Found`, `Save` | `canonicalize`, `find`, `save` (`catalog.rs` 51-84) |
| `Pull`, `Rmi` | the catalog side of the two commands |
| `Normalize` | the shorthand heuristic of `container run` (`container-cli.nix` 98-111) |

**`Challenge`** is `parse_bearer_challenge`, `split_challenge_params` and the request of
`obtain_token` (`registry.rs` 148-252). A challenge is given as parameters, spelled out with
gaps, quotes and separators (`Spelled`), and read back a character at a time; `login`
is the text `user:password` as bytes.

| Action or operator | Code |
|---|---|
| `Quote`, `EndParam`, `Keep`, `EndText` | the branches of the loop of `split_challenge_params` (`registry.rs` 207-222) and what follows it |
| `Read`, `Key`, `Value` | the loop over the parts (`registry.rs` 188-198) |
| `Ask`, `Base64`, `Group` | the query and the `Authorization` of `obtain_token`, `base64_encode` |

**`Launcher`** is the first-run cache of the two macOS launchers, file by file: the build
product, `$BIN.tmp` and `$BIN` are each absent, incomplete, whole or signed.
**`ContainerRun`** extends it with what a launch is afterwards: the Swift program, or Apple's
CLI. A launch has its terminal; `box` is what the framework has stored under an id.

| Action | Code |
|---|---|
| `Begin` | the user, through `container-cli.nix` 93-129 |
| `CheckBin`, `Stage`, `Compile`, `Link`, `Copy`, `Copied`, `Sign`, `Install`, `Exec` | `containerd-bridge.nix` 40-51 and `apple-container.nix` 66-97 |
| `CommandFails` | `set -e` in either, at any command |
| `Manager`, `SetRaw`, `Create`, `Boot`, `GuestExits`, `Stop` | `Run.run` (`main.swift` 90-168) up to the exit code; `Boot` is `create` and `start` of the container |
| `Throw`, `Delete`, `Reset` | an error at any `try`, and the two defers in reverse order (`main.swift` 128, 152); `tryReset` may fail and tells nobody |
| `OtherEnds`, `Kill` | Apple's CLI, a signal |

**`LockUpdate`** is `src/scripts/update-apple-container-swiftpm2nix.sh`: the pins still to be
read, the jobs in the background, the hash files of the update, the two outputs.

| Action | Code |
|---|---|
| `Start` | `mktemp`, `curl` and the list of pins (lines 13-54) |
| `Spawn`, `Room`, `Full` | a background job per pin, and the inner loop with `jobs` and `wait -n` (67-73) |
| `Fetched`, `Fails` | `prefetch_one` (55-65) |
| `NoMore`, `Wait`, `WriteNix`, `CopyState`, `Exit` | the bare `wait` and the two outputs, one after the other, the trap (74-96, 17) |
| `Kill` | `set -e`, or a signal |

**How the modules compose.** `Images` uses `BlobCas` by conjoining its actions
(`Cas!Fetch`, `Cas!Store`, ...). `ContentStore` implements `BlobCas` with `named` and `stored`
mapped to the digests that have a file and those whose file is whole, and `client` to the state of
each process, which races when it writes to another file than the one under the temporary name, or
finds in it what it did not write (`Disturbed`); `CasSpec` states it, for downloads that overlap as
well, and `OneWriter` is `Serialized`. So what `Images` shows applies to commands whose downloads
of one blob overlap; it has to say what then becomes of the damaged files. `Registry` and
`Unpack` look inside two steps of `Images`: `StartPull` and the fetches are the
pull of `Registry` that ends well (`FetchFails` the one that does not), `ApplyLayer`
is a layer of `Unpack` from `StartLayer` to `EndLayer` or to a failure. `Challenge` looks inside
`TokenArrives` of `Registry`: there the token endpoint is asked, here with what. The
references of `Images` are the canonical names of `Reference`, whose properties are the reason why
`Images` may take a reference for the name of its entry. `ContainerRun` extends `Launcher`,
and its reference is one that `Normalize` returned.

The `MC` modules give the instances. In the modules the definitions whose comment
starts with "Mutant" are the wrong forms of their neighbours with which each
property is shown to be able to fail; no specification uses them.

## What the runs check

| Run | Question | Answer |
|---|---|---|
| `StoreSerial` | With one writer per blob, and with cut, corrupt, over-long and killed downloads, are committed files whole (`BlobsVerified`), do readers see whole blobs (`ReadersSeeVerified`), is a committed file never written to again (`CommittedNeverRewritten`), and is that the abstract store (`CasSpec`)? | yes |
| `StoreRace` | Without any fault but with three unserialized downloads of one blob, does the store end well (`RaceConverges`), and is every step one of the abstract store, races included (`CasSpec`)? | yes: downloads can fail and the blob is damaged for a while, but it ends up whole and stays so |
| `StoreRaceDamage` | Is a committed file whole then (`BlobsVerified`)? | no: `store.rs` 3 promises atomic writes, but the temporary name is shared, and one process renames the file another has just emptied |
| `ImagesSerial` | Commands on one reference kept apart, no image under two references, a tag that moves, failing downloads, pulls killed anywhere: is a marked rootfs complete (`MarkerComplete`), the rootfs of an entry usable (`EntryUsable`), does a command fail only on its own image, on an entry cut short or on a damaged blob (`FailsWithReason`), is an entry readable after a save (`SavedReadable`), does `rmi` remove the rootfs of its entry (`RmiRemovesRootfs`), does every command end (`EveryCommandEnds`)? | yes |
| `ImagesRace` | Commands on one reference at the same time, all killed anywhere, whose downloads disturb each other: are the types right (`TypeOK`), and does the catalog name only blobs that have a file (`EntryBlobsPresent`)? | yes |
| `ImagesSharedTag` | Is an entry's rootfs usable (`EntryUsable`) with two references to one image? | no: `rmi` of one deletes the directory of both |
| `Registry` | Pulls of a tag, a pinned image and a pinned index, three kinds of registries, tokens that expire, damaged bodies, headers with wrong digests: is the image the one pinned (`PinnedUsed`) and the first of the index for the platform (`PlatformFirst`), is the digest recorded that of the bytes where headers are right (`HonestDigest`), does a retry fail only for a static bearer, missing credentials or a token that ran out on its way (`RefusedWithReason`), does every pull end (`PullEnds`)? | yes |
| `Unpack` | Layers with links in and out of the rootfs, in any order: is the tree closed at every step, also of layers that fail (`TreeClosed`), is each step one of the overlay, and each entry laid at its own path, but for late whiteouts and walks through links (`OverlaySteps`), and does nothing else change what lies outside (`OutsideKept`)? | yes |
| `Reference` | However a reference is spelled, is the entry found that of the image meant (`FindsItsImage`), has an image one entry (`OneEntryPerImage`), does a listed name find its entry (`ListedNameFinds`), does `container run` mean the image that `container pull` has pulled (`RunsWhatWasPulled`)? | yes |
| `Challenge` | Whatever is in the values of a challenge, is the token asked for at its realm, for its service and scope (`AsksAsChallenged`), and is the login base64 (`LoginIsBase64`)? | yes, for well-formed challenges |
| `ContainerRun` | Two launches that fail and are killed anywhere, first runs of a tool one after the other: are only whole, signed binaries run (`OnlySignedRuns`), is a container deleted by its own run and by no other (`ContainerHasItsRun`), does a run give its terminal back and report its guest's code (`RunEndsWell`), does every launch end or wait for its guest (`EveryLaunchEnds`)? | yes |
| `LockUpdate` | Are the outputs of a finished update of one revision, and complete up to what failed (`LockComplete`), does an update end (`UpdateEnds`)? | yes |

### What the code does not promise

While the models were written, more came up that has no run of its own. Where a cfg with other
constants, or a property without its exception, shows it, that is said.

- *sha512 digests.* `Digest::parse` accepts them (`digest.rs` 18) and the store compares with a
  sha256 (`digest.rs` 82, `store.rs` 60), so a blob named by one arrives whole and is rejected. `Matches` has it; with
  `Sha512 = {d1}` no run of `ContentStore` ever commits a blob.
- *Overlapping downloads of one blob* can leave a damaged file under the blob's name, for good if one
  of them is killed, and `has` looks no further than the name. An entry then names a blob that is there
  and is not what was verified: that is why `EntryBlobsPresent` says "has a file"; with the content it is
  `EntryBlobsStored`, which `ImagesRace.cfg` violates and which is a theorem where something keeps
  downloads of one blob apart.
- *A killed `rmi`* may leave the marker over a rootfs that lacks files, and the next pull trusts it
  (`main.rs` 105-106): `ImagesSerial.cfg` with `Killed = {"rmi"}` violates
  `EntryUsable` and, checked alone, `MarkerComplete`.
- *An entry cut short* by a pull killed inside `save` makes `rmi` of it fail, until it is pulled
  again: the first reason in `FailsWithReason`, without which `ImagesSerial.cfg` violates it.
- *Uncompressed layers.* `main.rs` 118-119 says the media types were validated and that `apply_layer`
  sniffs; neither is so, and every layer is applied as gzip: the last reason in `FailsWithReason`.
- *Whiteouts after entries.* `unpack.rs` 59 and 64 also remove what the same layer placed, while a
  whiteout is about the layers below: without the exception `Late` `Unpack.cfg` violates `OverlaySteps`.
- *Paths through links.* A link that a lower layer, or an earlier entry, has on the way of an entry is
  followed and not replaced, so the entry is laid where the link leads. `unpack.rs` 86-87 has
  `safe_join` keep layers inside the rootfs; it judges the path as it is spelled and does not see links.
  Without the exception `Detour` `Unpack.cfg` violates `OverlaySteps` and `OutsideKept`.
- *The digest of a header.* The digest of a manifest is that of the `Docker-Content-Digest` header if there
  is one (`registry.rs` 66), which is compared neither with the bytes nor with the pin, and it names the
  rootfs directory and is recorded in the entry. `HonestDigest` is therefore of registries whose
  headers are right, and of references and index entries asked for by digest; without `site.honest` `Registry.cfg`
  violates it.
- *Two first runs at once* share the source tree, the build directory and `$BIN.tmp`
  (`containerd-bridge.nix` 42-48): one can install a file that the other is still copying or has not
  signed, and since `$BIN` is there from then on, no later launch repairs it. `ContainerRun.cfg` with
  `Apart = FALSE` violates `OnlySignedRuns`.

- *Fallback.* `select_platform` says that it skips "attestation/unknown entries that carry no
  usable platform" (`lib.rs` 182), but when nothing fits, the fallback takes
  the first descriptor with an image media type, attestations included.
  `PlatformFirst` is therefore about indexes that have a descriptor for the platform.
- *Static bearer.* `try_get` sends the static bearer also after a token was negotiated, so a
  retry with a bearer that is refused is refused again (`registry.rs` 140). The
  command line never sets one (`main.rs` 98).
- *Directory over a file.* The code clears the place of an entry unless it is a directory
  (`unpack.rs` 77); a layer that puts a directory where a lower one has a file fails.
  Hard links are made with the working directory as their base
  (`unpack.rs` 81, the `tar` crate's `Entry::unpack`), so a layer with one fails as a rule.
  Both end in "failed", which `OverlaySteps` allows: it says what the tree is, not that a layer unpacks.
- *Two pulls of one image* take each other's directory for a partial
  unpack (`main.rs` 113-114), so `MarkerComplete` is false of them: one removes a
  layer the other unpacked, and the other writes the marker.
- *An image without layers* (`spec.rs` 86 defaults the field) fails at the marker,
  since no layer made its directory.
- *After `pull`, `pull --no-unpack`, `rmi`* the rootfs stays and no entry names it,
  which is why `RmiRemovesRootfs` speaks only of an entry that has a rootfs.
- *The spelling of `--root`.* `remove` deletes the rootfs only if its path, as recorded, starts with the
  root, as given (`catalog.rs` 118), so an image pulled with a relative root and removed with an
  absolute one loses its entry and keeps its rootfs. `RmiRemovesRootfs` is of an `rmi` that spells the root as
  the pull did; without that conjunct it is violated as soon as `Root` has two members.
- *Digests in capitals.* `Digest::parse` folds them (`digest.rs` 33), but the reference keeps them as
  typed and so does `canonicalize`, so one image can have two entries; tokens for hexadecimal words stand for one spelling.
- *A pinned repository that ends in a colon and a word* (`a/b:c:d@...`) is listed under a name that
  parses to something else, the exception in `ListedNameFinds`. Registries do not allow such names.
- *`http`.* `base_url` takes any registry that starts with "localhost" for a local one
  (`reference.rs` 92); `Reference` has no other word that starts so.
- *Challenges* are read with names in lower case, the scheme in two spellings and no escaped quotes
  (`registry.rs` 183-198). What is well formed in `Challenge` is so restricted.
- *A killed run*, or one whose `create` or `delete` fails half way, leaves its container under
  the id (`main.swift` 131, 152), and the default id is always the same, so later runs are
  refused. `ContainerHasItsRun` says that no run which ends by itself does that in its own name.
- *A reset that fails* leaves the terminal raw and is not reported (`main.swift` 128), the exception
  in `RunEndsWell`.
- *Failed prefetches* are silent: `wait -n || true` and the bare `wait` drop their status (lines
  71 and 74), and the lock is written without their hashes. `LockComplete` says which are missing, not that
  none is.
- *`guest-module.nix` 10* has `wwn-oci` produce a `config.json`; it does not.

### Bounds, and why they are enough

- `StoreSerial`, `StoreRace`: three processes, one blob, `Size` 1 and 2 and the extra
  chunk, five inodes. Blobs do not share a file, so one digest shows everything
  that files of one blob can do to each other. Three processes allow a writer, the
  writer that takes over its name and a reader that still has the old inode open;
  at most one inode per process and one under each of the two names are in use, hence
  five. With `Size = 1` and faults a file is empty, whole, wrong or too long: the four
  contents the code tells apart; without faults `Size = 2` adds a blob that is half there. In
  `StoreSerial` processes and inodes are symmetric; its temporal properties are safety properties.
  Faults and races together are in no run of the store, because `RaceConverges` needs that there are no
  faults; that `CasSpec` holds of both is the theorem `FilesImplementCas`.
- `ImagesSerial`: two commands, a reference whose tag moves between an image of two layers
  and one of one, a second reference with an image of its own, whose layer is no gzip stream, and blobs in
  common, whose downloads may race. Two layers are the fewest with a partial unpack that is not
  empty. With commands on one reference kept apart and no image shared, a third command
  meets no state that two do not. `Killed = {"pull"}`, because a killed `rmi`
  breaks `MarkerComplete` (above). The first reference is always unpacked,
  the second, whose image cannot be, is also pulled with `--no-unpack`. The root has one spelling, and every
  image a layer: a second spelling or a fourth image is beyond the time a run has, and both are in the theorems. No symmetry, since the run has a liveness
  property.
- `ImagesRace`: one reference whose images have one layer and none, so that their entries
  differ in length, which is all that the overlaid saves depend on, and share the config, which is enough
  for two downloads to race.
- `Registry`: all indexes of up to two descriptors (`MaxEntries`) out of eight that differ in
  what `select_platform` tells apart: an exact match, a match without a variant,
  another architecture, another variant, `unknown`, no platform, an index, another media
  type. `Misnamed` has one of the two images, so that a header can be wrong of the other, of the index
  and of a damaged body. Two descriptors are enough for "first", "skipped" and "fallback". `MaxBlobs = 2`: the token
  of one blob can be gone at the next. The pinned index has an image that fits and
  one that does not; `Target` has a variant, which is the library's default, and one
  without is what the command line asks for (`main.rs` 94), a special case of the
  proofs.
- `Unpack`: five paths, a directory with a file and a directory with a place in it, and another
  directory with one; outside a single place, which is a file, a directory or missing; links to a
  directory of the rootfs and out of it; two layers of any format, with entries in any order. A node of
  the first layer under a link or a directory of the second, or the other way round, a path through a
  link, a link as the last part of a path, and a link to where another link is, all happen with
  them. `MaxLinks = 2` is where the kernel has 40: the walk is ended there, as it is by a loop.
- `Reference`: 86 strings: what can be put together from four hosts, four paths (among them one with `localhost`
  and one with a colon), with and without a tag and a digest, all strings of up to two of
  `/ : @ app`, and the alias of Docker Hub; `MaxEntries = 2`, since every property is of one
  entry or of two. The proofs are for any inputs.
- `Challenge`: one parameter with any value of up to two characters, two with values that begin
  or end in a comma or an equal sign, given twice or unknown, and the three of Docker Hub. Every
  branch of the scanner depends on one character and on whether it is in quotes. Logins of one to four
  bytes: each remainder by three, and a second group.
- `ContainerRun`: two launches, which can hold the same id, tool or file; two tools, one of which
  has to be signed; one id, because containers under different ids do not meet; a terminal that may be
  raw from the start. Guests exit with 0 or not.
- `LockUpdate`: two revisions with a pin in common, of two and four pins, `Pool = 2`: fewer, as many
  and more pins than jobs. The script has 6.

Otherwise nothing is unbounded: there are no counters, and processes start again for ever.
`CHECK_DEADLOCK FALSE` stands only in `Challenge.cfg`: nothing follows the request.

### Fairness

`FairSpec` gives weak fairness to `Step(p)`, the next step of a running command. A
command is a sequential program that nothing blocks: the operating system runs
it and its file operations return. `StartPull`, `StartRmi`, `Kill` and `FetchFails`
have none, a command need not be started, killed or refused. `BlobArrives` is in
`Step`: a download that does not fail delivers, which the code leaves to the
connection (it sets no timeout). `StoreRace` gives the same to `Download(p)`.
In `Registry` it is the next step of the pull: a request is answered, with whatever
status. Tokens may expire as often as they like; that the pull ends all the same is the
point of `PullEnds`, and rests on there being one retry.
In `ContainerRun` it is the next step of a launch, the wait for the guest excepted, which may last
for ever: compilers, the framework's calls and Apple's CLI end. In `LockUpdate` it is the next step of
the script, and that some job ends as long as there is one: a prefetch ends, well or not.
Nothing says that an update or a launch is started.

## What is proved

The theorems hold for every value of the constants under the named assumptions (`StoreAssumption`,
`ImagesAssumption`, ...: finite shape of the parameters and model values outside the data they stand
beside).

`ContentStore_proofs`. `TypeCorrect` is inductive as it stands. The others assume `Serialized` and
rest on the invariant `SerialInv`, which is checked by TLC on the instance before. It is needed
because `BlobsVerified` says nothing of the temporary file that `Commit` is about to rename:
`SerialInv` adds that the inodes under names and handles are distinct, that a writer's handle is the
inode under the temporary name, that a process whose hasher is clean has written exactly a prefix of
the blob, and that only one process is between `CreateTmp` and `Commit` for a digest. From it follow
`SerializedBlobsVerified`, `SerializedReadersSeeVerified` and `SerializedCommittedNeverRewritten`.

Without `Serialized` there are `HoldersFind`, that who was told it has a blob finds a file under its
name, whatever races, fails or is killed, and `FilesImplementCas`, the refinement of `BlobCas` step by
step: `Commit` is `Store`, a chunk that goes to another's file is `Race`, reads and what happens to files
nobody shares are stutters. It rests on who is `Disturbed` by whom: only a step of a rival on the same
temporary name can disturb a download or put it right, which is what `BlobCas` lets rivals do. With
`Serialized` nobody is ever disturbed (`Calm`), and the store implemented is the one without races.

The last section does without `Serialized`, for any number of downloads of the same blobs.
`BlobsStay`: a blob's name, once there, is never without a file again. `RaceLeavesBlobsWhole`
(`Faults = {}`): a file under a blob's name that nobody streams into is whole, the state in which
`StoreRaceDamage` finds it is one that its writers still repair. The invariant `RaceInv` says that
each chunk of a file that is not the blob's is *owed* by a process that has the file open and has
not come to that chunk yet; a truncation by another process makes all chunks owed, by itself. TLC
checked it on three processes before it was proved. It needs `Faults = {}`: a stream that is cut or
killed after it emptied another's file pays nothing. `DownloadsLeaveTheBlob`: without faults and
sha512 no download ends before the blob is there.

`Images_proofs`. `TypeCorrect` and `CatalogBlobsPresent` (`Spec => []EntryBlobsPresent`) hold for all
interleavings, races and kills, without `Serialized`. The strengthening, `PresentInv`, says that a command
which is past its `i`-th blob finds a file for the first `i`, and one that is past `fetch` for all of
them; since a name stays, the entry it writes names only blobs that are there. What makes the proof
go through under races is that a torn entry names nothing. `CatalogBlobsStored` adds, where downloads of
one blob are kept apart (`OneWriter`), that these files hold the blobs: then every name of the store is
of a verified file (`CasCalm`), and nothing else about the commands is needed.

The second half has the five safety properties of `ImagesSerial`, for any number of commands,
references and images, each under what it needs and no more:

| Theorem | Commands on one reference apart | No image under two references | No `rmi` killed |
|---|---|---|---|
| `SavesReadable` | yes (`Serialized`) | | |
| `RmiLeavesNothing` | yes (`Apart`) | yes (`Apart`) | |
| `FailuresHaveReasons` | yes (`Apart`) | yes (`Apart`) | |
| `MarkMeansComplete`, `EntriesUsable` | yes (`Apart`) | yes (`Apart`) | yes (`RmisEnd`) |

None of them keeps downloads apart, and none restricts the images: `FailuresHaveReasons` names what
is left for a pull to fail on, a damaged blob, an image without layers and a layer that is no gzip
stream, and for an `rmi`, an entry cut short.

Before they were proved TLC checked each of them on instances that drop what it does without (shared
tags, killed `rmi`, a layer that is not gzip, an image without layers); the run `ImagesSharedTag`
and the notes above show that what is left is needed. `SavesReadable` rests on `OpenEmpty`: no one
else is on the reference between the open and the write. The others rest on `ApartInv`, which says
for each command how far its directory is (`Progress`: in `apply` the directory holds the layers
before `idx` and no marker) and that what an `rmi` has read is what the entry still says. The
argument: two running commands work on different images (`OtherImage`), so a step touches nothing
another relies on (`OthersSound`, `LocalStep`), and each action is left with its own reference and
image. While a pull runs, no `rmi` excuses the entry of its reference, so that entry is usable as it
is; a pull changes only a directory without the marker, which no entry can be relying on.

`UsesTheStore` is the other side of `FilesImplementCas`: the commands touch the store only as
clients of `BlobCas` may (`Spec => Cas!CasSpec`, without any condition), so that what `ContentStore`
implements is what `Images` builds on.

`Registry_proofs`. `PinIsEnforced`, `PlatformIsFirst`, `DigestIsOfBytes` and `RefusalHasReason` for
any indexes, platform and registries, static bearers and credentials. The invariant `RegInv` adds
what was asked for when a body arrives (`Choosing`), where the manifest came from and what its header can have said (`Settled`) and,
for the refusal, that on the second attempt a sufficient token that lasts is good (`GrantHolds`).
`PlatformIsFirst` rests on `Min` of a non-empty set of positions, by the library's well-founded
induction.

`Unpack_proofs`, for any places inside and outside, any links among them and any layers in any order.
`TreeAlwaysClosed`: every action removes places together with all that lies in them, or makes what is
missing where its walk stands. It is what the refinement needs, because `Overlay` makes directories of
whatever lies above an entry and the code only of what is missing. The other half of the invariant,
`AsSpelled`, says that a walk which has followed no link is still on the path of its entry and inside
the rootfs, and that only an opaque marker is about the rootfs itself. From both follow `UnpackImplementsOverlay`, which maps each step to `Hide`, `Put`,
`NextLayer`, `Discard` or a stutter, and the end of an entry to the overlay's step for that entry (`Laid`),
unless it is late or a detour, and `OutsideIsKept`, which says that
taking links away never reaches what they point to.

`Reference_proofs`, for any words and inputs of any length. The two halves are that the canonical
name determines the place asked (`FoundIsTheImage`), because the first `/` of a name with a registry
ends it and the first `@`, or the last `:`, ends the repository; and that the canonical name, given
back, is its own canonical name (`ListedNamesFind`). `RunAgreesWithPull` compares the shell's
pattern, which sees the whole string, with the parser's, which has cut off the digest first;
`NormalizeKeeps` shows that, for every string, what the shell puts in front leaves the place asked
as it is.

`Challenge_proofs`. `ChallengeIsFollowed`, for challenges of any length and any spelling of values.
The invariant `ChallengeInvariant` keeps says that what has been split off (`out`) is the parameters
before the present one as they are spelled, that `cur` is the part of the present one that was read,
that `in_quotes` is whether its opening quote is behind and its closing one is not, and, in the
second phase, that `params` holds the last value of each name so far. `LoginIsEncoded` (`Spec =>
[]LoginIsBase64`): the `Authorization: Basic` header of a login of any length is its base64, with
the right padding, and from the digits the login is read back bit by bit. There is no induction in
it: the digits of a group hold its 24 bits (`Digits`, `Base64Bits`), and every bit of the login lies
in one group.

`ContainerRun_proofs`. `OwnContainer` and `EndsWell` hold for any launches, ids and tools, and
whether or not first runs are apart; the invariant `OwnInv` adds who owns what is stored, that the
mode saved is the mode found between `setraw` and the reset, and that a result is of the guest's
code; a reset that fails is the exception `RunEndsWell` makes. `SignedRuns` assumes `Apart`; `RunInv` adds that one launch at a time is between the test of
`$BIN` and its installation (`Alone`) and what the product and `$BIN.tmp` are at each of its steps
(`Ready`).

`LockUpdate_proofs`. `LockInv` says that pins are either unread, running, fetched or failed, and
that there is room for a job whenever a line is read; `PoolHolds` and `LockIsOfItsRevision` follow
for any pins and pool.

### What is proved of the ends

That something ends is liveness, and liveness under fairness is beyond TLAPS. What can be proved of
it is that there is no way to go on for ever: a number of steps left, which every step of the one
who is to end decreases, and which no one else's step increases. TLC checks the rest, that a next
step is possible until the end (`RaceConverges`, `EveryCommandEnds`, `PullEnds`, `EveryLaunchEnds`,
`UpdateEnds`), on the instances of the runs.

| Theorem | Bound, whatever interleaves | Under |
|---|---|---|
| `DownloadsAdvance` | `Size + 6` steps for a download | nothing |
| `CommandsAdvance` | `5n + 8` steps for a command on an image of `n` blobs, but for the chunks of a disturbed download and the reading of the entry, and unless another unpacks into the directory it is removing | nothing |
| `ApartCommandsAdvance` | the same without the last exception | `Apart` |
| `PullsAdvance` | at most an attempt, a token and a retry for each document, however often tokens expire | nothing |
| `LaunchesAdvance` | 18 steps for a launch, first runs at once included | nothing |
| `UpdatesAdvance` | `3n + 4` steps for an update of `n` pins, however often `wait -n` comes back early | nothing |

The last exception in `CommandsAdvance` is real: `remove_dir_all` has to start again for each layer that
another pull adds, and so ends only when that pull does.

Only model-checked: the five liveness properties above. All other properties of the passing runs are
theorems. Three theorems say more than any run: `CatalogBlobsStored`, `HoldersFind` and `PoolHolds`
(at most `Pool` prefetches at once).

## What is not modelled

- The guest module: two systemd units and two short scripts. What they do over time, their order and
  their restarts, is decided by systemd and crun, which are not in the repository.
- Two first runs at once beyond what `Apart = FALSE` shows: files are followed by name there, not by
  inode, so a copy that goes on into a renamed file is not distinguished from one that does not.
- In the container CLI the choice of a kernel and of the back end: they read the environment, change
  nothing, and end the command where they fail.
- Modes, times and extended attributes of unpacked files; what a hard link is made to, of which
  `HardLink` takes the failure; a `.wh.` without a name in the top directory.
- `error.rs` (a sum type without behaviour), the Android runner (one exec), the capability
  matrix and the Nix wiring (constants evaluated at build time), and the contents
  of files, JSON and wording wherever no property depends on them.

Next, in this order: inodes in `Launcher`; for each of the theorems on ends, the other half in
terms of guards: that a command which has not ended is at a step whose guard holds.
