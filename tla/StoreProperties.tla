-------------------------- MODULE StoreProperties --------------------------
(***************************************************************************)
(* What makes the store correct, stated over Store.tla.                    *)
(***************************************************************************)
EXTENDS Store

---------------------------------------------------------------------------
\* The store implements the vault.

\* What the running command of p may still do to the vault.
AskedBy(p) ==
    LET write   == [path |-> job[p].path, secret |-> job[p].content]
        removal == {[path |-> job[p].from, secret |-> None] : x \in {job[p].from} \ {None}}
    IN  CASE pc[p] = "blob" -> {write} \cup removal
          [] pc[p] \in {"index", "unlink"} -> removal
          [] OTHER -> {}

V == INSTANCE Vault WITH
        holds <- [path \in Paths |-> Holds(path)],
        asked <- [p \in Procs |-> AskedBy(p)]

\* An orphan prune unlinks by name, and what is there is not what its look read: a
\* put came in between, or the look could not read the file at all.
UnlinksUnseen(p) == UnlinkOrphan(p) /\ blobs[job[p].orphan] # job[p].saw

\* Through rotations, passphrase changes, pruning, reindexing, failures and
\* kills, what the store's key reads at each path changes only by a put or a
\* removal somebody asked for; a move never removes before it has copied.  The
\* one other step is the unlink of a prune that did not see what it unlinks (see
\* PrunesOnlyUnreadable).
\* (RekeyIdentity's commit order, PruneOrphans, Put, Remove and Move.)
ImplementsVault ==
    /\ V!VaultInit
    /\ [][V!VaultNext \/ \E p \in Procs : UnlinksUnseen(p)]_V!vaultVars

---------------------------------------------------------------------------
\* Safety.

\* Whenever there is a metadata blob, some key bundle in the store carries the
\* key that opens it: no interruption of a rotation, of a passphrase change or
\* of a prune locks the store (bundles.go, commitRekey, PruneSupersededBundles).
Openable ==
    meta # None =>
        \/ OpensMeta(current)
        \/ \E g \in Gens : OpensMeta(retained[g])

\* With one process, the version floor never falls and the metadata never
\* disappears: a rotation carries the floor over, killed or not, and no other
\* rewrite of the metadata loses it.
FloorNeverFalls ==
    [][meta # None => meta' # None /\ meta'.floor >= meta.floor]_meta

\* With several, it falls by nothing but a session that read a lower floor, or
\* raised its own copy less far, and now writes that copy back: a release, a
\* recorded digest or a rotation (RaiseVersionFloor, writeMeta, RekeyIdentity).
FloorFallsOnlyToAnOlderCopy ==
    [][meta # None =>
          /\ meta' # None
          /\ meta'.floor < meta.floor =>
                \E p \in Procs : /\ pc[p] \in {"meta", "swapMeta"}
                                 /\ id[p].floor = meta'.floor]_meta

\* A rotation that reports success leaves nothing the old key opens and no name
\* the old naming key computes: every file in the root belongs to the new pair.
RotationIsComplete ==
    [][\A p \in Procs : RekeyDone(p) =>
          /\ meta.key = job[p].new /\ meta.nk = job[p].new
          /\ \A n \in BlobFileNames(blobs) : Readable(blobs, job[p].new, job[p].new, n)]_vars

\* A passphrase change or a bundle prune that reports success leaves exactly
\* one bundle, and it opens the store with the passphrase given.
OneBundleLeft ==
    [][\A p \in Procs : BundlesDone(p) =>
          /\ OpensMeta(current)
          /\ current.pass = job[p].pass
          /\ \A g \in Gens : retained[g] = None]_vars

\* A file the store's own key decrypts, misnamed ones included, leaves the root
\* only by an unlink of the path it is filed under: no sweep ever takes one, and
\* an orphan prune only one that is not what its look read.
OnlyRemovalDeletes ==
    [][\A n \in Name :
          (meta # None /\ Decrypts(meta.key, blobs[n]) /\ blobs'[n] = None) =>
              \E p \in Procs :
                  \/ pc[p] = "unlink" /\ n = BlobID(id[p].nk, job[p].from)
                  \/ UnlinksUnseen(p) /\ n = job[p].orphan]_vars

\* With one process and no faults, a listing that claims to be trusted names
\* exactly the blobs the store holds.
ListingExact ==
    \A p \in Procs :
        (pc[p] = "open" /\ cache[p].trusted) =>
            cache[p].entries = ReadableNames(blobs, id[p].key, id[p].nk)

---------------------------------------------------------------------------
\* Statements of the documentation that the code does not keep (see README).

\* bundles.go: keeping the superseded bundle makes an interrupted rotation
\* "recoverable instead of fatal": while the store holds a secret, some bundle
\* opens it, however many rotations were interrupted.
SecretsStayReachable == (\E path \in Paths : Holds(path) # None) => Openable

\* rekey.go: PruneOrphans "removes blob-shaped files this store's key cannot read":
\* what it unlinks, the key of the store does not decrypt.
PrunesOnlyUnreadable ==
    [][\A p \in Procs :
          (UnlinkOrphan(p) /\ meta # None) =>
              ~Decrypts(meta.key, blobs[job[p].orphan])]_vars
=============================================================================
