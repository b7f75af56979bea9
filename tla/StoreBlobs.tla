---------------------------- MODULE StoreBlobs -----------------------------
(***************************************************************************)
(* The inductive invariant behind ImplementsVault, OnlyRemovalDeletes and  *)
(* RotationIsComplete: where each secret is at each step of a rotation.    *)
(* It stands on StoreInvariant, which says which key opens the store.      *)
(***************************************************************************)
EXTENDS StoreInvariant

\* A key that is about to be generated is nobody's yet: not in the metadata or a
\* process's memory, and neither the key nor the naming key of any file.
MetaGenerated == meta # None => meta.nk = meta.key /\ meta.key < nextGen

ProcGenerated(p) ==
    /\ pc[p] # "closed" => id[p].nk = id[p].key /\ id[p].key < nextGen
    /\ pc[p] \in RekeyPcs => job[p].new < nextGen

FilesGenerated(files) ==
    \A n \in Name : files[n] # None => n[1] < nextGen /\ files[n].key < nextGen

Generations ==
    /\ MetaGenerated
    /\ \A p \in Procs : ProcGenerated(p)
    /\ FilesGenerated(blobs)
    /\ FilesGenerated(stage.blobs)

\* There is no secret before there is a store.
EmptyAtFirst == meta = None => blobs = NoBlobs

\* A removal has a path to remove, and creating a store has none.
Removals ==
    \A p \in Procs :
        /\ pc[p] = "unlink" => job[p].from \in Paths
        /\ pc[p] \in InitPcs => job[p].from = None

\* A secret under the key that is replaced, and under the new one.
Original(p, e) == [key |-> id[p].key, path |-> e.path, content |-> e.content]
Copy(p, e)     == [key |-> job[p].new, path |-> e.path, content |-> e.content]

OldName(p, e) == BlobID(id[p].nk, e.path)
NewName(p, e) == BlobID(job[p].new, e.path)

\* A rotation has read one secret for each path, and works under another key.
Rotating(p) ==
    pc[p] \in RekeyPcs =>
        /\ job[p].new # id[p].key
        /\ \A d, e \in job[p].envs : d.path = e.path => d = e

\* Until the metadata is swapped, every secret is where it was.
OriginalsStay(p) ==
    pc[p] \in {"stage", "verify", "land", "bundle", "swapMeta"} =>
        \A e \in job[p].envs : blobs[OldName(p, e)] = Original(p, e)

\* While it stages, the root holds nothing else, and what is staged under the new
\* key is a copy; an earlier rotation may have left something there too.
Staging(p) ==
    /\ pc[p] \in {"stage", "verify"} =>
          /\ \A n \in BlobFileNames(blobs) : \E e \in job[p].envs : n = OldName(p, e)
          /\ \A n \in BlobFileNames(stage.blobs) :
                n[1] = job[p].new =>
                    \E e \in job[p].envs : n = NewName(p, e) /\ stage.blobs[n] = Copy(p, e)
    /\ pc[p] = "verify" => Unstaged(p) = {}

\* Once it is verified, each secret has its copy, staged or landed, and the root
\* holds, beside the copies, only what is to be swept.
Landing(p) ==
    pc[p] \in {"land", "bundle", "swapMeta", "swapIndex", "sweep"} =>
        /\ \A e \in job[p].envs : \/ stage.blobs[NewName(p, e)] = Copy(p, e)
                                  \/ blobs[NewName(p, e)] = Copy(p, e)
        /\ \A n \in BlobFileNames(stage.blobs) :
              \E e \in job[p].envs : n = NewName(p, e) /\ stage.blobs[n] = Copy(p, e)
        /\ \A n \in BlobFileNames(blobs) :
              \/ n \in job[p].names
              \/ \E e \in job[p].envs : n = NewName(p, e) /\ blobs[n] = Copy(p, e)
        /\ \A n \in job[p].names :
              /\ \E e \in job[p].envs : n = OldName(p, e)
              /\ blobs[n] # None => blobs[n].key = id[p].key
        /\ pc[p] # "land" => BlobFileNames(stage.blobs) = {}

Rotation(p) == Rotating(p) /\ OriginalsStay(p) /\ Staging(p) /\ Landing(p)

\* What an orphan prune unlinks after reading it, its key does not decrypt.
LooksFirst(p) ==
    pc[p] = "unlinkOrphan" => ~Decrypts(id[p].key, job[p].saw)

BlobInv ==
    /\ Generations /\ EmptyAtFirst /\ Removals
    /\ \A p \in Procs : Rotation(p)
    /\ \A p \in Procs : LooksFirst(p)

---------------------------------------------------------------------------
\* The inductive invariant behind ListingExact, for one process and no fault:
\* where the index on disk and the one in memory are exact.

Single == (\A p, q \in Procs : p = q) /\ MaxFaults = 0

LiveNames == ReadableNames(blobs, meta.key, meta.nk)

\* The index on disk is exact, or a new one would start from nothing.
IndexExact ==
    IF index # None /\ index.key = meta.key
    THEN index.entries = LiveNames
    ELSE LiveNames = {}

IndexGenerated == index # None => index.key < nextGen

\* Only a rotation has something staged.
NothingStaged(p) == pc[p] \notin RekeyPcs => stage = NoStage

CopyNames(p) == {NewName(p, e) : e \in job[p].envs}

\* The staged index lists what is staged, and there is none of an empty store.
StagedIndex(p) ==
    /\ pc[p] = "stage" =>
          IF stage.index = None
          THEN stage.blobs = NoBlobs
          ELSE stage.index = [key |-> job[p].new,
                              entries |-> ReadableNames(stage.blobs, job[p].new, job[p].new)]
    /\ pc[p] \in {"verify", "land", "bundle", "swapMeta", "swapIndex"} =>
          IF stage.index = None
          THEN job[p].envs = {}
          ELSE stage.index = [key |-> job[p].new, entries |-> CopyNames(p)]

\* A command's own index is exact between a write of a blob and the next, and
\* the one on disk follows at the end of the command.
Listed(p) ==
    /\ pc[p] \in {"open", "meta"} \cup SecretPcs \cup BundlePcs =>
          cache[p].entries = LiveNames
    /\ pc[p] \in InitPcs => cache[p].entries = {}
    /\ (meta # None /\ pc[p] \notin {"index", "land", "bundle", "swapMeta", "swapIndex", "sweep"}) =>
          IndexExact
    /\ (pc[p] \in RekeyPcs \ {"sweep"} /\ index # None) => index.key # job[p].new
    /\ pc[p] = "sweep" => index = [key |-> job[p].new, entries |-> CopyNames(p)]

\* What a prune is about to unlink is still what it read.
LooksTrue(p) == pc[p] = "unlinkOrphan" => job[p].saw = blobs[job[p].orphan]

IndexInv ==
    /\ IndexGenerated
    /\ \A p \in Procs : NothingStaged(p) /\ StagedIndex(p) /\ Listed(p) /\ LooksTrue(p)
=============================================================================
