------------------------------- MODULE Store -------------------------------
(***************************************************************************)
(* An angou store on disk and the processes that run commands on it        *)
(* (internal/store, and the core.Session methods that call it).            *)
(*                                                                         *)
(* A store is a plain directory: one encrypted blob per secret, named by a *)
(* keyed hash of its logical path; a metadata blob that holds the naming   *)
(* key and the version floor; an index, which is only a cache; and one or  *)
(* more key bundles, the identity key wrapped under a recovery passphrase. *)
(* Every file is replaced by a rename, so one write is one step; between   *)
(* two steps of a command the process may be killed, the step may fail, or *)
(* another process may run.  There is no lock.                             *)
(*                                                                         *)
(* A key is a number, its generation.  An identity and its naming key are  *)
(* generated together, so the generation names both; the blob at a path is *)
(* named <<naming key, path>>, an injective hash.  What a key did not seal *)
(* it cannot open.                                                         *)
(***************************************************************************)
EXTENDS Integers, FiniteSets

CONSTANTS
    Procs,      \* processes: one command at a time each
    Paths,      \* normalized logical paths
    Contents,   \* what a secret can hold
    Passes,     \* recovery passphrases
    Versions,   \* release versions of the binaries in use, as numbers
    Commands,   \* the commands this instance runs
    MaxGen,     \* bound: identities ever generated
    MaxFaults,  \* bound: kills, failed steps, damaged or misplaced files
    Exclusive,  \* TRUE: commands that replace keys or bundles run alone
    TidyFirst,  \* TRUE: a rekey starts only from a current bundle that opens the store
    None        \* no file, no argument

AllCommands == {"put", "rm", "mv", "mvSelf", "reindex", "rekey", "passwd",
                "pruneBundles", "pruneOrphans", "release", "digest"}

Gens   == 1..MaxGen
Name   == Gens \X Paths
Blob   == [key : Gens, path : Paths, content : Contents]
Meta   == [key : Gens, nk : Gens, floor : Versions \cup {0}]
Index  == [key : Gens, entries : SUBSET Name]
Bundle == [key : Gens, pass : Passes]
Env    == [path : Paths, content : Contents]

ASSUME ConstantsAssumption ==
    /\ MaxGen \in Nat \ {0}
    /\ MaxFaults \in Nat
    /\ Versions \subseteq Nat \ {0}
    /\ Exclusive \in BOOLEAN
    /\ TidyFirst \in BOOLEAN
    /\ Commands \subseteq AllCommands

ASSUME NoneAssumption ==
    /\ None \notin Paths
    /\ None \notin Contents
    /\ None \notin Passes
    /\ None \notin Blob
    /\ None \notin Meta
    /\ None \notin Index
    /\ None \notin Bundle

VARIABLES
    blobs,      \* the blob-shaped files in the store's root, by name
    meta,       \* store.angou
    index,      \* index.angou
    current,    \* bootstrap/keybundle.json
    retained,   \* bootstrap/keybundle-<fingerprint>.json, by key
    stage,      \* .angou-rekey/: blobs, metadata and index of a store being built
    nextGen,    \* the next key to generate
    faults,     \* faults so far
    pc,         \* pc[p]: "closed", "open", or the next step of p's command
    id,         \* id[p]: p's in-memory identity, naming key and metadata
    cache,      \* cache[p]: p's in-memory index
    job         \* job[p]: the arguments and local variables of p's command

disk == <<blobs, meta, index, current, retained>>
vars == <<disk, stage, nextGen, faults, pc, id, cache, job>>

---------------------------------------------------------------------------
\* Reading.

BlobID(nk, path) == <<nk, path>>

\* The key decrypts this file, whatever name it has.
Decrypts(key, b) == b # None /\ b.key = key

\* readBlob succeeds: it decrypts, and the envelope's path addresses its name.
Readable(files, key, nk, n) ==
    Decrypts(key, files[n]) /\ BlobID(nk, files[n].path) = n

Misnamed(files, key, nk, n) ==
    Decrypts(key, files[n]) /\ BlobID(nk, files[n].path) # n

BlobFileNames(files) == {n \in Name : files[n] # None}

ReadableNames(files, key, nk) == {n \in Name : Readable(files, key, nk, n)}

\* readAll refuses when any blob-shaped file is not readable.
AllReadable(files, key, nk) ==
    \A n \in BlobFileNames(files) : Readable(files, key, nk, n)

ReadAll(files) ==
    {[path |-> files[n].path, content |-> files[n].content] :
        n \in BlobFileNames(files)}

\* identityOpens: the bundle's key decrypts the live metadata.
OpensMeta(b) == b # None /\ meta # None /\ b.key = meta.key

\* What a reader with the store's key finds at a path.
Holds(path) ==
    IF meta # None /\ Readable(blobs, meta.key, meta.nk, BlobID(meta.nk, path))
    THEN blobs[BlobID(meta.nk, path)].content
    ELSE None

---------------------------------------------------------------------------
\* Processes.

NoBlobs   == [n \in Name |-> None]
NoStage   == [blobs |-> NoBlobs, meta |-> None, index |-> None]
NoId      == [key |-> 0, nk |-> 0, floor |-> 0, ver |-> 0]
NoCache   == [entries |-> {}, trusted |-> FALSE]
NoJob     == [path |-> None, content |-> None, from |-> None,
              new |-> 0, pass |-> None, keep |-> 0,
              envs |-> {}, names |-> {}, slots |-> {},
              orphan |-> None, saw |-> None]

InitPcs   == {"initBundle", "initMeta"}
RekeyPcs  == {"stage", "verify", "land", "bundle", "swapMeta", "swapIndex", "sweep"}
BundlePcs == {"rewrap", "choose", "drop", "promote", "discard"}
SecretPcs == {"blob", "unlink", "index", "orphans", "unlinkOrphan"}

\* Steps of the commands that replace a key or a bundle.
AlonePcs  == InitPcs \cup RekeyPcs \cup BundlePcs
BusyPcs   == AlonePcs \cup SecretPcs \cup {"meta"}

Goto(p, label) == pc' = [pc EXCEPT ![p] = label]

With(p, j) == job' = [job EXCEPT ![p] = j]

\* The command returns; the session stays usable.
Return(p) == Goto(p, "open") /\ With(p, NoJob)

\* The process is gone, and its memory with it.
Exit(p) ==
    /\ Goto(p, "closed")
    /\ With(p, NoJob)
    /\ id' = [id EXCEPT ![p] = NoId]
    /\ cache' = [cache EXCEPT ![p] = NoCache]

MayOpen == Exclusive => \A q \in Procs : pc[q] \notin AlonePcs

MayStartAlone(p) == Exclusive => \A q \in Procs \ {p} : pc[q] = "closed"

Starts(p, command) == pc[p] = "open" /\ command \in Commands

Pcs   == {"closed", "open"} \cup BusyPcs
Files == [Name -> Blob \cup {None}]
Stage == [blobs : Files, meta : Meta \cup {None}, index : Index \cup {None}]
Id    == [key : Gens \cup {0}, nk : Gens \cup {0},
          floor : Versions \cup {0}, ver : Versions \cup {0}]
Cache == [entries : SUBSET Name, trusted : BOOLEAN]
Job   == [path : Paths \cup {None}, content : Contents \cup {None},
          from : Paths \cup {None}, new : Gens \cup {0},
          pass : Passes \cup {None}, keep : Gens \cup {0},
          envs : SUBSET Env, names : SUBSET Name, slots : SUBSET Gens,
          orphan : Name \cup {None}, saw : Blob \cup {None}]

TypeOK ==
    /\ blobs \in Files
    /\ meta \in Meta \cup {None}
    /\ index \in Index \cup {None}
    /\ current \in Bundle \cup {None}
    /\ retained \in [Gens -> Bundle \cup {None}]
    /\ stage \in Stage
    /\ nextGen \in 1..(MaxGen + 1)
    /\ faults \in 0..MaxFaults
    /\ pc \in [Procs -> Pcs]
    /\ id \in [Procs -> Id]
    /\ cache \in [Procs -> Cache]
    /\ job \in [Procs -> Job]

Init ==
    /\ blobs = NoBlobs
    /\ meta = None
    /\ index = None
    /\ current = None
    /\ retained = [g \in Gens |-> None]
    /\ stage = NoStage
    /\ nextGen = 1
    /\ faults = 0
    /\ pc = [p \in Procs |-> "closed"]
    /\ id = [p \in Procs |-> NoId]
    /\ cache = [p \in Procs |-> NoCache]
    /\ job = [p \in Procs |-> NoJob]

---------------------------------------------------------------------------
\* Creating and opening a store.

\* store.Init refuses a directory that holds a metadata blob already; then it
\* writes the bundle, the metadata and the index, in that order.
InitStore(p, pass, v) ==
    /\ pc[p] = "closed" /\ meta = None
    /\ MayStartAlone(p)
    /\ nextGen <= MaxGen
    /\ nextGen' = nextGen + 1
    /\ id' = [id EXCEPT ![p] = [key |-> nextGen, nk |-> nextGen, floor |-> 0, ver |-> v]]
    /\ cache' = [cache EXCEPT ![p] = [entries |-> {}, trusted |-> TRUE]]
    /\ With(p, [NoJob EXCEPT !.pass = pass])
    /\ Goto(p, "initBundle")
    /\ UNCHANGED <<disk, stage, faults>>

InitBundle(p) ==
    /\ pc[p] = "initBundle"
    /\ current' = [key |-> id[p].key, pass |-> job[p].pass]
    /\ Goto(p, "initMeta")
    /\ UNCHANGED <<blobs, meta, index, retained, stage, nextGen, faults, id, cache, job>>

\* The in-memory metadata, sealed: writeMeta.
SessionMeta(p) == [key |-> id[p].key, nk |-> id[p].nk, floor |-> id[p].floor]

InitMeta(p) ==
    /\ pc[p] = "initMeta"
    /\ meta' = SessionMeta(p)
    /\ Goto(p, "index")
    /\ UNCHANGED <<blobs, index, current, retained, stage, nextGen, faults, id, cache, job>>

\* openIdentityFor tries every bundle until one opens with the passphrase and
\* its key opens the metadata; a binary older than the floor is refused.
Open(p, pass, v) ==
    /\ pc[p] = "closed" /\ MayOpen
    /\ meta # None
    /\ \E b \in {current} \cup {retained[g] : g \in Gens} :
          OpensMeta(b) /\ b.pass = pass
    /\ v >= meta.floor
    /\ id' = [id EXCEPT ![p] = [key |-> meta.key, nk |-> meta.nk,
                                floor |-> meta.floor, ver |-> v]]
    /\ cache' = [cache EXCEPT ![p] =
          IF index # None /\ index.key = meta.key
          THEN [entries |-> index.entries, trusted |-> TRUE]
          ELSE NoCache]
    /\ Goto(p, "open")
    /\ UNCHANGED <<disk, stage, nextGen, faults, job>>

Close(p) ==
    /\ pc[p] = "open"
    /\ Exit(p)
    /\ UNCHANGED <<disk, stage, nextGen, faults>>

---------------------------------------------------------------------------
\* Secrets: put, rm, mv, reindex.

Put(p, path, c) ==
    /\ Starts(p, "put")
    /\ With(p, [NoJob EXCEPT !.path = path, !.content = c])
    /\ Goto(p, "blob")
    /\ UNCHANGED <<disk, stage, nextGen, faults, id, cache>>

Remove(p, path) ==
    /\ Starts(p, "rm")
    /\ With(p, [NoJob EXCEPT !.from = path])
    /\ Goto(p, "unlink")
    /\ UNCHANGED <<disk, stage, nextGen, faults, id, cache>>

\* Move reads the secret, puts it at `to` and removes `from`; nothing in the
\* code asks whether the two are the same path.
Move(p, from, to) ==
    /\ Starts(p, IF from = to THEN "mvSelf" ELSE "mv")
    /\ Readable(blobs, id[p].key, id[p].nk, BlobID(id[p].nk, from))
    /\ With(p, [NoJob EXCEPT !.path = to, !.from = from,
                !.content = blobs[BlobID(id[p].nk, from)].content])
    /\ Goto(p, "blob")
    /\ UNCHANGED <<disk, stage, nextGen, faults, id, cache>>

WriteBlob(p) ==
    LET n == BlobID(id[p].nk, job[p].path)
    IN  /\ pc[p] = "blob"
        /\ blobs' = [blobs EXCEPT ![n] =
              [key |-> id[p].key, path |-> job[p].path, content |-> job[p].content]]
        /\ cache' = [cache EXCEPT ![p].entries = @ \cup {n}]
        /\ Goto(p, "index")
        /\ UNCHANGED <<meta, index, current, retained, stage, nextGen, faults, id, job>>

\* Mutant: the in-memory index keeps the entry of the removed file.
UnlinkKeepingEntry(p) ==
    LET n == BlobID(id[p].nk, job[p].from)
    IN  /\ pc[p] = "unlink"
        /\ \/ /\ blobs[n] # None
              /\ blobs' = [blobs EXCEPT ![n] = None]
              /\ job' = [job EXCEPT ![p].from = None]
              /\ Goto(p, "index")
           \/ /\ blobs[n] = None
              /\ Return(p)
              /\ UNCHANGED blobs
        /\ UNCHANGED <<meta, index, current, retained, stage, nextGen, faults, id, cache>>

\* The file is unlinked whatever it holds; a missing one ends the command.
Unlink(p) ==
    LET n == BlobID(id[p].nk, job[p].from)
    IN  /\ pc[p] = "unlink"
        /\ \/ /\ blobs[n] # None
              /\ blobs' = [blobs EXCEPT ![n] = None]
              /\ cache' = [cache EXCEPT ![p].entries = @ \ {n}]
              /\ job' = [job EXCEPT ![p].from = None]
              /\ Goto(p, "index")
           \/ /\ blobs[n] = None
              /\ Return(p)
              /\ UNCHANGED <<blobs, cache>>
        /\ UNCHANGED <<meta, index, current, retained, stage, nextGen, faults, id>>

\* writeIndex ends a put, an rm and a reindex; a move has its removal to do.
WriteIndex(p) ==
    /\ pc[p] = "index"
    /\ index' = [key |-> id[p].key, entries |-> cache[p].entries]
    /\ \/ job[p].from # None /\ Goto(p, "unlink") /\ UNCHANGED job
       \/ job[p].from = None /\ Return(p)
    /\ UNCHANGED <<blobs, meta, current, retained, stage, nextGen, faults, id, cache>>

\* Reindex stops at a misnamed blob and steps over an unreadable one.
Reindex(p) ==
    /\ Starts(p, "reindex")
    /\ \A n \in Name : ~Misnamed(blobs, id[p].key, id[p].nk, n)
    /\ cache' = [cache EXCEPT ![p] =
          [entries |-> ReadableNames(blobs, id[p].key, id[p].nk), trusted |-> TRUE]]
    /\ With(p, NoJob)
    /\ Goto(p, "index")
    /\ UNCHANGED <<disk, stage, nextGen, faults, id>>

---------------------------------------------------------------------------
\* Metadata: a release raises the floor, then records installer digests.

\* RaiseVersionFloor compares with the floor this process read when it opened.
RaiseFloor(p) ==
    /\ Starts(p, "release")
    /\ id[p].ver > id[p].floor
    /\ id' = [id EXCEPT ![p].floor = id[p].ver]
    /\ With(p, NoJob)
    /\ Goto(p, "meta")
    /\ UNCHANGED <<disk, stage, nextGen, faults, cache>>

\* SetBootstrapSHA256 rewrites the metadata; the digest itself is left out.
RecordDigest(p) ==
    /\ Starts(p, "digest")
    /\ With(p, NoJob)
    /\ Goto(p, "meta")
    /\ UNCHANGED <<disk, stage, nextGen, faults, id, cache>>

WriteMeta(p) ==
    /\ pc[p] = "meta"
    /\ meta' = SessionMeta(p)
    /\ Return(p)
    /\ UNCHANGED <<blobs, index, current, retained, stage, nextGen, faults, id, cache>>

---------------------------------------------------------------------------
\* Rotating the identity: staged, verified, then committed (RekeyIdentity,
\* commitRekey).

\* A rotation was interrupted between the bundle and the metadata: the current
\* bundle carries another key than the one that opens the store.
HalfSwapped(p) == current # None /\ current.key # id[p].key

\* readAll refuses a store with any file this key cannot read in its place.
Rekey(p, pass) ==
    /\ Starts(p, "rekey") /\ MayStartAlone(p)
    /\ ~(TidyFirst /\ HalfSwapped(p))
    /\ AllReadable(blobs, id[p].key, id[p].nk)
    /\ nextGen <= MaxGen
    /\ nextGen' = nextGen + 1
    /\ With(p, [NoJob EXCEPT !.new = nextGen, !.pass = pass, !.envs = ReadAll(blobs)])
    /\ Goto(p, "stage")
    /\ UNCHANGED <<disk, stage, faults, id, cache>>

\* The envelopes still to be re-encrypted.
Unstaged(p) ==
    {e \in job[p].envs : stage.blobs[BlobID(job[p].new, e.path)] = None}

\* One staged put: the re-encrypted blob and the staged index.
StageBlob(p) ==
    \E e \in Unstaged(p) :
        LET n == BlobID(job[p].new, e.path)
            staged == [stage.blobs EXCEPT ![n] =
                         [key |-> job[p].new, path |-> e.path, content |-> e.content]]
        IN  /\ pc[p] = "stage"
            /\ stage' = [blobs |-> staged, meta |-> stage.meta,
                         index |-> [key |-> job[p].new,
                                    entries |-> ReadableNames(staged, job[p].new, job[p].new)]]
            /\ UNCHANGED <<disk, nextGen, faults, pc, id, cache, job>>

\* Mutant: the rotated metadata starts with no floor.
StageMetaWithoutFloor(p) ==
    /\ pc[p] = "stage" /\ Unstaged(p) = {}
    /\ stage' = [stage EXCEPT !.meta =
          [key |-> job[p].new, nk |-> job[p].new, floor |-> 0]]
    /\ Goto(p, "verify")
    /\ UNCHANGED <<disk, nextGen, faults, id, cache, job>>

\* The version floor is carried over from this process's copy.
StageMeta(p) ==
    /\ pc[p] = "stage" /\ Unstaged(p) = {}
    /\ stage' = [stage EXCEPT !.meta =
          [key |-> job[p].new, nk |-> job[p].new, floor |-> id[p].floor]]
    /\ Goto(p, "verify")
    /\ UNCHANGED <<disk, nextGen, faults, id, cache, job>>

\* verifyStaged, then the list of blobs to sweep.  What an earlier, killed
\* rekey left in the staging directory makes this one fail and be cleared.
StagedWell(p) ==
    /\ AllReadable(stage.blobs, job[p].new, job[p].new)
    /\ Cardinality(BlobFileNames(stage.blobs)) = Cardinality(job[p].envs)

\* Mutant: the sweep covers what the index lists, not what the directory holds.
VerifyListingIndex(p) ==
    /\ pc[p] = "verify"
    /\ \/ /\ StagedWell(p)
          /\ job' = [job EXCEPT ![p].names = cache[p].entries]
          /\ Goto(p, "land")
          /\ UNCHANGED <<stage, id, cache>>
       \/ /\ ~StagedWell(p)
          /\ stage' = NoStage
          /\ Exit(p)
    /\ UNCHANGED <<disk, nextGen, faults>>

\* Mutant: the sweep list is taken as if the staged blobs had landed already.
VerifyListingLate(p) ==
    /\ pc[p] = "verify"
    /\ \/ /\ StagedWell(p)
          /\ job' = [job EXCEPT ![p].names = BlobFileNames(blobs) \cup BlobFileNames(stage.blobs)]
          /\ Goto(p, "land")
          /\ UNCHANGED <<stage, id, cache>>
       \/ /\ ~StagedWell(p)
          /\ stage' = NoStage
          /\ Exit(p)
    /\ UNCHANGED <<disk, nextGen, faults>>

Verify(p) ==
    /\ pc[p] = "verify"
    /\ \/ /\ StagedWell(p)
          /\ job' = [job EXCEPT ![p].names = BlobFileNames(blobs)]
          /\ Goto(p, "land")
          /\ UNCHANGED <<stage, id, cache>>
       \/ /\ ~StagedWell(p)
          /\ stage' = NoStage
          /\ Exit(p)
    /\ UNCHANGED <<disk, nextGen, faults>>

\* Staged blobs are renamed into the root one by one.
LandBlob(p) ==
    /\ pc[p] = "land"
    /\ \E n \in BlobFileNames(stage.blobs) :
          /\ blobs' = [blobs EXCEPT ![n] = stage.blobs[n]]
          /\ stage' = [stage EXCEPT !.blobs[n] = None]
    /\ UNCHANGED <<meta, index, current, retained, nextGen, faults, pc, id, cache, job>>

\* Mutant: the bundles and the metadata move on before every blob has landed.
RetainBundleEarly(p) ==
    /\ pc[p] = "land"
    /\ \/ /\ current # None
          /\ retained' = [retained EXCEPT ![id[p].key] = current]
          /\ current' = None
       \/ /\ current = None
          /\ UNCHANGED <<retained, current>>
    /\ Goto(p, "bundle")
    /\ UNCHANGED <<blobs, meta, index, stage, nextGen, faults, id, cache, job>>

\* The current bundle becomes keybundle-<old fingerprint>.json.
RetainBundle(p) ==
    /\ pc[p] = "land" /\ BlobFileNames(stage.blobs) = {}
    /\ \/ /\ current # None
          /\ retained' = [retained EXCEPT ![id[p].key] = current]
          /\ current' = None
       \/ /\ current = None
          /\ UNCHANGED <<retained, current>>
    /\ Goto(p, "bundle")
    /\ UNCHANGED <<blobs, meta, index, stage, nextGen, faults, id, cache, job>>

\* Mutant: the new bundle wraps the identity that is being replaced.
WriteBundleOfOldKey(p) ==
    /\ pc[p] = "bundle"
    /\ current' = [key |-> id[p].key, pass |-> job[p].pass]
    /\ Goto(p, "swapMeta")
    /\ UNCHANGED <<blobs, meta, index, retained, stage, nextGen, faults, id, cache, job>>

WriteBundle(p) ==
    /\ pc[p] = "bundle"
    /\ current' = [key |-> job[p].new, pass |-> job[p].pass]
    /\ Goto(p, "swapMeta")
    /\ UNCHANGED <<blobs, meta, index, retained, stage, nextGen, faults, id, cache, job>>

SwapMeta(p) ==
    /\ pc[p] = "swapMeta"
    /\ meta' = stage.meta
    /\ stage' = [stage EXCEPT !.meta = None]
    /\ Goto(p, "swapIndex")
    /\ UNCHANGED <<blobs, index, current, retained, nextGen, faults, id, cache, job>>

\* A store with no blobs has no staged index, and the rename fails.
SwapIndex(p) ==
    /\ pc[p] = "swapIndex"
    /\ \/ /\ stage.index # None
          /\ index' = stage.index
          /\ stage' = [stage EXCEPT !.index = None]
          /\ Goto(p, "sweep")
          /\ UNCHANGED <<id, cache, job>>
       \/ /\ stage.index = None
          /\ stage' = NoStage
          /\ Exit(p)
          /\ UNCHANGED index
    /\ UNCHANGED <<blobs, meta, current, retained, nextGen, faults>>

SweepBlob(p) ==
    /\ pc[p] = "sweep"
    /\ \E n \in job[p].names :
          /\ blobs' = [blobs EXCEPT ![n] = None]
          /\ job' = [job EXCEPT ![p].names = @ \ {n}]
    /\ UNCHANGED <<meta, index, current, retained, stage, nextGen, faults, pc, id, cache>>

RekeyDone(p) ==
    LET g == job[p].new
    IN  /\ pc[p] = "sweep" /\ job[p].names = {}
        /\ stage' = NoStage
        /\ id' = [id EXCEPT ![p].key = g, ![p].nk = g]
        /\ cache' = [cache EXCEPT ![p] =
              [entries |-> {BlobID(g, e.path) : e \in job[p].envs}, trusted |-> TRUE]]
        /\ Return(p)
        /\ UNCHANGED <<disk, nextGen, faults>>

---------------------------------------------------------------------------
\* Recovery passphrase and retained bundles (RewrapRecovery,
\* PruneSupersededBundles).

Passwd(p, pass) ==
    /\ Starts(p, "passwd") /\ MayStartAlone(p)
    /\ With(p, [NoJob EXCEPT !.pass = pass])
    /\ Goto(p, "rewrap")
    /\ UNCHANGED <<disk, stage, nextGen, faults, id, cache>>

Rewrap(p) ==
    /\ pc[p] = "rewrap"
    /\ current' = [key |-> id[p].key, pass |-> job[p].pass]
    /\ Goto(p, "choose")
    /\ UNCHANGED <<blobs, meta, index, retained, stage, nextGen, faults, id, cache, job>>

PruneBundles(p, pass) ==
    /\ Starts(p, "pruneBundles") /\ MayStartAlone(p)
    /\ With(p, [NoJob EXCEPT !.pass = pass])
    /\ Goto(p, "choose")
    /\ UNCHANGED <<disk, stage, nextGen, faults, id, cache>>

\* Mutant: the bundle retained for the live key is taken for the current one.
RetainedSlotsOfOldKeys == {g \in Gens : retained[g] # None /\ meta # None /\ g # meta.key}

RetainedSlots == {g \in Gens : retained[g] # None}

\* Mutant: a bundle that unwraps is kept, whatever key it carries.
UsableByPassphrase(b, pass) == b # None /\ b.pass = pass

\* The passphrase given opens the bundle, and its key opens the metadata.
Usable(b, pass) == OpensMeta(b) /\ b.pass = pass

\* The current bundle is tried first; the order of the others, by
\* fingerprint, says nothing about their age.
ChooseBundle(p) ==
    /\ pc[p] = "choose"
    /\ \/ /\ Usable(current, job[p].pass)
          /\ job' = [job EXCEPT ![p].slots = RetainedSlots]
          /\ Goto(p, "discard")
          /\ UNCHANGED <<id, cache>>
       \/ /\ ~Usable(current, job[p].pass)
          /\ \E g \in RetainedSlots :
                /\ Usable(retained[g], job[p].pass)
                /\ job' = [job EXCEPT ![p].slots = RetainedSlots \ {g}, ![p].keep = g]
          /\ Goto(p, "drop")
          /\ UNCHANGED <<id, cache>>
       \/ /\ ~Usable(current, job[p].pass)
          /\ \A g \in RetainedSlots : ~Usable(retained[g], job[p].pass)
          /\ Exit(p)
    /\ UNCHANGED <<disk, stage, nextGen, faults>>

\* Promote the working bundle: remove the current one, then rename it over.
DropBundle(p) ==
    /\ pc[p] = "drop"
    /\ current' = None
    /\ Goto(p, "promote")
    /\ UNCHANGED <<blobs, meta, index, retained, stage, nextGen, faults, id, cache, job>>

PromoteBundle(p) ==
    /\ pc[p] = "promote"
    /\ current' = retained[job[p].keep]
    /\ retained' = [retained EXCEPT ![job[p].keep] = None]
    /\ Goto(p, "discard")
    /\ UNCHANGED <<blobs, meta, index, stage, nextGen, faults, id, cache, job>>

DiscardBundle(p) ==
    /\ pc[p] = "discard"
    /\ \E g \in job[p].slots :
          /\ retained' = [retained EXCEPT ![g] = None]
          /\ job' = [job EXCEPT ![p].slots = @ \ {g}]
    /\ UNCHANGED <<blobs, meta, index, current, stage, nextGen, faults, pc, id, cache>>

BundlesDone(p) ==
    /\ pc[p] = "discard" /\ job[p].slots = {}
    /\ Return(p)
    /\ UNCHANGED <<disk, stage, nextGen, faults, id, cache>>

---------------------------------------------------------------------------
\* Orphans: blob-shaped files this key cannot read (PruneOrphans).

PruneOrphans(p) ==
    /\ Starts(p, "pruneOrphans")
    /\ With(p, [NoJob EXCEPT !.names = BlobFileNames(blobs)])
    /\ Goto(p, "orphans")
    /\ UNCHANGED <<disk, stage, nextGen, faults, id, cache>>

\* Mutant: a file that decrypts under a wrong name is an orphan too.
IsOrphanIfMisnamed(p, n) == ~Readable(blobs, id[p].key, id[p].nk, n)

\* Mutant: an orphan is what this process's index does not list.
IsOrphanIfUnlisted(p, n) == n \notin cache[p].entries

IsOrphan(p, n) ==
    /\ ~Readable(blobs, id[p].key, id[p].nk, n)
    /\ ~Misnamed(blobs, id[p].key, id[p].nk, n)

\* One turn of the loop is a look and an unlink.  Files that read back, and files
\* that decrypt under a wrong name, stay; a file that is gone counts as unreadable.
LookAtBlob(p) ==
    /\ pc[p] = "orphans"
    /\ \E n \in job[p].names :
          \/ /\ ~IsOrphan(p, n)
             /\ With(p, [job[p] EXCEPT !.names = @ \ {n}])
             /\ UNCHANGED pc
          \/ /\ IsOrphan(p, n)
             /\ With(p, [job[p] EXCEPT !.names = @ \ {n}, !.orphan = n, !.saw = blobs[n]])
             /\ Goto(p, "unlinkOrphan")
    /\ UNCHANGED <<disk, stage, nextGen, faults, id, cache>>

\* The unlink goes by the name, whatever the file holds by now; the command ends
\* when there is none.
UnlinkOrphan(p) ==
    LET n == job[p].orphan
    IN  /\ pc[p] = "unlinkOrphan"
        /\ \/ /\ blobs[n] # None
              /\ blobs' = [blobs EXCEPT ![n] = None]
              /\ With(p, [job[p] EXCEPT !.orphan = None, !.saw = None])
              /\ Goto(p, "orphans")
           \/ /\ blobs[n] = None
              /\ Return(p)
              /\ UNCHANGED blobs
        /\ UNCHANGED <<meta, index, current, retained, stage, nextGen, faults, id, cache>>

OrphansDone(p) ==
    /\ pc[p] = "orphans" /\ job[p].names = {}
    /\ Return(p)
    /\ UNCHANGED <<disk, stage, nextGen, faults, id, cache>>

---------------------------------------------------------------------------
\* Faults.

Fault == faults < MaxFaults /\ faults' = faults + 1

\* The process is killed.  What is on disk stays, the staging directory too.
Kill(p) ==
    /\ pc[p] \in BusyPcs
    /\ Fault
    /\ Exit(p)
    /\ UNCHANGED <<disk, stage, nextGen>>

\* The next step fails and the command returns its error.  A rekey clears the
\* staging directory; a secret command leaves the session usable.  A look that
\* fails ends nothing (LookFails).
Fail(p) ==
    /\ pc[p] \in BusyPcs
    /\ Fault
    /\ \/ /\ pc[p] \in RekeyPcs
          /\ stage' = NoStage
          /\ Exit(p)
       \/ /\ pc[p] \in (AlonePcs \ RekeyPcs) \cup {"meta"}
          /\ Exit(p)
          /\ UNCHANGED stage
       \/ /\ pc[p] \in SecretPcs \ {"orphans"}
          /\ Return(p)
          /\ UNCHANGED <<stage, id, cache>>
    /\ UNCHANGED <<disk, nextGen>>

\* A prune cannot read a file, and takes it for one its key does not decrypt.
LookFails(p) ==
    /\ pc[p] = "orphans"
    /\ Fault
    /\ \E n \in job[p].names :
          With(p, [job[p] EXCEPT !.names = @ \ {n}, !.orphan = n, !.saw = None])
    /\ Goto(p, "unlinkOrphan")
    /\ UNCHANGED <<disk, stage, nextGen, id, cache>>

\* The index goes missing or no longer verifies.
LoseIndex ==
    /\ index # None
    /\ Fault
    /\ index' = None
    /\ UNCHANGED <<blobs, meta, current, retained, stage, nextGen, pc, id, cache, job>>

\* Between commands, a blob is copied to a blob-shaped name that is not its own.
Misplace ==
    /\ \A p \in Procs : pc[p] = "closed"
    /\ Fault
    /\ \E n \in BlobFileNames(blobs), m \in Name :
          /\ blobs[m] = None /\ m[1] < nextGen
          /\ m # BlobID(blobs[n].key, blobs[n].path)
          /\ blobs' = [blobs EXCEPT ![m] = blobs[n]]
    /\ UNCHANGED <<meta, index, current, retained, stage, nextGen, pc, id, cache, job>>

---------------------------------------------------------------------------
Starting(p) ==
    \/ \E pass \in Passes, v \in Versions : InitStore(p, pass, v) \/ Open(p, pass, v)
    \/ Close(p)
    \/ \E path \in Paths, c \in Contents : Put(p, path, c)
    \/ \E path \in Paths : Remove(p, path)
    \/ \E from, to \in Paths : Move(p, from, to)
    \/ Reindex(p)
    \/ RaiseFloor(p)
    \/ RecordDigest(p)
    \/ \E pass \in Passes : Rekey(p, pass) \/ Passwd(p, pass) \/ PruneBundles(p, pass)
    \/ PruneOrphans(p)

\* One step of the command p is running.
Step(p) ==
    \/ InitBundle(p) \/ InitMeta(p)
    \/ WriteBlob(p) \/ Unlink(p) \/ WriteIndex(p)
    \/ WriteMeta(p)
    \/ StageBlob(p) \/ StageMeta(p) \/ Verify(p)
    \/ LandBlob(p) \/ RetainBundle(p) \/ WriteBundle(p)
    \/ SwapMeta(p) \/ SwapIndex(p) \/ SweepBlob(p) \/ RekeyDone(p)
    \/ Rewrap(p) \/ ChooseBundle(p) \/ DropBundle(p) \/ PromoteBundle(p)
    \/ DiscardBundle(p) \/ BundlesDone(p)
    \/ LookAtBlob(p) \/ UnlinkOrphan(p) \/ OrphansDone(p)

Next ==
    \/ \E p \in Procs : Starting(p) \/ Step(p) \/ Kill(p) \/ Fail(p) \/ LookFails(p)
    \/ LoseIndex
    \/ Misplace

Spec == Init /\ [][Next]_vars
=============================================================================
