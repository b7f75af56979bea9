---------------------------- MODULE VaultProofs ----------------------------
(***************************************************************************)
(* Where the secrets of a store are, for any number of processes, paths,   *)
(* secrets, identities and faults: the store implements the vault, only a  *)
(* removal takes a file the store's key opens, a finished rotation leaves  *)
(* nothing under the old key, and without faults a listing is exact.       *)
(* The assumptions are those of StoreProofs.                               *)
(***************************************************************************)
EXTENDS StoreBlobs, StoreProofs

---------------------------------------------------------------------------
\* What the steps leave alone.

\* The steps that write no blob, no staged file and no metadata.
Idle(p) ==
    \/ Close(p) \/ (\E path \in Paths, c \in Contents : Put(p, path, c))
    \/ (\E path \in Paths : Remove(p, path)) \/ (\E from, to \in Paths : Move(p, from, to))
    \/ Reindex(p) \/ RaiseFloor(p) \/ RecordDigest(p)
    \/ (\E pass \in Passes : Passwd(p, pass) \/ PruneBundles(p, pass)) \/ PruneOrphans(p)
    \/ InitBundle(p) \/ WriteIndex(p) \/ RetainBundle(p) \/ WriteBundle(p)
    \/ Rewrap(p) \/ ChooseBundle(p) \/ DropBundle(p) \/ PromoteBundle(p)
    \/ DiscardBundle(p) \/ BundlesDone(p) \/ LookAtBlob(p) \/ LookFails(p) \/ OrphansDone(p)
    \/ Kill(p)

\* A step that only Idle's actions take writes no secret, and generates no key.
LEMMA IdleStep ==
  ASSUME TypeOK, NEW p \in Procs, Idle(p)
  PROVE  /\ UNCHANGED <<blobs, meta, stage, nextGen>>
         /\ OthersKept(p)
         /\ pc'[p] # "closed" => /\ pc[p] # "closed"
                                 /\ id'[p].key = id[p].key /\ id'[p].nk = id[p].nk
         /\ pc'[p] \in RekeyPcs => /\ pc[p] \in {"land", "bundle"}
                                   /\ job'[p] = job[p]
<1> USE DEF TypeOK, OthersKept, Goto, With, Return, Exit, RekeyPcs, disk
<1>1. CASE \/ Close(p) \/ (\E path \in Paths, c \in Contents : Put(p, path, c))
           \/ (\E path \in Paths : Remove(p, path))
           \/ (\E from, to \in Paths : Move(p, from, to))
           \/ Reindex(p) \/ RecordDigest(p)
           \/ (\E pass \in Passes : Passwd(p, pass) \/ PruneBundles(p, pass)) \/ PruneOrphans(p)
  BY <1>1 DEF Close, Put, Remove, Move, Reindex, RecordDigest, Passwd, PruneBundles,
              PruneOrphans, Starts
<1>2. CASE RaiseFloor(p)
  BY <1>2 DEF RaiseFloor, Starts, Id
<1>3. CASE InitBundle(p) \/ WriteIndex(p) \/ RetainBundle(p) \/ WriteBundle(p) \/ Rewrap(p)
  BY <1>3 DEF InitBundle, WriteIndex, RetainBundle, WriteBundle, Rewrap
<1>4. CASE ChooseBundle(p)
  BY <1>4 DEF ChooseBundle
<1>5. CASE \/ DropBundle(p) \/ PromoteBundle(p) \/ DiscardBundle(p) \/ BundlesDone(p)
           \/ OrphansDone(p) \/ Kill(p)
  BY <1>5 DEF DropBundle, PromoteBundle, DiscardBundle, BundlesDone, OrphansDone, Kill
<1>6. CASE LookAtBlob(p) \/ LookFails(p)
  BY <1>6 DEF LookAtBlob, LookFails
<1> QED
  BY <1>1, <1>2, <1>3, <1>4, <1>5, <1>6 DEF Idle

---------------------------------------------------------------------------
\* Generations: nothing carries a key that is still to be generated.

\* Keys are numbers, so that one can be older than another.
LEMMA GenNat == Gens \subseteq Nat /\ \A g \in 1..(MaxGen + 1) : g \in Nat
BY ConstantsAssumption DEF Gens

\* Every step leaves the next key where it is or generates it.
LEMMA NextGenGrows ==
  ASSUME TypeOK, [Next]_vars
  PROVE  nextGen' = nextGen \/ nextGen' = nextGen + 1
<1>1. ASSUME NEW p \in Procs, Starting(p) PROVE nextGen' = nextGen \/ nextGen' = nextGen + 1
  BY <1>1 DEF Starting, InitStore, Open, Close, Put, Remove, Move, Reindex, RaiseFloor,
              RecordDigest, Rekey, Passwd, PruneBundles, PruneOrphans
<1>2. ASSUME NEW p \in Procs, Step(p) PROVE nextGen' = nextGen
  BY <1>2 DEF Step, InitBundle, InitMeta, WriteBlob, Unlink, WriteIndex, WriteMeta, StageBlob,
              StageMeta, Verify, LandBlob, RetainBundle, WriteBundle, SwapMeta, SwapIndex,
              SweepBlob, RekeyDone, Rewrap, ChooseBundle, DropBundle, PromoteBundle,
              DiscardBundle, BundlesDone, LookAtBlob, UnlinkOrphan, OrphansDone
<1>3. ASSUME NEW p \in Procs, Kill(p) \/ Fail(p) \/ LookFails(p) PROVE nextGen' = nextGen
  BY <1>3 DEF Kill, Fail, LookFails
<1>4. CASE LoseIndex \/ Misplace \/ UNCHANGED vars
  BY <1>4 DEF LoseIndex, Misplace, vars
<1> QED
  BY <1>1, <1>2, <1>3, <1>4 DEF Next

\* A later next key does not make an earlier one new again.
LEMMA StillGenerated ==
  ASSUME TypeOK, TypeOK', [Next]_vars, NEW g \in Nat, g < nextGen
  PROVE  g < nextGen'
<1>1. nextGen \in Nat /\ nextGen' \in Nat
  BY GenNat DEF TypeOK
<1> QED
  BY <1>1, NextGenGrows

\* Only three steps write the metadata.
LEMMA MetaWriters ==
  ASSUME [Next]_vars
  PROVE  UNCHANGED meta \/ \E p \in Procs : InitMeta(p) \/ WriteMeta(p) \/ SwapMeta(p)
<1>1. ASSUME NEW p \in Procs, Starting(p) PROVE UNCHANGED meta
  BY <1>1 DEF Starting, disk, InitStore, Open, Close, Put, Remove, Move, Reindex,
              RaiseFloor, RecordDigest, Rekey, Passwd, PruneBundles, PruneOrphans
<1>2. ASSUME NEW p \in Procs, Step(p)
      PROVE  UNCHANGED meta \/ InitMeta(p) \/ WriteMeta(p) \/ SwapMeta(p)
  BY <1>2
     DEF Step, disk, InitBundle, WriteBlob, Unlink, WriteIndex, StageBlob, StageMeta,
         Verify, LandBlob, RetainBundle, WriteBundle, SwapIndex, SweepBlob, RekeyDone,
         Rewrap, ChooseBundle, DropBundle, PromoteBundle, DiscardBundle, BundlesDone,
         LookAtBlob, UnlinkOrphan, OrphansDone
<1>3. ASSUME NEW p \in Procs, Kill(p) \/ Fail(p) \/ LookFails(p) PROVE UNCHANGED meta
  BY <1>3 DEF Kill, Fail, LookFails, disk
<1>4. CASE LoseIndex \/ Misplace \/ UNCHANGED vars
  BY <1>4 DEF LoseIndex, Misplace, vars, disk
<1> QED
  BY <1>1, <1>2, <1>3, <1>4 DEF Next

\* Neither does it make a file's keys new again.
LEMMA FilesStillGenerated ==
  ASSUME TypeOK, TypeOK', [Next]_vars, NEW files \in Files, FilesGenerated(files)
  PROVE  \A n \in Name : files[n] # None => n[1] < nextGen' /\ files[n].key < nextGen'
<1> SUFFICES ASSUME NEW n \in Name, files[n] # None
             PROVE  n[1] < nextGen' /\ files[n].key < nextGen'
  OBVIOUS
<1>1. n[1] \in Nat /\ n[1] < nextGen
  BY GenNat DEF FilesGenerated, Name
<1>2. files[n].key \in Nat /\ files[n].key < nextGen
  BY GenNat DEF FilesGenerated, Files, Blob
<1> QED
  BY <1>1, <1>2, StillGenerated

\* The metadata of a store and of each of its sessions stays one pair's.
LEMMA NextMetaGenerated ==
  ASSUME IInv, IInv', BlobInv, [Next]_vars
  PROVE  MetaGenerated'
<1> USE DEF IInv, TypeInv, Phase, BlobInv, Generations
<1>1. ASSUME NEW p \in Procs, InitMeta(p) \/ WriteMeta(p) PROVE MetaGenerated'
  <2>1. id[p].nk = id[p].key /\ id[p].key < nextGen /\ nextGen' = nextGen
    BY <1>1 DEF ProcGenerated, InitMeta, WriteMeta
  <2>2. meta' = [key |-> id[p].key, nk |-> id[p].nk, floor |-> id[p].floor]
    BY <1>1 DEF InitMeta, WriteMeta, SessionMeta
  <2> QED
    BY <2>1, <2>2 DEF MetaGenerated
<1>2. ASSUME NEW p \in Procs, SwapMeta(p) PROVE MetaGenerated'
  <2>1. meta' = [key |-> job[p].new, nk |-> job[p].new, floor |-> id[p].floor]
    BY <1>2 DEF SwapMeta, RekeyPhase, StagedMeta
  <2>2. job[p].new < nextGen /\ nextGen' = nextGen
    BY <1>2 DEF SwapMeta, ProcGenerated, RekeyPcs
  <2> QED
    BY <2>1, <2>2 DEF MetaGenerated
<1>3. CASE UNCHANGED meta
  <2> SUFFICES ASSUME meta # None PROVE meta.nk = meta.key /\ meta.key < nextGen'
    BY <1>3 DEF MetaGenerated
  <2>1. meta.key \in Nat
    BY GenNat DEF TypeOK, Meta
  <2> QED
    BY <2>1, StillGenerated DEF MetaGenerated
<1> QED
  BY <1>1, <1>2, <1>3, MetaWriters

\* One step of a process's own.
Moves(p) == Starting(p) \/ Step(p) \/ Kill(p) \/ Fail(p) \/ LookFails(p)

\* Such a step changes no other process's state.
LEMMA OneMoves ==
  ASSUME TypeOK, NEW p \in Procs, Moves(p)
  PROVE  OthersKept(p)
<1> USE DEF TypeOK, OthersKept, Goto, With, Return, Exit
<1>1. CASE Starting(p)
  BY <1>1 DEF Starting, InitStore, Open, Close, Put, Remove, Move, Reindex, RaiseFloor,
              RecordDigest, Rekey, Passwd, PruneBundles, PruneOrphans
<1>2. CASE Step(p)
  <2>1. CASE \/ InitBundle(p) \/ InitMeta(p) \/ WriteBlob(p) \/ Unlink(p) \/ WriteIndex(p)
             \/ WriteMeta(p) \/ StageBlob(p) \/ StageMeta(p) \/ LandBlob(p)
    BY <2>1 DEF InitBundle, InitMeta, WriteBlob, Unlink, WriteIndex, WriteMeta, StageBlob,
                StageMeta, LandBlob
  <2>2. CASE Verify(p)
    BY <2>2 DEF Verify
  <2>3. CASE \/ RetainBundle(p) \/ WriteBundle(p) \/ SwapMeta(p) \/ SwapIndex(p) \/ SweepBlob(p)
             \/ RekeyDone(p) \/ Rewrap(p)
    BY <2>3 DEF RetainBundle, WriteBundle, SwapMeta, SwapIndex, SweepBlob, RekeyDone, Rewrap
  <2>4. CASE ChooseBundle(p)
    BY <2>4 DEF ChooseBundle
  <2>5. CASE \/ DropBundle(p) \/ PromoteBundle(p) \/ DiscardBundle(p) \/ BundlesDone(p)
             \/ UnlinkOrphan(p) \/ OrphansDone(p)
    BY <2>5 DEF DropBundle, PromoteBundle, DiscardBundle, BundlesDone, UnlinkOrphan, OrphansDone
  <2>6. CASE LookAtBlob(p)
    BY <2>6 DEF LookAtBlob
  <2> QED
    BY <1>2, <2>1, <2>2, <2>3, <2>4, <2>5, <2>6 DEF Step
<1>3. CASE Kill(p) \/ Fail(p)
  BY <1>3 DEF Kill, Fail
<1>4. CASE LookFails(p)
  BY <1>4 DEF LookFails
<1> QED
  BY <1>1, <1>2, <1>3, <1>4 DEF Moves

\* The pair of keys a process works with after its own step.
LEMMA SessionAfter ==
  ASSUME TypeOK, NEW p \in Procs, Moves(p)
  PROVE  \/ pc'[p] = "closed"
         \/ pc[p] # "closed" /\ id'[p].key = id[p].key /\ id'[p].nk = id[p].nk
         \/ nextGen' = nextGen + 1 /\ id'[p].key = nextGen /\ id'[p].nk = nextGen
         \/ meta # None /\ id'[p].key = meta.key /\ id'[p].nk = meta.nk
         \/ pc[p] = "sweep" /\ id'[p].key = job[p].new /\ id'[p].nk = job[p].new
<1> USE DEF TypeOK, Goto, With, Return, Exit
<1>1. CASE \E pass \in Passes, v \in Versions : InitStore(p, pass, v) \/ Open(p, pass, v)
  BY <1>1 DEF InitStore, Open
<1>2. CASE RekeyDone(p)
  BY <1>2 DEF RekeyDone, Id
<1>3. CASE Idle(p)
  BY <1>3, IdleStep
<1>4. CASE \/ InitMeta(p) \/ WriteBlob(p) \/ Unlink(p) \/ WriteMeta(p) \/ StageBlob(p)
           \/ StageMeta(p) \/ Verify(p) \/ LandBlob(p) \/ SwapMeta(p) \/ SwapIndex(p)
           \/ SweepBlob(p) \/ UnlinkOrphan(p)
  BY <1>4 DEF InitMeta, WriteBlob, Unlink, WriteMeta, StageBlob, StageMeta, Verify, LandBlob,
              SwapMeta, SwapIndex, SweepBlob, UnlinkOrphan
<1>5. CASE Fail(p)
  BY <1>5 DEF Fail, SecretPcs
<1>6. CASE \E pass \in Passes : Rekey(p, pass)
  BY <1>6 DEF Rekey, Starts
<1> QED
  BY <1>1, <1>2, <1>3, <1>4, <1>5, <1>6 DEF Moves, Starting, Step, Idle

\* The key a rotation works towards after its own step.
LEMMA RotationAfter ==
  ASSUME TypeOK, NEW p \in Procs, Moves(p), pc'[p] \in RekeyPcs
  PROVE  \/ \E pass \in Passes : Rekey(p, pass)
         \/ pc[p] \in RekeyPcs /\ job'[p].new = job[p].new /\ job'[p].envs = job[p].envs
<1> USE DEF TypeOK, Goto, With, Return, Exit, RekeyPcs
<1>1. CASE Idle(p)
  BY <1>1, IdleStep
<1>2. CASE \/ \E pass \in Passes, v \in Versions : InitStore(p, pass, v) \/ Open(p, pass, v)
           \/ InitMeta(p) \/ WriteBlob(p) \/ Unlink(p) \/ WriteMeta(p) \/ UnlinkOrphan(p)
           \/ RekeyDone(p)
  BY <1>2 DEF InitStore, Open, InitMeta, WriteBlob, Unlink, WriteMeta, UnlinkOrphan, RekeyDone
<1>3. CASE \/ StageBlob(p) \/ StageMeta(p) \/ LandBlob(p) \/ SwapMeta(p) \/ SwapIndex(p)
  BY <1>3 DEF StageBlob, StageMeta, LandBlob, SwapMeta, SwapIndex
<1>4. CASE Verify(p) \/ SweepBlob(p)
  BY <1>4 DEF Verify, SweepBlob, Job
<1>5. CASE Fail(p)
  BY <1>5 DEF Fail, SecretPcs
<1> QED
  BY <1>1, <1>2, <1>3, <1>4, <1>5 DEF Moves, Starting, Step, Idle

\* No process works with, or towards, a key that is still to be generated.
LEMMA NextProcGenerated ==
  ASSUME IInv, IInv', BlobInv, [Next]_vars, NEW q \in Procs
  PROVE  ProcGenerated(q)'
<1> USE DEF IInv, TypeInv, BlobInv, Generations
<1>0. nextGen \in Nat
  BY GenNat DEF TypeOK
<1>1. CASE pc'[q] = pc[q] /\ id'[q] = id[q] /\ job'[q] = job[q]
  <2>1. pc[q] # "closed" => id[q].key < nextGen'
    BY GenNat, StillGenerated DEF ProcGenerated, Arguments
  <2>2. pc[q] \in RekeyPcs => job[q].new < nextGen'
    BY GenNat, StillGenerated DEF ProcGenerated, Arguments
  <2> QED
    BY <1>1, <2>1, <2>2 DEF ProcGenerated
<1>2. CASE Moves(q)
  <2>1. pc'[q] # "closed" => id'[q].nk = id'[q].key /\ id'[q].key < nextGen'
    <3>1. CASE pc[q] # "closed" /\ id'[q].key = id[q].key /\ id'[q].nk = id[q].nk
      <4>1. id[q].key \in Nat /\ id[q].nk = id[q].key /\ id[q].key < nextGen
        BY <3>1, GenNat DEF ProcGenerated, Arguments
      <4> QED
        BY <3>1, <4>1, StillGenerated
    <3>2. CASE nextGen' = nextGen + 1 /\ id'[q].key = nextGen /\ id'[q].nk = nextGen
      BY <3>2, <1>0
    <3>3. CASE meta # None /\ id'[q].key = meta.key /\ id'[q].nk = meta.nk
      <4>1. meta.key \in Nat /\ meta.nk = meta.key /\ meta.key < nextGen
        BY <3>3, GenNat DEF MetaGenerated, TypeOK, Meta
      <4> QED
        BY <3>3, <4>1, StillGenerated
    <3>4. CASE pc[q] = "sweep" /\ id'[q].key = job[q].new /\ id'[q].nk = job[q].new
      <4>1. job[q].new \in Nat /\ job[q].new < nextGen
        BY <3>4, GenNat DEF ProcGenerated, Arguments, RekeyPcs
      <4> QED
        BY <3>4, <4>1, StillGenerated
    <3> QED
      BY <1>2, <3>1, <3>2, <3>3, <3>4, SessionAfter
  <2>2. pc'[q] \in RekeyPcs => job'[q].new < nextGen'
    <3>1. ASSUME NEW pass \in Passes, Rekey(q, pass) PROVE job'[q].new < nextGen'
      BY <3>1, <1>0 DEF Rekey, With, TypeOK, NoJob
    <3>2. ASSUME pc[q] \in RekeyPcs, job'[q].new = job[q].new PROVE job'[q].new < nextGen'
      <4>1. job[q].new \in Nat /\ job[q].new < nextGen
        BY <3>2, GenNat DEF ProcGenerated, Arguments
      <4> QED
        BY <3>2, <4>1, StillGenerated
    <3> QED
      BY <1>2, <3>1, <3>2, RotationAfter
  <2> QED
    BY <2>1, <2>2 DEF ProcGenerated
<1>3. ASSUME NEW p \in Procs, Moves(p), p # q PROVE pc'[q] = pc[q] /\ id'[q] = id[q] /\ job'[q] = job[q]
  BY <1>3, OneMoves DEF OthersKept
<1>4. CASE LoseIndex \/ Misplace \/ UNCHANGED vars
  BY <1>1, <1>4 DEF LoseIndex, Misplace, vars
<1> QED
  BY <1>1, <1>2, <1>3, <1>4 DEF Next, Moves

\* Six steps write the root.
LEMMA BlobWriters ==
  ASSUME TypeOK, [Next]_vars
  PROVE  \/ UNCHANGED blobs
         \/ Misplace
         \/ \E p \in Procs : \/ WriteBlob(p) \/ Unlink(p) \/ LandBlob(p) \/ SweepBlob(p)
                             \/ UnlinkOrphan(p)
<1>1. ASSUME NEW p \in Procs, Idle(p) PROVE UNCHANGED blobs
  BY <1>1, IdleStep
<1>2. ASSUME NEW p \in Procs,
             \/ \E pass \in Passes, v \in Versions : InitStore(p, pass, v) \/ Open(p, pass, v)
             \/ \E pass \in Passes : Rekey(p, pass)
             \/ InitMeta(p) \/ WriteMeta(p) \/ StageBlob(p) \/ StageMeta(p) \/ Verify(p)
             \/ SwapMeta(p) \/ SwapIndex(p) \/ RekeyDone(p) \/ Fail(p)
      PROVE  UNCHANGED blobs
  BY <1>2 DEF InitStore, Open, Rekey, InitMeta, WriteMeta, StageBlob, StageMeta, Verify,
              SwapMeta, SwapIndex, RekeyDone, Fail, disk
<1>3. CASE LoseIndex \/ UNCHANGED vars
  BY <1>3 DEF LoseIndex, vars, disk
<1> QED
  BY <1>1, <1>2, <1>3 DEF Next, Starting, Step, Idle

\* Two steps write staged blobs, the others leave or clear them.
LEMMA StageWriters ==
  ASSUME TypeOK, [Next]_vars
  PROVE  \/ stage'.blobs = stage.blobs
         \/ stage' = NoStage
         \/ \E p \in Procs : StageBlob(p) \/ LandBlob(p)
<1> USE DEF TypeOK, Stage
<1>1. ASSUME NEW p \in Procs, Idle(p) PROVE UNCHANGED stage
  BY <1>1, IdleStep
<1>2. ASSUME NEW p \in Procs,
             \/ \E pass \in Passes, v \in Versions : InitStore(p, pass, v) \/ Open(p, pass, v)
             \/ \E pass \in Passes : Rekey(p, pass)
             \/ InitMeta(p) \/ WriteMeta(p) \/ WriteBlob(p) \/ Unlink(p) \/ Verify(p)
             \/ SweepBlob(p) \/ UnlinkOrphan(p) \/ RekeyDone(p) \/ Fail(p)
      PROVE  stage' = NoStage \/ UNCHANGED stage
  BY <1>2 DEF InitStore, Open, Rekey, InitMeta, WriteMeta, WriteBlob, Unlink, Verify,
              SweepBlob, UnlinkOrphan, RekeyDone, Fail
<1>3. ASSUME NEW p \in Procs, StageMeta(p) \/ SwapMeta(p)
      PROVE  stage'.blobs = stage.blobs
  BY <1>3 DEF StageMeta, SwapMeta
<1>4. ASSUME NEW p \in Procs, SwapIndex(p)
      PROVE  stage'.blobs = stage.blobs \/ stage' = NoStage
  BY <1>4 DEF SwapIndex
<1>5. CASE LoseIndex \/ Misplace \/ UNCHANGED vars
  BY <1>5 DEF LoseIndex, Misplace, vars
<1> QED
  BY <1>1, <1>2, <1>3, <1>4, <1>5 DEF Next, Starting, Step, Idle

\* The one step that lands a blob writes what was staged under its name.
LEMMA LandStep ==
  ASSUME TypeOK, NEW p \in Procs, LandBlob(p)
  PROVE  \E n \in BlobFileNames(stage.blobs) :
            /\ blobs' = [blobs EXCEPT ![n] = stage.blobs[n]]
            /\ stage'.blobs = [stage.blobs EXCEPT ![n] = None]
            /\ stage'.meta = stage.meta /\ stage'.index = stage.index
BY DEF LandBlob, TypeOK, Stage

\* No step puts a file in the root under, or sealed by, a key still to come.
LEMMA NextBlobsGenerated ==
  ASSUME IInv, IInv', BlobInv, [Next]_vars
  PROVE  FilesGenerated(blobs)'
<1> USE DEF IInv, TypeInv, BlobInv, Generations
<1> SUFFICES ASSUME NEW n \in Name, blobs'[n] # None
             PROVE  n[1] < nextGen' /\ blobs'[n].key < nextGen'
  BY DEF FilesGenerated
<1>0. blobs[n] # None => n[1] < nextGen' /\ blobs[n].key < nextGen'
  BY FilesStillGenerated DEF TypeOK
<1>1. CASE UNCHANGED blobs
  BY <1>0, <1>1
<1>2. CASE Misplace
  <2>1. PICK s \in BlobFileNames(blobs), m \in Name :
               m[1] < nextGen /\ blobs' = [blobs EXCEPT ![m] = blobs[s]]
    BY <1>2 DEF Misplace
  <2>2. m[1] < nextGen'
    BY <2>1, GenNat, StillGenerated DEF Name
  <2>3. s \in Name /\ blobs[s].key < nextGen'
    BY <2>1, FilesStillGenerated DEF TypeOK, BlobFileNames
  <2> QED
    BY <1>0, <2>1, <2>2, <2>3 DEF TypeOK, Files
<1>3. ASSUME NEW p \in Procs, WriteBlob(p) PROVE n[1] < nextGen' /\ blobs'[n].key < nextGen'
  <2>1. id[p].nk = id[p].key /\ id[p].key \in Nat /\ id[p].key < nextGen'
    BY <1>3, GenNat, StillGenerated DEF WriteBlob, ProcGenerated, Arguments
  <2> QED
    BY <1>0, <1>3, <2>1 DEF WriteBlob, BlobID, TypeOK, Files
<1>4. ASSUME NEW p \in Procs, Unlink(p) \/ SweepBlob(p) \/ UnlinkOrphan(p)
      PROVE  n[1] < nextGen' /\ blobs'[n].key < nextGen'
  BY <1>0, <1>4 DEF Unlink, SweepBlob, UnlinkOrphan, TypeOK, Files
<1>5. ASSUME NEW p \in Procs, LandBlob(p)
      PROVE  n[1] < nextGen' /\ blobs'[n].key < nextGen'
  <2>1. \A m \in Name : stage.blobs[m] # None => m[1] < nextGen' /\ stage.blobs[m].key < nextGen'
    BY FilesStillGenerated DEF TypeOK, Stage
  <2> QED
    BY <1>0, <1>5, <2>1, LandStep DEF TypeOK, Files, BlobFileNames
<1> QED
  BY <1>1, <1>2, <1>3, <1>4, <1>5, BlobWriters

\* Nor in the staging directory.
LEMMA NextStagedGenerated ==
  ASSUME IInv, IInv', BlobInv, [Next]_vars
  PROVE  FilesGenerated(stage.blobs)'
<1> USE DEF IInv, TypeInv, BlobInv, Generations
<1> SUFFICES ASSUME NEW n \in Name, stage'.blobs[n] # None
             PROVE  n[1] < nextGen' /\ stage'.blobs[n].key < nextGen'
  BY DEF FilesGenerated
<1>0. stage.blobs[n] # None => n[1] < nextGen' /\ stage.blobs[n].key < nextGen'
  BY FilesStillGenerated DEF TypeOK, Stage
<1>1. CASE stage'.blobs = stage.blobs
  BY <1>0, <1>1
<1>2. CASE stage' = NoStage
  BY <1>2 DEF NoStage, NoBlobs
<1>3. ASSUME NEW p \in Procs, StageBlob(p)
      PROVE  n[1] < nextGen' /\ stage'.blobs[n].key < nextGen'
  <2>1. PICK e \in Unstaged(p) : StageBlob(p)!(e)
    BY <1>3 DEF StageBlob
  <2> DEFINE m == BlobID(job[p].new, e.path)
  <2> DEFINE b == [key |-> job[p].new, path |-> e.path, content |-> e.content]
  <2>2. stage'.blobs = [stage.blobs EXCEPT ![m] = b]
    BY <2>1
  <2>3. job[p].new \in Nat /\ job[p].new < nextGen'
    BY <2>1, GenNat, StillGenerated DEF ProcGenerated, Arguments, RekeyPcs
  <2> QED
    BY <1>0, <2>2, <2>3 DEF BlobID, TypeOK, Stage, Files
<1>4. ASSUME NEW p \in Procs, LandBlob(p)
      PROVE  n[1] < nextGen' /\ stage'.blobs[n].key < nextGen'
  BY <1>0, <1>4, LandStep DEF TypeOK, Stage, Files
<1> QED
  BY <1>1, <1>2, <1>3, <1>4, StageWriters

---------------------------------------------------------------------------
\* Before the first secret, and before a removal.

\* A process that works with the store finds its metadata there.
LEMMA MetaThere ==
  ASSUME IInv, NEW p \in Procs,
         pc[p] \in SyncedPcs \cup {"swapIndex", "sweep"}
  PROVE  meta # None
<1> USE DEF IInv, TypeInv, Phase
<1>1. CASE pc[p] \in SyncedPcs
  BY <1>1 DEF InSync
<1>2. CASE pc[p] \in {"swapIndex", "sweep"}
  <2>1. meta = [key |-> job[p].new, nk |-> job[p].new, floor |-> id[p].floor]
    BY <1>2 DEF RekeyPhase
  <2>2. job[p].new \in Gens /\ id[p].floor \in Versions \cup {0}
    BY <1>2 DEF Arguments, RekeyPcs, TypeOK, Id
  <2> QED
    BY <2>1, <2>2, NoneAssumption DEF Meta
<1> QED
  BY <1>1, <1>2

\* A directory without metadata has no blobs.
LEMMA NextEmptyAtFirst ==
  ASSUME IInv, IInv', BlobInv, [Next]_vars
  PROVE  EmptyAtFirst'
<1> USE DEF IInv, TypeInv, BlobInv
<1> SUFFICES ASSUME meta' = None PROVE blobs' = NoBlobs
  BY DEF EmptyAtFirst
<1>1. ASSUME NEW p \in Procs, InitMeta(p) PROVE FALSE
  <2>1. SessionMeta(p) \in Meta
    BY <1>1 DEF InitMeta, Arguments, SessionMeta, TypeOK, Meta, Id
  <2> QED
    BY <1>1, <2>1, NoneAssumption DEF InitMeta
<1>2. meta = None
  BY FloorStep, <1>1
<1>3. blobs = NoBlobs
  BY <1>2 DEF EmptyAtFirst
<1>4. ASSUME NEW p \in Procs,
             WriteBlob(p) \/ Unlink(p) \/ LandBlob(p) \/ SweepBlob(p) \/ UnlinkOrphan(p)
      PROVE  FALSE
  <2>1. pc[p] \in SyncedPcs \cup {"swapIndex", "sweep"}
    BY <1>4 DEF WriteBlob, Unlink, LandBlob, SweepBlob, UnlinkOrphan, SyncedPcs, SecretPcs
  <2> QED
    BY <1>2, <2>1, MetaThere
<1>5. CASE Misplace
  BY <1>3, <1>5 DEF Misplace, NoBlobs, BlobFileNames
<1> QED
  BY <1>3, <1>4, <1>5, BlobWriters

\* A command reaches its removal with a path to remove, and one that creates a
\* store has none.
LEMMA NextRemovals ==
  ASSUME TypeOK, TypeOK', Removals, [Next]_vars
  PROVE  Removals'
<1> SUFFICES ASSUME NEW q \in Procs
             PROVE  /\ pc'[q] = "unlink" => job'[q].from \in Paths
                    /\ pc'[q] \in InitPcs => job'[q].from = None
  BY DEF Removals
<1> USE DEF TypeOK, Goto, With, Return, Exit, InitPcs
<1> DEFINE Kept == pc'[q] = pc[q] /\ job'[q].from = job[q].from
<1> DEFINE Away == pc'[q] \notin {"unlink", "initBundle", "initMeta"}
<1>1. ASSUME NEW pass \in Passes, NEW v \in Versions, InitStore(q, pass, v)
      PROVE  pc'[q] = "initBundle" /\ job'[q].from = None
  BY <1>1 DEF InitStore, NoJob
<1>2. ASSUME NEW path \in Paths, Remove(q, path)
      PROVE  pc'[q] = "unlink" /\ job'[q].from \in Paths
  BY <1>2 DEF Remove, NoJob
<1>3. CASE InitBundle(q)
  BY <1>3 DEF InitBundle, Removals
<1>4. CASE WriteIndex(q)
  BY <1>4 DEF WriteIndex, Job
<1>5. ASSUME \/ \E pass \in Passes, v \in Versions : Open(q, pass, v)
             \/ Close(q) \/ (\E path \in Paths, c \in Contents : Put(q, path, c))
             \/ (\E from, to \in Paths : Move(q, from, to))
             \/ Reindex(q) \/ RaiseFloor(q) \/ RecordDigest(q)
             \/ (\E pass \in Passes : Rekey(q, pass) \/ Passwd(q, pass) \/ PruneBundles(q, pass))
             \/ PruneOrphans(q)
      PROVE  Away
  BY <1>5 DEF Open, Close, Put, Move, Reindex, RaiseFloor, RecordDigest, Rekey, Passwd,
              PruneBundles, PruneOrphans
<1>6. CASE \/ InitMeta(q) \/ WriteBlob(q) \/ Unlink(q) \/ WriteMeta(q) \/ StageBlob(q)
           \/ StageMeta(q) \/ Verify(q) \/ LandBlob(q) \/ RetainBundle(q) \/ WriteBundle(q)
           \/ SwapMeta(q) \/ SwapIndex(q) \/ SweepBlob(q) \/ RekeyDone(q)
  BY <1>6 DEF InitMeta, WriteBlob, Unlink, WriteMeta, StageBlob, StageMeta, Verify, LandBlob,
              RetainBundle, WriteBundle, SwapMeta, SwapIndex, SweepBlob, RekeyDone
<1>7. CASE \/ Rewrap(q) \/ ChooseBundle(q) \/ DropBundle(q) \/ PromoteBundle(q)
           \/ DiscardBundle(q) \/ BundlesDone(q) \/ UnlinkOrphan(q) \/ OrphansDone(q)
           \/ Kill(q) \/ Fail(q) \/ LookAtBlob(q) \/ LookFails(q)
  BY <1>7 DEF Rewrap, ChooseBundle, DropBundle, PromoteBundle, DiscardBundle, BundlesDone,
              UnlinkOrphan, OrphansDone, Kill, Fail, LookAtBlob, LookFails
<1>8. ASSUME NEW p \in Procs, Moves(p), p # q PROVE Kept
  BY <1>8, OneMoves DEF OthersKept
<1>9. ASSUME LoseIndex \/ Misplace \/ UNCHANGED vars PROVE Kept
  BY <1>9 DEF LoseIndex, Misplace, vars
<1>10. Kept => /\ pc'[q] = "unlink" => job'[q].from \in Paths
               /\ pc'[q] \in InitPcs => job'[q].from = None
  BY DEF Removals
<1> QED
  BY <1>1, <1>2, <1>3, <1>4, <1>5, <1>6, <1>7, <1>8, <1>9, <1>10
     DEF Next, Moves, Starting, Step

---------------------------------------------------------------------------
\* A rotation, step by step.

\* While a process runs alone, no other takes a step.
LEMMA NoOtherMoves ==
  ASSUME Exclusive, IInv, NEW p \in Procs, NEW q \in Procs, p # q, pc[q] \in AlonePcs
  PROVE  ~Moves(p)
<1>1. pc[p] = "closed"
  BY DEF IInv, RunsAlone
<1>2. pc[q] # "closed"
  BY DEF AlonePcs, InitPcs, RekeyPcs, BundlePcs
<1>3. ~Starting(p)
  BY <1>1, <1>2
     DEF Starting, InitStore, Open, MayOpen, MayStartAlone, Close, Starts, Put, Remove, Move,
         Reindex, RaiseFloor, RecordDigest, Rekey, Passwd, PruneBundles, PruneOrphans
<1>4. ~Step(p)
  BY <1>1
     DEF Step, InitBundle, InitMeta, WriteBlob, Unlink, WriteIndex, WriteMeta, StageBlob,
         StageMeta, Verify, LandBlob, RetainBundle, WriteBundle, SwapMeta, SwapIndex,
         SweepBlob, RekeyDone, Rewrap, ChooseBundle, DropBundle, PromoteBundle,
         DiscardBundle, BundlesDone, LookAtBlob, UnlinkOrphan, OrphansDone
<1>5. ~Kill(p) /\ ~Fail(p) /\ ~LookFails(p)
  BY <1>1 DEF Kill, Fail, LookFails, BusyPcs, AlonePcs, InitPcs, RekeyPcs, BundlePcs, SecretPcs
<1> QED
  BY <1>3, <1>4, <1>5 DEF Moves

\* Who is not rotating has nothing to keep.
LEMMA NotRotating ==
  ASSUME NEW p \in Procs, pc'[p] \notin RekeyPcs
  PROVE  Rotation(p)'
BY DEF Rotation, Rotating, OriginalsStay, Staging, Landing, RekeyPcs

\* A rotation keeps what it knows when neither the files nor its variables change.
LEMMA SameRotation ==
  ASSUME NEW p \in Procs, Rotation(p), id'[p] = id[p], job'[p] = job[p], pc'[p] = pc[p],
         blobs' = blobs, stage'.blobs = stage.blobs
  PROVE  Rotation(p)'
BY SMTT(60) DEF Rotation, Rotating, OriginalsStay, Staging, Landing, OldName, NewName, Original, Copy,
       Unstaged, BlobFileNames

\* The keys of a rotation, and its secrets.
LEMMA RotationKeys ==
  ASSUME IInv, BlobInv, NEW p \in Procs, pc[p] \in RekeyPcs
  PROVE  /\ id[p].key \in Gens /\ job[p].new \in Gens
         /\ id[p].nk = id[p].key /\ job[p].new # id[p].key
         /\ job[p].envs \subseteq Env
         /\ \A e \in job[p].envs : /\ OldName(p, e) \in Name /\ NewName(p, e) \in Name
                                   /\ Original(p, e) \in Blob /\ Copy(p, e) \in Blob
<1> USE DEF IInv, TypeInv, BlobInv, Generations
<1>1. id[p].key \in Gens /\ job[p].new \in Gens
  BY DEF Arguments, RekeyPcs
<1>2. id[p].nk = id[p].key /\ job[p].new # id[p].key
  BY DEF ProcGenerated, RekeyPcs, Rotation, Rotating
<1>3. job[p].envs \subseteq Env
  BY DEF TypeOK, Job
<1> QED
  BY <1>1, <1>2, <1>3, Names DEF OldName, NewName, Original, Copy, Env, Blob

\* A rotation starts from a root where every file is one of the secrets it read.
LEMMA RekeyStep ==
  ASSUME IInv, IInv', BlobInv, NEW p \in Procs, NEW pass \in Passes, Rekey(p, pass)
  PROVE  Rotation(p)'
<1> USE DEF IInv, TypeInv, TypeOK, BlobInv, Generations
<1>0. pc'[p] = "stage" /\ blobs' = blobs /\ stage' = stage /\ id' = id
  BY DEF Rekey, Goto, disk
<1>1. job'[p].new = nextGen /\ job'[p].envs = ReadAll(blobs)
  BY DEF Rekey, With, NoJob
<1>2. id[p].nk = id[p].key /\ id[p].key \in Nat /\ id[p].key < nextGen
  BY GenNat DEF Rekey, Starts, ProcGenerated, Arguments
<1>3. \A n \in BlobFileNames(blobs) : blobs[n].key = id[p].key /\ n = <<id[p].nk, blobs[n].path>>
  BY DEF Rekey, AllReadable, Readable, Decrypts, BlobID
<1>4. Rotating(p)'
  <2>1. nextGen # id[p].key
    BY <1>2
  <2>2. \A d, e \in ReadAll(blobs) : d.path = e.path => d = e
    BY <1>3 DEF ReadAll
  <2> QED
    BY <1>0, <1>1, <2>1, <2>2 DEF Rotating
<1>5. ASSUME NEW e \in ReadAll(blobs)
      PROVE  blobs[<<id[p].nk, e.path>>] = [key |-> id[p].key, path |-> e.path, content |-> e.content]
  <2>1. PICK n \in BlobFileNames(blobs) : e = [path |-> blobs[n].path, content |-> blobs[n].content]
    BY DEF ReadAll
  <2>2. blobs[n] \in Blob /\ n = <<id[p].nk, e.path>> /\ blobs[n].key = id[p].key
    BY <1>3, <2>1 DEF BlobFileNames, Files
  <2> QED
    BY <2>1, <2>2 DEF Blob
<1>6. OriginalsStay(p)'
  BY <1>0, <1>1, <1>5 DEF OriginalsStay, OldName, Original, BlobID
<1>7. Staging(p)'
  <2>1. ASSUME NEW n \in BlobFileNames(blobs)
        PROVE  \E e \in ReadAll(blobs) : n = <<id[p].nk, e.path>>
    <3>1. [path |-> blobs[n].path, content |-> blobs[n].content] \in ReadAll(blobs)
      BY DEF ReadAll
    <3> QED
      BY <1>3, <3>1
  <2>2. ASSUME NEW n \in BlobFileNames(stage.blobs) PROVE n[1] # nextGen
    <3>1. n[1] \in Nat /\ n[1] < nextGen
      BY GenNat DEF FilesGenerated, BlobFileNames, Name
    <3> QED
      BY <3>1
  <2> QED
    BY <1>0, <1>1, <2>1, <2>2 DEF Staging, OldName, BlobID, BlobFileNames
<1>8. Landing(p)'
  BY <1>0 DEF Landing
<1> QED
  BY <1>4, <1>6, <1>7, <1>8 DEF Rotation

\* A blob that is staged is a copy under the new key.
LEMMA StageBlobStep ==
  ASSUME IInv, IInv', BlobInv, NEW p \in Procs, StageBlob(p)
  PROVE  Rotation(p)'
<1> USE DEF IInv, TypeInv, TypeOK, BlobInv
<1>0. pc[p] = "stage" /\ pc' = pc /\ blobs' = blobs /\ id' = id /\ job' = job
  BY DEF StageBlob, disk
<1>1. PICK e \in Unstaged(p) : StageBlob(p)!(e)
  BY DEF StageBlob
<1> DEFINE m == NewName(p, e)
<1>2. e \in job[p].envs /\ m \in Name
  BY <1>0, <1>1, RotationKeys DEF Unstaged, RekeyPcs
<1>3. stage'.blobs = [stage.blobs EXCEPT ![m] = Copy(p, e)]
  BY <1>1 DEF NewName, Copy
<1>4. stage.blobs \in [Name -> Blob \cup {None}]
  BY DEF Stage, Files
<1>5. Rotating(p)' /\ OriginalsStay(p)' /\ Landing(p)'
  BY <1>0 DEF Rotation, Rotating, OriginalsStay, Landing, OldName, Original
<1>6. Staging(p)'
  <2>1. \A n \in BlobFileNames(blobs) : \E d \in job[p].envs : n = OldName(p, d)
    BY <1>0 DEF Rotation, Staging
  <2>2. ASSUME NEW n \in Name, stage'.blobs[n] # None, n[1] = job[p].new
        PROVE  \E d \in job[p].envs : n = NewName(p, d) /\ stage'.blobs[n] = Copy(p, d)
    <3>1. CASE n = m
      BY <1>2, <1>3, <1>4, <3>1
    <3>2. CASE n # m
      <4>1. stage'.blobs[n] = stage.blobs[n]
        BY <1>3, <1>4, <3>2
      <4> QED
        BY <1>0, <2>2, <4>1 DEF Rotation, Staging, BlobFileNames
    <3> QED
      BY <3>1, <3>2
  <2> QED
    BY <1>0, <2>1, <2>2 DEF Staging, OldName, NewName, Copy, BlobFileNames
<1> QED
  BY <1>5, <1>6 DEF Rotation

\* What was verified is staged: each secret has its copy, and there is nothing else.
LEMMA VerifyStep ==
  ASSUME IInv, IInv', BlobInv, NEW p \in Procs, Verify(p)
  PROVE  Rotation(p)'
<1> USE DEF IInv, TypeInv, TypeOK, BlobInv
<1>0. pc[p] = "verify" /\ blobs' = blobs
  BY DEF Verify, disk
<1>1. CASE pc'[p] \notin RekeyPcs
  BY <1>1, NotRotating
<1>2. CASE StagedWell(p) /\ pc'[p] = "land" /\ job' = [job EXCEPT ![p].names = BlobFileNames(blobs)]
           /\ stage' = stage /\ id' = id
  <2>1. job'[p].new = job[p].new /\ job'[p].envs = job[p].envs /\ job'[p].names = BlobFileNames(blobs)
    BY <1>2 DEF Job
  <2>2. Rotating(p) /\ OriginalsStay(p) /\ Staging(p)
    BY DEF Rotation
  <2>3. Rotating(p)' /\ OriginalsStay(p)' /\ Staging(p)'
    BY <1>0, <1>2, <2>1, <2>2
       DEF Rotating, OriginalsStay, Staging, OldName, Original, RekeyPcs
  <2>4. ASSUME NEW n \in BlobFileNames(stage.blobs)
        PROVE  \E e \in job[p].envs : n = NewName(p, e) /\ stage.blobs[n] = Copy(p, e)
    <3>1. n = BlobID(job[p].new, stage.blobs[n].path)
      BY <1>2 DEF StagedWell, AllReadable, Readable
    <3> QED
      BY <1>0, <2>2, <3>1 DEF Staging, BlobID
  <2>5. ASSUME NEW e \in job[p].envs PROVE stage.blobs[NewName(p, e)] = Copy(p, e)
    <3>1. NewName(p, e) \in BlobFileNames(stage.blobs)
      BY <1>0, <2>2, RotationKeys DEF Staging, Unstaged, NewName, BlobFileNames, RekeyPcs
    <3>2. PICK d \in job[p].envs :
                 NewName(p, e) = NewName(p, d) /\ stage.blobs[NewName(p, e)] = Copy(p, d)
      BY <2>4, <3>1
    <3>3. d = e
      BY <1>0, <2>2, <3>2 DEF Rotating, RekeyPcs, NewName, BlobID
    <3> QED
      BY <3>2, <3>3
  <2>6. ASSUME NEW n \in BlobFileNames(blobs)
        PROVE  (\E e \in job[p].envs : n = OldName(p, e)) /\ blobs[n].key = id[p].key
    <3>1. PICK e \in job[p].envs : n = OldName(p, e)
      BY <1>0, <2>2 DEF Staging
    <3>2. blobs[n] = Original(p, e)
      BY <1>0, <2>2, <3>1 DEF OriginalsStay
    <3> QED
      BY <3>1, <3>2 DEF Original
  <2>7. Landing(p)'
    BY <1>0, <1>2, <2>1, <2>4, <2>5, <2>6, SMTT(60) DEF Landing, NewName, OldName, Copy, BlobFileNames
  <2> QED
    BY <2>3, <2>7 DEF Rotation
<1> QED
  BY <1>1, <1>2 DEF Verify, Exit, Goto, RekeyPcs

\* A blob that lands goes from its staged name to the same name in the root.
LEMMA LandBlobStep ==
  ASSUME IInv, IInv', BlobInv, NEW p \in Procs, LandBlob(p)
  PROVE  Rotation(p)'
<1> USE DEF IInv, TypeInv, TypeOK, BlobInv
<1>0. pc[p] = "land" /\ pc' = pc /\ id' = id /\ job' = job
  BY DEF LandBlob
<1>1. PICK m \in BlobFileNames(stage.blobs) :
             /\ blobs' = [blobs EXCEPT ![m] = stage.blobs[m]]
             /\ stage'.blobs = [stage.blobs EXCEPT ![m] = None]
  BY LandStep
<1>2. blobs \in [Name -> Blob \cup {None}] /\ stage.blobs \in [Name -> Blob \cup {None}]
  BY DEF Stage, Files
<1>3. Landing(p) /\ Rotating(p) /\ OriginalsStay(p)
  BY DEF Rotation
<1>4. PICK d \in job[p].envs : m = NewName(p, d) /\ stage.blobs[m] = Copy(p, d)
  BY <1>0, <1>1, <1>3 DEF Landing
<1>5. m \in Name /\ stage.blobs[m] # None
  BY <1>1 DEF BlobFileNames
<1>6. \A e \in job[p].envs : /\ OldName(p, e) # m
                             /\ OldName(p, e) \in Name /\ NewName(p, e) \in Name
                             /\ NewName(p, e) = m => e = d
  BY <1>0, <1>3, <1>4, RotationKeys DEF RekeyPcs, OldName, NewName, BlobID, Rotating
<1>7. Rotating(p)' /\ Staging(p)'
  BY <1>0, <1>3 DEF Rotating, Staging
<1>8. OriginalsStay(p)'
  BY <1>0, <1>1, <1>2, <1>3, <1>6 DEF OriginalsStay, OldName, Original
<1>9. Landing(p)'
  <2>1. ASSUME NEW e \in job[p].envs
        PROVE  stage'.blobs[NewName(p, e)] = Copy(p, e) \/ blobs'[NewName(p, e)] = Copy(p, e)
    <3>1. CASE NewName(p, e) = m
      BY <1>1, <1>2, <1>4, <1>5, <1>6, <3>1
    <3>2. CASE NewName(p, e) # m
      BY <1>0, <1>1, <1>2, <1>3, <1>6, <3>2 DEF Landing
    <3> QED
      BY <3>1, <3>2
  <2>2. ASSUME NEW n \in Name, stage'.blobs[n] # None
        PROVE  \E e \in job[p].envs : n = NewName(p, e) /\ stage'.blobs[n] = Copy(p, e)
    <3>1. n # m /\ stage'.blobs[n] = stage.blobs[n]
      BY <1>1, <1>2, <2>2
    <3> QED
      BY <1>0, <1>3, <2>2, <3>1 DEF Landing, BlobFileNames
  <2>3. ASSUME NEW n \in Name, blobs'[n] # None
        PROVE  \/ n \in job[p].names
               \/ \E e \in job[p].envs : n = NewName(p, e) /\ blobs'[n] = Copy(p, e)
    <3>1. CASE n = m
      BY <1>1, <1>2, <1>4, <1>5, <3>1
    <3>2. CASE n # m
      <4>1. blobs'[n] = blobs[n]
        BY <1>1, <1>2, <3>2
      <4> QED
        BY <1>0, <1>3, <2>3, <4>1 DEF Landing, BlobFileNames
    <3> QED
      BY <3>1, <3>2
  <2>4. ASSUME NEW n \in job[p].names
        PROVE  /\ \E e \in job[p].envs : n = OldName(p, e)
               /\ blobs'[n] # None => blobs'[n].key = id[p].key
    <3>1. \E e \in job[p].envs : n = OldName(p, e)
      BY <1>0, <1>3 DEF Landing
    <3>2. n # m /\ n \in Name
      BY <1>6, <3>1
    <3>3. blobs'[n] = blobs[n]
      BY <1>1, <1>2, <3>2
    <3> QED
      BY <1>0, <1>3, <3>1, <3>3 DEF Landing
  <2> QED
    BY <1>0, <2>1, <2>2, <2>3, <2>4, SMTT(60) DEF Landing, NewName, OldName, Copy, BlobFileNames
<1> QED
  BY <1>7, <1>8, <1>9 DEF Rotation

\* A file that is swept is one of the old names.
LEMMA SweepBlobStep ==
  ASSUME IInv, IInv', BlobInv, NEW p \in Procs, SweepBlob(p)
  PROVE  Rotation(p)'
<1> USE DEF IInv, TypeInv, TypeOK, BlobInv
<1>0. pc[p] = "sweep" /\ pc' = pc /\ id' = id /\ stage' = stage
  BY DEF SweepBlob
<1>1. PICK m \in job[p].names : /\ blobs' = [blobs EXCEPT ![m] = None]
                                /\ job' = [job EXCEPT ![p].names = @ \ {m}]
  BY DEF SweepBlob
<1>2. blobs \in [Name -> Blob \cup {None}]
  BY DEF Files
<1>3. job'[p].new = job[p].new /\ job'[p].envs = job[p].envs /\ job'[p].names = job[p].names \ {m}
  BY <1>1 DEF Job
<1>4. Landing(p) /\ Rotating(p)
  BY DEF Rotation
<1>5. PICK d \in job[p].envs : m = OldName(p, d)
  BY <1>0, <1>4 DEF Landing
<1>6. m \in Name /\ \A e \in job[p].envs : NewName(p, e) # m /\ NewName(p, e) \in Name
  BY <1>0, <1>5, RotationKeys DEF RekeyPcs, OldName, NewName, BlobID
<1>7. Rotating(p)' /\ OriginalsStay(p)' /\ Staging(p)'
  BY <1>0, <1>3, <1>4 DEF Rotating, OriginalsStay, Staging
<1>8. Landing(p)'
  <2>1. ASSUME NEW e \in job[p].envs
        PROVE  stage.blobs[NewName(p, e)] = Copy(p, e) \/ blobs'[NewName(p, e)] = Copy(p, e)
    BY <1>0, <1>1, <1>2, <1>4, <1>6 DEF Landing
  <2>2. ASSUME NEW n \in Name, blobs'[n] # None
        PROVE  \/ n \in job[p].names \ {m}
               \/ \E e \in job[p].envs : n = NewName(p, e) /\ blobs'[n] = Copy(p, e)
    <3>1. n # m /\ blobs'[n] = blobs[n]
      BY <1>1, <1>2, <1>6, <2>2
    <3> QED
      BY <1>0, <1>4, <2>2, <3>1 DEF Landing, BlobFileNames
  <2>3. ASSUME NEW n \in job[p].names \ {m}
        PROVE  /\ \E e \in job[p].envs : n = OldName(p, e)
               /\ blobs'[n] # None => blobs'[n].key = id[p].key
    <3>1. n \in Name
      BY DEF Job
    <3>2. blobs'[n] = blobs[n]
      BY <1>1, <1>2, <3>1
    <3> QED
      BY <1>0, <1>4, <3>2 DEF Landing
  <2> QED
    BY <1>0, <1>3, <1>4, <2>1, <2>2, <2>3, SMTT(60) DEF Landing, NewName, OldName, Copy, BlobFileNames
<1> QED
  BY <1>7, <1>8 DEF Rotation

\* Between landing and sweeping, the bundle, the metadata and the index move on.
LEMMA SwapStep ==
  ASSUME IInv, IInv', BlobInv, NEW p \in Procs,
         \/ StageMeta(p) \/ RetainBundle(p) \/ WriteBundle(p) \/ SwapMeta(p)
         \/ SwapIndex(p) /\ pc'[p] = "sweep"
  PROVE  Rotation(p)'
<1> USE DEF IInv, TypeInv, TypeOK, BlobInv
<1>1. blobs' = blobs /\ stage'.blobs = stage.blobs /\ id' = id /\ job' = job
  BY DEF StageMeta, RetainBundle, WriteBundle, SwapMeta, SwapIndex, NoStage, disk, Stage, Exit, Goto
<1>2. Rotating(p) /\ OriginalsStay(p) /\ Staging(p) /\ Landing(p)
  BY DEF Rotation
<1>3. CASE StageMeta(p)
  <2>1. pc[p] = "stage" /\ pc'[p] = "verify" /\ Unstaged(p) = {}
    BY <1>3 DEF StageMeta, Goto
  <2>2. Rotating(p)' /\ OriginalsStay(p)' /\ Landing(p)'
    BY <1>1, <1>2, <2>1 DEF Rotating, RekeyPcs, OriginalsStay, OldName, Original, Landing
  <2>3. Staging(p)'
    BY <1>1, <1>2, <2>1, SMTT(60) DEF Staging, Unstaged, OldName, NewName, Copy, BlobFileNames
  <2> QED
    BY <2>2, <2>3 DEF Rotation
<1>4. CASE RetainBundle(p) \/ WriteBundle(p) \/ SwapMeta(p) \/ (SwapIndex(p) /\ pc'[p] = "sweep")
  <2>1. /\ pc[p] \in {"land", "bundle", "swapMeta", "swapIndex"}
        /\ pc'[p] \in {"bundle", "swapMeta", "swapIndex", "sweep"}
        /\ pc'[p] \in {"bundle", "swapMeta"} => pc[p] \in {"land", "bundle"}
    BY <1>4 DEF RetainBundle, WriteBundle, SwapMeta, SwapIndex, Goto
  <2>2. BlobFileNames(stage.blobs) = {}
    BY <1>2, <1>4 DEF RetainBundle, WriteBundle, SwapMeta, SwapIndex, Landing
  <2>3. Rotating(p)' /\ OriginalsStay(p)' /\ Staging(p)'
    BY <1>1, <1>2, <2>1 DEF Rotating, RekeyPcs, OriginalsStay, OldName, Original, Staging
  <2>4. Landing(p)'
    BY <1>1, <1>2, <2>1, <2>2, SMTT(60) DEF Landing, OldName, NewName, Copy, BlobFileNames
  <2> QED
    BY <2>3, <2>4 DEF Rotation
<1> QED
  BY <1>3, <1>4

\* Every step of a process keeps its own rotation on course.
LEMMA OwnRotation ==
  ASSUME IInv, IInv', BlobInv, NEW p \in Procs, Moves(p)
  PROVE  Rotation(p)'
<1> SUFFICES ASSUME pc'[p] \in RekeyPcs PROVE Rotation(p)'
  BY NotRotating
<1> USE DEF IInv, TypeInv, TypeOK, Goto, With, Return, Exit, RekeyPcs
<1>1. ASSUME NEW pass \in Passes, Rekey(p, pass) PROVE Rotation(p)'
  BY <1>1, RekeyStep
<1>2. CASE StageBlob(p) \/ Verify(p) \/ LandBlob(p) \/ SweepBlob(p)
  BY <1>2, StageBlobStep, VerifyStep, LandBlobStep, SweepBlobStep
<1>3. CASE StageMeta(p) \/ RetainBundle(p) \/ WriteBundle(p) \/ SwapMeta(p)
  BY <1>3, SwapStep
<1>4. CASE SwapIndex(p)
  <2>1. pc'[p] = "sweep"
    BY <1>4 DEF SwapIndex
  <2> QED
    BY <1>4, <2>1, SwapStep
<1>5. ASSUME \/ \E pass \in Passes, v \in Versions : InitStore(p, pass, v) \/ Open(p, pass, v)
             \/ Close(p) \/ (\E path \in Paths, c \in Contents : Put(p, path, c))
             \/ (\E path \in Paths : Remove(p, path))
             \/ (\E from, to \in Paths : Move(p, from, to))
             \/ Reindex(p) \/ RaiseFloor(p) \/ RecordDigest(p)
             \/ (\E pass \in Passes : Passwd(p, pass) \/ PruneBundles(p, pass))
             \/ PruneOrphans(p)
      PROVE  FALSE
  BY <1>5 DEF InitStore, Open, Close, Put, Remove, Move, Reindex, RaiseFloor, RecordDigest,
              Passwd, PruneBundles, PruneOrphans
<1>6. ASSUME \/ InitBundle(p) \/ InitMeta(p) \/ WriteBlob(p) \/ Unlink(p) \/ WriteIndex(p)
             \/ WriteMeta(p) \/ RekeyDone(p) \/ Rewrap(p)
      PROVE  FALSE
  BY <1>6 DEF InitBundle, InitMeta, WriteBlob, Unlink, WriteIndex, WriteMeta, RekeyDone, Rewrap
<1>7. ASSUME \/ ChooseBundle(p) \/ DropBundle(p) \/ PromoteBundle(p) \/ DiscardBundle(p)
             \/ BundlesDone(p) \/ LookAtBlob(p) \/ UnlinkOrphan(p) \/ OrphansDone(p)
             \/ Kill(p) \/ Fail(p) \/ LookFails(p)
      PROVE  FALSE
  BY <1>7 DEF ChooseBundle, DropBundle, PromoteBundle, DiscardBundle, BundlesDone, LookAtBlob,
              UnlinkOrphan, OrphansDone, Kill, Fail, LookFails
<1> QED
  BY <1>1, <1>2, <1>3, <1>4, <1>5, <1>6, <1>7 DEF Moves, Starting, Step

\* Every step of the system keeps every rotation on course.
LEMMA NextRotation ==
  ASSUME Exclusive, IInv, IInv', BlobInv, [Next]_vars, NEW q \in Procs
  PROVE  Rotation(q)'
<1>1. CASE pc[q] \notin RekeyPcs /\ pc'[q] = pc[q]
  BY <1>1, NotRotating
<1>2. CASE Moves(q)
  BY <1>2, OwnRotation
<1>3. ASSUME NEW p \in Procs, Moves(p), p # q PROVE Rotation(q)'
  <2>1. pc[q] \notin AlonePcs
    BY <1>3, NoOtherMoves
  <2>2. pc'[q] = pc[q]
    BY <1>3, OneMoves DEF OthersKept, IInv, TypeInv
  <2> QED
    BY <1>1, <2>1, <2>2 DEF AlonePcs
<1>4. CASE LoseIndex \/ UNCHANGED vars
  BY <1>4, SameRotation DEF LoseIndex, vars, disk, BlobInv
<1>5. CASE Misplace
  BY <1>1, <1>5 DEF Misplace, RekeyPcs
<1> QED
  BY <1>2, <1>3, <1>4, <1>5 DEF Next, Moves

---------------------------------------------------------------------------
\* A prune, between a look and its unlink.

\* Only a look, one that fails included, leads to the unlink.
LEMMA OnlyLooksUnlink ==
  ASSUME TypeOK, NEW q \in Procs, Moves(q), pc'[q] = "unlinkOrphan"
  PROVE  LookAtBlob(q) \/ LookFails(q)
<1> USE DEF TypeOK, Goto, With, Return, Exit
<1>1. ASSUME \/ Starting(q) \/ Kill(q) \/ Fail(q)
             \/ InitBundle(q) \/ InitMeta(q) \/ WriteBlob(q) \/ Unlink(q) \/ WriteIndex(q)
             \/ WriteMeta(q)
      PROVE  FALSE
  BY <1>1 DEF Starting, InitStore, Open, Close, Put, Remove, Move, Reindex, RaiseFloor,
              RecordDigest, Rekey, Passwd, PruneBundles, PruneOrphans, Kill, Fail, InitBundle,
              InitMeta, WriteBlob, Unlink, WriteIndex, WriteMeta
<1>2. ASSUME \/ StageBlob(q) \/ StageMeta(q) \/ Verify(q) \/ LandBlob(q) \/ RetainBundle(q)
             \/ WriteBundle(q) \/ SwapMeta(q) \/ SwapIndex(q) \/ SweepBlob(q) \/ RekeyDone(q)
      PROVE  FALSE
  BY <1>2 DEF StageBlob, StageMeta, Verify, LandBlob, RetainBundle, WriteBundle, SwapMeta,
              SwapIndex, SweepBlob, RekeyDone
<1>3. ASSUME \/ Rewrap(q) \/ ChooseBundle(q) \/ DropBundle(q) \/ PromoteBundle(q)
             \/ DiscardBundle(q) \/ BundlesDone(q) \/ UnlinkOrphan(q) \/ OrphansDone(q)
      PROVE  FALSE
  BY <1>3 DEF Rewrap, ChooseBundle, DropBundle, PromoteBundle, DiscardBundle, BundlesDone,
              UnlinkOrphan, OrphansDone
<1> QED
  BY <1>1, <1>2, <1>3 DEF Moves, Step

\* The prune unlinks after a look that found nothing its key decrypts, or read nothing.
LEMMA NextLooksFirst ==
  ASSUME IInv, BlobInv, [Next]_vars, NEW q \in Procs
  PROVE  LooksFirst(q)'
<1> USE DEF IInv, TypeInv, TypeOK, Goto, With, Return, Exit
<1> SUFFICES ASSUME pc'[q] = "unlinkOrphan" PROVE ~Decrypts(id'[q].key, job'[q].saw)
  BY DEF LooksFirst
<1>1. ASSUME pc'[q] = pc[q], id'[q] = id[q], job'[q] = job[q]
      PROVE  ~Decrypts(id'[q].key, job'[q].saw)
  BY <1>1 DEF BlobInv, LooksFirst
<1>2. CASE LookAtBlob(q)
  <2>1. pc[q] = "orphans" /\ id' = id
    BY <1>2 DEF LookAtBlob
  <2>2. PICK n \in job[q].names : LookAtBlob(q)!2!(n)
    BY <1>2 DEF LookAtBlob
  <2>3. IsOrphan(q, n)
    BY <2>1, <2>2
  <2>4. job' = [job EXCEPT ![q] = [job[q] EXCEPT !.names = @ \ {n}, !.orphan = n, !.saw = blobs[n]]]
    BY <2>2, <2>3
  <2>5. [job[q] EXCEPT !.names = @ \ {n}, !.orphan = n, !.saw = blobs[n]].saw = blobs[n]
    BY DEF Job
  <2>6. job'[q].saw = blobs[n]
    BY <2>4, <2>5
  <2> QED
    BY <2>1, <2>3, <2>6 DEF IsOrphan, Readable, Misnamed, Decrypts
<1>3. CASE LookFails(q)
  <2>1. PICK n \in job[q].names :
           job' = [job EXCEPT ![q] = [job[q] EXCEPT !.names = @ \ {n}, !.orphan = n, !.saw = None]]
    BY <1>3 DEF LookFails
  <2>2. [job[q] EXCEPT !.names = @ \ {n}, !.orphan = n, !.saw = None].saw = None
    BY DEF Job
  <2> QED
    BY <2>1, <2>2 DEF Decrypts
<1>4. ASSUME NEW p \in Procs, Moves(p), p # q
      PROVE  pc'[q] = pc[q] /\ id'[q] = id[q] /\ job'[q] = job[q]
  BY <1>4, OneMoves DEF OthersKept
<1>5. ASSUME LoseIndex \/ Misplace \/ UNCHANGED vars
      PROVE  pc'[q] = pc[q] /\ id'[q] = id[q] /\ job'[q] = job[q]
  BY <1>5 DEF LoseIndex, Misplace, vars
<1> QED
  BY <1>1, <1>2, <1>3, <1>4, <1>5, OnlyLooksUnlink DEF Next, Moves

---------------------------------------------------------------------------
\* The invariant.

\* An empty directory satisfies the invariant.
LEMMA InitBlobInv == Init => BlobInv
<1> SUFFICES ASSUME Init PROVE BlobInv
  OBVIOUS
<1>1. Generations
  BY DEF Init, Generations, MetaGenerated, ProcGenerated, FilesGenerated, NoBlobs, NoStage,
         RekeyPcs
<1>2. EmptyAtFirst /\ Removals
  BY DEF Init, EmptyAtFirst, Removals, InitPcs
<1>3. \A p \in Procs : Rotation(p)
  BY DEF Init, Rotation, Rotating, OriginalsStay, Staging, Landing, RekeyPcs
<1>4. \A p \in Procs : LooksFirst(p)
  BY DEF Init, LooksFirst
<1> QED
  BY <1>1, <1>2, <1>3, <1>4 DEF BlobInv

\* Every step preserves it.
LEMMA NextBlobInv ==
  ASSUME Exclusive, IInv, IInv', BlobInv, [Next]_vars
  PROVE  BlobInv'
<1>1. Generations'
  BY NextMetaGenerated, NextProcGenerated, NextBlobsGenerated, NextStagedGenerated
     DEF Generations
<1>2. EmptyAtFirst' /\ Removals'
  BY NextEmptyAtFirst, NextRemovals DEF BlobInv, IInv, TypeInv
<1>3. \A p \in Procs : Rotation(p)'
  BY NextRotation
<1>4. \A p \in Procs : LooksFirst(p)'
  BY NextLooksFirst
<1> QED
  BY <1>1, <1>2, <1>3, <1>4 DEF BlobInv

\* Where each secret is, at every step of every command.
THEOREM BlobInvariant == (Exclusive /\ TidyFirst) => (Spec => []BlobInv)
<1> SUFFICES ASSUME Exclusive, TidyFirst PROVE Spec => []BlobInv
  OBVIOUS
<1>1. Spec => []IInv
  BY StoreInvariant
<1>2. Init => BlobInv
  BY InitBlobInv
<1>3. IInv /\ IInv' /\ BlobInv /\ [Next]_vars => BlobInv'
  BY NextBlobInv
<1> QED
  BY <1>1, <1>2, <1>3, PTL DEF Spec

\* A rotation that returns has left only copies under the new key.
THEOREM RotationsComplete == (Exclusive /\ TidyFirst) => (Spec => RotationIsComplete)
<1> SUFFICES ASSUME Exclusive, TidyFirst PROVE Spec => RotationIsComplete
  OBVIOUS
<1>1. Spec => []IInv
  BY StoreInvariant
<1>2. Spec => []BlobInv
  BY BlobInvariant
<1> DEFINE Complete(p) ==
      /\ meta.key = job[p].new /\ meta.nk = job[p].new
      /\ \A n \in BlobFileNames(blobs) : Readable(blobs, job[p].new, job[p].new, n)
<1>3. ASSUME IInv, BlobInv, NEW p \in Procs, RekeyDone(p) PROVE Complete(p)
  <2>1. pc[p] = "sweep" /\ job[p].names = {}
    BY <1>3 DEF RekeyDone
  <2>2. meta = [key |-> job[p].new, nk |-> job[p].new, floor |-> id[p].floor]
    BY <1>3, <2>1 DEF IInv, Phase, RekeyPhase
  <2>3. ASSUME NEW n \in BlobFileNames(blobs) PROVE Readable(blobs, job[p].new, job[p].new, n)
    <3>1. PICK e \in job[p].envs : n = NewName(p, e) /\ blobs[n] = Copy(p, e)
      BY <1>3, <2>1 DEF BlobInv, Rotation, Landing
    <3> QED
      BY <3>1 DEF Readable, Decrypts, NewName, Copy, BlobFileNames
  <2> QED
    BY <2>2, <2>3
<1>4. IInv /\ BlobInv => \A p \in Procs : RekeyDone(p) => Complete(p)
  BY <1>3
<1> QED
  BY <1>1, <1>2, <1>4, PTL DEF Spec, RotationIsComplete

\* A step that takes a file the store's key opens is a removal, or the unlink of a
\* prune that did not see it.
LEMMA DeletesStep ==
  ASSUME IInv, BlobInv, [Next]_vars,
         NEW n \in Name, meta # None, Decrypts(meta.key, blobs[n]), blobs'[n] = None
  PROVE  \E p \in Procs : \/ pc[p] = "unlink" /\ n = BlobID(id[p].nk, job[p].from)
                          \/ UnlinksUnseen(p) /\ n = job[p].orphan
<1> USE DEF IInv, TypeInv, TypeOK, BlobInv, Phase
<1>0. blobs[n] \in Blob /\ blobs[n].key = meta.key /\ blobs \in [Name -> Blob \cup {None}]
  BY DEF Decrypts, Files
<1>1. CASE UNCHANGED blobs
  BY <1>0, <1>1, NoneAssumption
<1>2. CASE Misplace
  <2>1. PICK s \in BlobFileNames(blobs), m \in Name :
               blobs[m] = None /\ blobs' = [blobs EXCEPT ![m] = blobs[s]]
    BY <1>2 DEF Misplace
  <2> QED
    BY <1>0, <2>1, NoneAssumption
<1>3. ASSUME NEW p \in Procs, WriteBlob(p) PROVE FALSE
  <2> DEFINE b == [key |-> id[p].key, path |-> job[p].path, content |-> job[p].content]
  <2>1. b \in Blob
    BY <1>3 DEF WriteBlob, Arguments, Blob
  <2>2. blobs' = [blobs EXCEPT ![BlobID(id[p].nk, job[p].path)] = b]
    BY <1>3 DEF WriteBlob
  <2> QED
    BY <1>0, <2>1, <2>2, NoneAssumption
<1>4. ASSUME NEW p \in Procs, Unlink(p)
      PROVE  pc[p] = "unlink" /\ n = BlobID(id[p].nk, job[p].from)
  BY <1>0, <1>4, NoneAssumption DEF Unlink
<1>5. ASSUME NEW p \in Procs, LandBlob(p) PROVE FALSE
  BY <1>0, <1>5, LandStep, NoneAssumption DEF BlobFileNames
<1>6. ASSUME NEW p \in Procs, SweepBlob(p) PROVE FALSE
  <2>1. pc[p] = "sweep"
    BY <1>6 DEF SweepBlob
  <2>2. PICK m \in job[p].names : blobs' = [blobs EXCEPT ![m] = None]
    BY <1>6 DEF SweepBlob
  <2>3. n = m
    BY <1>0, <2>2, NoneAssumption
  <2>4. blobs[n].key = id[p].key
    BY <1>0, <2>1, <2>2, <2>3, NoneAssumption DEF Rotation, Landing
  <2>5. meta.key = job[p].new /\ job[p].new # id[p].key
    BY <2>1 DEF RekeyPhase, Rotation, Rotating, RekeyPcs
  <2> QED
    BY <1>0, <2>4, <2>5
<1>7. ASSUME NEW p \in Procs, UnlinkOrphan(p)
      PROVE  UnlinksUnseen(p) /\ n = job[p].orphan
  <2>1. pc[p] = "unlinkOrphan" /\ n = job[p].orphan
    BY <1>0, <1>7, NoneAssumption DEF UnlinkOrphan
  <2>2. id[p].key = meta.key
    BY <2>1 DEF InSync, SyncedPcs, SecretPcs
  <2>3. blobs[n] # job[p].saw
    BY <1>0, <2>1, <2>2, NoneAssumption DEF LooksFirst, Decrypts
  <2> QED
    BY <1>7, <2>1, <2>3 DEF UnlinksUnseen
<1> QED
  BY <1>1, <1>2, <1>3, <1>4, <1>5, <1>6, <1>7, BlobWriters

\* No sweep takes a file the store's key decrypts, and an orphan prune only one that
\* is not what its look read.
THEOREM OnlyRemovalsDelete == (Exclusive /\ TidyFirst) => (Spec => OnlyRemovalDeletes)
<1> SUFFICES ASSUME Exclusive, TidyFirst PROVE Spec => OnlyRemovalDeletes
  OBVIOUS
<1>1. Spec => []IInv
  BY StoreInvariant
<1>2. Spec => []BlobInv
  BY BlobInvariant
<1> DEFINE Kept ==
      \A n \in Name :
          (meta # None /\ Decrypts(meta.key, blobs[n]) /\ blobs'[n] = None) =>
              \E p \in Procs :
                  \/ pc[p] = "unlink" /\ n = BlobID(id[p].nk, job[p].from)
                  \/ UnlinksUnseen(p) /\ n = job[p].orphan
<1>3. ASSUME IInv, BlobInv, [Next]_vars PROVE Kept
  BY <1>3, DeletesStep
<1>4. IInv /\ BlobInv /\ [Next]_vars => [Kept]_vars
  BY <1>3
<1> QED
  BY <1>1, <1>2, <1>4, PTL DEF Spec, OnlyRemovalDeletes

---------------------------------------------------------------------------
\* The refinement: what a reader holds, and what the commands may still do.

\* What the vault sees of a state.
Held == [path \in Paths |-> Holds(path)]
Asked == [p \in Procs |-> AskedBy(p)]

\* Two blobs have one name only if they have one naming key and one path.
LEMMA BlobIDs ==
  ASSUME NEW g \in Gens, NEW h \in Gens, NEW s \in Paths, NEW t \in Paths
  PROVE  BlobID(g, s) = BlobID(h, t) <=> g = h /\ s = t
BY DEF BlobID

\* With the files and the keys unchanged, so is what a reader finds.
LEMMA SameHeld ==
  ASSUME blobs' = blobs, meta' = meta \/ (/\ meta # None /\ meta' # None
                                          /\ meta'.key = meta.key /\ meta'.nk = meta.nk)
  PROVE  Held' = Held
BY DEF Held, Holds, Readable, Decrypts

\* A step changes what is asked only for the process that takes it.
LEMMA SameAsked ==
  ASSUME NEW p \in Procs, OthersKept(p), AskedBy(p)' = AskedBy(p)
  PROVE  Asked' = Asked
<1>1. ASSUME NEW q \in Procs PROVE AskedBy(q)' = AskedBy(q)
  <2>1. CASE q = p
    BY <2>1
  <2>2. CASE q # p
    <3>1. pc'[q] = pc[q] /\ job'[q] = job[q]
      BY <2>2 DEF OthersKept
    <3> QED
      BY <3>1 DEF AskedBy
  <2> QED
    BY <2>1, <2>2
<1> QED
  BY <1>1 DEF Asked

\* A command that is at neither of the three steps may do nothing any more.
LEMMA NothingAsked ==
  ASSUME NEW p \in Procs
  PROVE  /\ pc[p] \notin {"blob", "index", "unlink"} => AskedBy(p) = {}
         /\ pc'[p] \notin {"blob", "index", "unlink"} => AskedBy(p)' = {}
         /\ (pc[p] = "index" /\ job[p].from = None) => AskedBy(p) = {}
         /\ (pc'[p] = "index" /\ job'[p].from = None) => AskedBy(p)' = {}
BY DEF AskedBy

\* After a step of p, only what p's command may do can have changed.
LEMMA AskedAfter ==
  ASSUME NEW p \in Procs, OthersKept(p)
  PROVE  Asked' = [Asked EXCEPT ![p] = AskedBy(p)']
<1>1. ASSUME NEW q \in Procs, q # p PROVE AskedBy(q)' = AskedBy(q)
  <2>1. pc'[q] = pc[q] /\ job'[q] = job[q]
    BY <1>1 DEF OthersKept
  <2> QED
    BY <2>1 DEF AskedBy
<1> QED
  BY <1>1 DEF Asked

\* A step that shows nothing is a stutter of the vault.
LEMMA Stutters ==
  ASSUME Held' = Held, Asked' = Asked
  PROVE  UNCHANGED V!vaultVars
BY DEF Held, Asked, V!vaultVars

\* A command that begins asks for its effects.
LEMMA Asks ==
  ASSUME NEW p \in Procs, NEW effects, OthersKept(p), Held' = Held,
         AskedBy(p) = {}, AskedBy(p)' = effects
  PROVE  V!Ask(p, effects)
<1>1. Asked' = [Asked EXCEPT ![p] = effects]
  BY AskedAfter
<1> QED
  BY <1>1 DEF Held, Asked, V!Ask

\* A command that ends early gives up what it had still to do.
LEMMA Gives ==
  ASSUME NEW p \in Procs, OthersKept(p), Held' = Held, AskedBy(p)' = {}
  PROVE  V!GiveUp(p)
<1>1. Asked' = [Asked EXCEPT ![p] = {}]
  BY AskedAfter
<1> QED
  BY <1>1 DEF Held, Asked, V!GiveUp

\* A command that changes one path fulfils one of its effects.
LEMMA Fulfils ==
  ASSUME NEW p \in Procs, OthersKept(p), NEW e \in AskedBy(p),
         e.secret = None => \A other \in AskedBy(p) : other.secret = None,
         Held' = [Held EXCEPT ![e.path] = e.secret],
         AskedBy(p)' = AskedBy(p) \ {e}
  PROVE  V!Fulfil(p)
<1>1. Asked' = [Asked EXCEPT ![p] = @ \ {e}]
  BY AskedAfter DEF Asked
<1> QED
  BY <1>1 DEF Held, Asked, V!Fulfil

\* One step of the vault, or none.
VaultStep == V!VaultNext \/ UNCHANGED V!vaultVars

\* A command that asks for a secret to be written, removed or moved.
LEMMA AskStep ==
  ASSUME IInv, "mvSelf" \notin Commands, NEW p \in Procs,
         \/ \E path \in Paths, c \in Contents : Put(p, path, c)
         \/ \E path \in Paths : Remove(p, path)
         \/ \E from, to \in Paths : Move(p, from, to)
  PROVE  VaultStep
<1> USE DEF IInv, TypeInv, TypeOK
<1>1. pc[p] = "open" /\ blobs' = blobs /\ meta' = meta
  BY DEF Put, Remove, Move, Starts, disk
<1>2. AskedBy(p) = {} /\ Held' = Held
  BY <1>1, NothingAsked, SameHeld
<1>3. OthersKept(p)
  BY OneMoves DEF Moves, Starting
<1>4. ASSUME NEW path \in Paths, NEW c \in Contents, Put(p, path, c) PROVE V!AskPut(p)
  <2>1. pc'[p] = "blob" /\ job'[p].path = path /\ job'[p].content = c /\ job'[p].from = None
    BY <1>4 DEF Put, Goto, With, NoJob
  <2>2. AskedBy(p)' = {[path |-> path, secret |-> c]}
    BY <2>1 DEF AskedBy
  <2>3. V!Ask(p, {[path |-> path, secret |-> c]})
    BY <1>2, <1>3, <2>2, Asks
  <2> QED
    BY <2>3 DEF V!AskPut, V!Holding
<1>5. ASSUME NEW path \in Paths, Remove(p, path) PROVE V!AskRemove(p)
  <2>1. pc'[p] = "unlink" /\ job'[p].from = path
    BY <1>5 DEF Remove, Goto, With, NoJob
  <2>2. AskedBy(p)' = {[path |-> path, secret |-> None]}
    BY <2>1, NoneAssumption DEF AskedBy
  <2>3. V!Ask(p, {[path |-> path, secret |-> None]})
    BY <1>2, <1>3, <2>2, Asks
  <2> QED
    BY <2>3 DEF V!AskRemove, V!Holding
<1>6. ASSUME NEW from \in Paths, NEW to \in Paths, Move(p, from, to) PROVE V!AskMove(p)
  <2> DEFINE n == BlobID(id[p].nk, from)
  <2> DEFINE effects == {[path |-> to, secret |-> blobs[n].content], [path |-> from, secret |-> None]}
  <2>1. from # to
    BY <1>6 DEF Move, Starts
  <2>2. meta # None /\ id[p].key = meta.key /\ id[p].nk = meta.nk
    BY <1>1 DEF Phase, InSync, SyncedPcs
  <2>3. Readable(blobs, id[p].key, id[p].nk, n)
    BY <1>6 DEF Move
  <2>4. n \in Name /\ blobs[n].content \in Contents
    BY <1>1, <2>3, Names DEF Arguments, Readable, Decrypts, Files, Blob
  <2>5. Held[from] = blobs[n].content /\ Held[from] # None
    BY <2>2, <2>3, <2>4, NoneAssumption DEF Held, Holds
  <2>6. /\ pc'[p] = "blob"
        /\ job'[p].path = to /\ job'[p].content = blobs[n].content /\ job'[p].from = from
    BY <1>6 DEF Move, Goto, With, NoJob
  <2>7. AskedBy(p)' = effects
    BY <2>6, NoneAssumption DEF AskedBy
  <2>8. V!Ask(p, effects)
    BY <1>2, <1>3, <2>7, Asks
  <2> QED
    BY <2>1, <2>5, <2>8 DEF V!AskMove, V!Holding, Held
<1> QED
  BY <1>4, <1>5, <1>6 DEF VaultStep, V!VaultNext

\* A process that works with the secrets has the keys of the store.
LEMMA Synced ==
  ASSUME IInv, NEW p \in Procs, pc[p] \in SyncedPcs
  PROVE  /\ meta # None /\ id[p].key = meta.key /\ id[p].nk = meta.nk
         /\ meta.key \in Gens /\ meta.nk \in Gens
BY DEF IInv, TypeInv, TypeOK, Meta, Phase, InSync

\* What a reader finds at a path depends on one file.
LEMMA HeldAt ==
  ASSUME meta # None, meta' # None, meta'.key = meta.key, meta'.nk = meta.nk,
         NEW path \in Paths,
         blobs'[BlobID(meta.nk, path)] = blobs[BlobID(meta.nk, path)]
  PROVE  Holds(path)' = Holds(path)
BY DEF Holds, Readable, Decrypts

\* What a reader holds, after a change at one path.
LEMMA HeldUpdate ==
  ASSUME NEW path \in Paths, NEW c, Holds(path)' = c,
         \A s \in Paths : s # path => Holds(s)' = Holds(s)
  PROVE  Held' = [Held EXCEPT ![path] = c]
BY DEF Held

\* A write that is asked for, of what is asked for.
LEMMA WriteBlobStep ==
  ASSUME IInv, NEW p \in Procs, WriteBlob(p)
  PROVE  VaultStep
<1> USE DEF IInv, TypeInv, TypeOK
<1>0. PICK path, c : path = job[p].path /\ c = job[p].content
  OBVIOUS
<1> DEFINE n == BlobID(id[p].nk, path)
<1> DEFINE b == [key |-> id[p].key, path |-> path, content |-> c]
<1> DEFINE e == [path |-> path, secret |-> c]
<1>1. /\ pc[p] = "blob" /\ pc'[p] = "index" /\ job' = job /\ meta' = meta
      /\ blobs' = [blobs EXCEPT ![n] = b]
  BY <1>0 DEF WriteBlob, Goto
<1>2. OthersKept(p)
  BY OneMoves DEF Moves, Step
<1>3. meta # None /\ id[p].key = meta.key /\ id[p].nk = meta.nk /\ meta.key \in Gens /\ meta.nk \in Gens
  BY <1>1, Synced DEF SyncedPcs, SecretPcs
<1>4. path \in Paths /\ c \in Contents /\ n \in Name /\ blobs \in [Name -> Blob \cup {None}]
  BY <1>0, <1>1, <1>3, Names DEF Arguments, Files
<1>5. b \in Blob /\ b # None /\ c # None
  BY <1>3, <1>4, NoneAssumption DEF Blob
<1>6. Held' = [Held EXCEPT ![path] = c]
  <2>1. Holds(path)' = c
    BY <1>1, <1>3, <1>4, <1>5 DEF Holds, Readable, Decrypts
  <2>2. ASSUME NEW s \in Paths, s # path PROVE Holds(s)' = Holds(s)
    <3>1. BlobID(meta.nk, s) # n
      BY <1>3, <1>4, <2>2, BlobIDs
    <3>2. blobs'[BlobID(meta.nk, s)] = blobs[BlobID(meta.nk, s)]
      BY <1>1, <1>3, <1>4, <3>1, Names
    <3> QED
      BY <1>1, <1>3, <3>2, HeldAt
  <2> QED
    BY <1>4, <2>1, <2>2, HeldUpdate
<1>7. /\ AskedBy(p) = {e} \cup {[path |-> job[p].from, secret |-> None] : x \in {job[p].from} \ {None}}
      /\ AskedBy(p)' = {[path |-> job[p].from, secret |-> None] : x \in {job[p].from} \ {None}}
  BY <1>0, <1>1 DEF AskedBy
<1>8. AskedBy(p)' = AskedBy(p) \ {e} /\ e \in AskedBy(p)
  BY <1>5, <1>7
<1>9. V!Fulfil(p)
  BY <1>2, <1>5, <1>6, <1>8, Fulfils
<1> QED
  BY <1>9 DEF VaultStep, V!VaultNext

\* A removal that is asked for, after the write it may come with.
LEMMA UnlinkStep ==
  ASSUME IInv, BlobInv, NEW p \in Procs, Unlink(p)
  PROVE  VaultStep
<1> USE DEF IInv, TypeInv, TypeOK
<1>0. PICK path : path = job[p].from
  OBVIOUS
<1> DEFINE n == BlobID(id[p].nk, path)
<1> DEFINE e == [path |-> path, secret |-> None]
<1>1. pc[p] = "unlink" /\ meta' = meta
  BY DEF Unlink
<1>2. OthersKept(p)
  BY OneMoves DEF Moves, Step
<1>3. meta # None /\ id[p].key = meta.key /\ id[p].nk = meta.nk /\ meta.key \in Gens /\ meta.nk \in Gens
  BY <1>1, Synced DEF SyncedPcs, SecretPcs
<1>4. path \in Paths /\ path # None /\ blobs \in [Name -> Blob \cup {None}]
  BY <1>0, <1>1, NoneAssumption DEF BlobInv, Removals, Files
<1>5. n \in Name
  BY <1>3, <1>4, Names
<1>6. CASE pc'[p] = "open" /\ job'[p] = NoJob /\ blobs' = blobs
  BY <1>1, <1>2, <1>6, SameHeld, NothingAsked, Gives DEF VaultStep, V!VaultNext
<1>7. CASE pc'[p] = "index" /\ job'[p].from = None /\ blobs' = [blobs EXCEPT ![n] = None]
  <2>1. Held' = [Held EXCEPT ![path] = None]
    <3>0. blobs'[BlobID(meta'.nk, path)] = None
      BY <1>1, <1>3, <1>4, <1>5, <1>7
    <3>1. Holds(path)' = None
      BY <3>0 DEF Holds, Readable, Decrypts
    <3>2. ASSUME NEW s \in Paths, s # path PROVE Holds(s)' = Holds(s)
      <4>1. BlobID(meta.nk, s) # n
        BY <1>3, <1>4, <3>2, BlobIDs
      <4>2. blobs'[BlobID(meta.nk, s)] = blobs[BlobID(meta.nk, s)]
        BY <1>3, <1>4, <1>7, <4>1, Names
      <4> QED
        BY <1>1, <1>3, <4>2, HeldAt
    <3> QED
      BY <1>4, <3>1, <3>2, HeldUpdate
  <2>2. AskedBy(p) = {e}
    BY <1>0, <1>1, <1>4 DEF AskedBy
  <2>3. AskedBy(p)' = AskedBy(p) \ {e}
    BY <1>7, <2>2, NothingAsked
  <2>4. V!Fulfil(p)
    BY <1>2, <2>1, <2>2, <2>3, Fulfils
  <2> QED
    BY <2>4 DEF VaultStep, V!VaultNext
<1> QED
  BY <1>0, <1>6, <1>7 DEF Unlink, Return, Goto, With, Job

\* A rotation shows the same secrets before and after it swaps the metadata.
LEMMA SwapMetaHeld ==
  ASSUME IInv, BlobInv, NEW p \in Procs, SwapMeta(p)
  PROVE  Held' = Held
<1> USE DEF IInv, TypeInv, TypeOK, BlobInv
<1>1. pc[p] = "swapMeta" /\ blobs' = blobs /\ blobs \in [Name -> Blob \cup {None}]
  BY DEF SwapMeta, Files
<1>2. meta # None /\ id[p].key = meta.key /\ id[p].nk = meta.nk /\ meta.key \in Gens /\ meta.nk \in Gens
  BY <1>1, Synced DEF SyncedPcs
<1>3. /\ id[p].nk = id[p].key /\ job[p].new \in Gens /\ job[p].new # id[p].key
      /\ \A e \in job[p].envs : Original(p, e) \in Blob /\ Copy(p, e) \in Blob
  BY <1>1, RotationKeys DEF RekeyPcs
<1>4. meta' # None /\ meta'.key = job[p].new /\ meta'.nk = job[p].new
  <2>1. meta' = [key |-> job[p].new, nk |-> job[p].new, floor |-> id[p].floor]
    BY <1>1 DEF SwapMeta, Phase, RekeyPhase, StagedMeta
  <2>2. meta' \in Meta
    BY <1>3, <2>1 DEF Meta, Id
  <2> QED
    BY <2>1, <2>2, NoneAssumption
<1>5. OriginalsStay(p) /\ Landing(p)
  BY DEF Rotation
<1>6. ASSUME NEW path \in Paths PROVE Holds(path)' = Holds(path)
  <2>1. CASE \E e \in job[p].envs : e.path = path
    <3>1. PICK e \in job[p].envs : e.path = path
      BY <2>1
    <3>2. blobs[BlobID(meta.nk, path)] = Original(p, e)
      BY <1>1, <1>2, <1>5, <3>1 DEF OriginalsStay, OldName
    <3>3. blobs[BlobID(job[p].new, path)] = Copy(p, e)
      <4>1. NewName(p, e) = BlobID(job[p].new, path) /\ NewName(p, e) \in Name
        BY <1>3, <3>1, Names DEF NewName
      <4>2. stage.blobs[NewName(p, e)] = None
        BY <1>1, <1>5, <4>1 DEF Landing, BlobFileNames
      <4>3. stage.blobs[NewName(p, e)] = Copy(p, e) \/ blobs[NewName(p, e)] = Copy(p, e)
        BY <1>1, <1>5 DEF Landing
      <4>4. Copy(p, e) # None
        BY <1>3, NoneAssumption
      <4> QED
        BY <4>1, <4>2, <4>3, <4>4
    <3>4. Original(p, e) # None /\ Copy(p, e) # None
      BY <1>3, NoneAssumption
    <3>5. Holds(path) = e.content
      BY <1>2, <3>1, <3>2, <3>4 DEF Holds, Readable, Decrypts, Original
    <3>6. Holds(path)' = e.content
      BY <1>1, <1>4, <3>1, <3>3, <3>4 DEF Holds, Readable, Decrypts, Copy
    <3> QED
      BY <3>5, <3>6
  <2>2. CASE ~\E e \in job[p].envs : e.path = path
    <3>1. \A n \in BlobFileNames(blobs) :
             \E e \in job[p].envs : n = OldName(p, e) \/ n = NewName(p, e)
      BY <1>1, <1>5 DEF Landing
    <3>2. ASSUME NEW g \in Gens PROVE blobs[BlobID(g, path)] = None
      <4>1. BlobID(g, path) \in Name
        BY <1>6, Names
      <4>2. \A e \in job[p].envs : BlobID(g, path) # OldName(p, e) /\ BlobID(g, path) # NewName(p, e)
        BY <2>2 DEF OldName, NewName, BlobID
      <4> QED
        BY <3>1, <4>1, <4>2 DEF BlobFileNames
    <3>3. blobs[BlobID(meta.nk, path)] = None /\ blobs[BlobID(job[p].new, path)] = None
      BY <1>2, <1>3, <3>2
    <3> QED
      BY <1>1, <1>4, <3>3 DEF Holds, Readable, Decrypts
  <2> QED
    BY <2>1, <2>2
<1> QED
  BY <1>6 DEF Held

\* A file that lands, or is swept, has not the name the reader computes.
LEMMA OtherNameHeld ==
  ASSUME meta # None, meta' = meta, meta.nk \in Gens, NEW m \in Name, NEW b, m[1] # meta.nk,
         blobs \in [Name -> Blob \cup {None}], blobs' = [blobs EXCEPT ![m] = b]
  PROVE  Held' = Held
<1>1. ASSUME NEW path \in Paths PROVE Holds(path)' = Holds(path)
  <2>1. BlobID(meta.nk, path) \in Name /\ BlobID(meta.nk, path) # m
    BY <1>1, Names DEF BlobID
  <2>2. blobs'[BlobID(meta.nk, path)] = blobs[BlobID(meta.nk, path)]
    BY <2>1
  <2> QED
    BY <2>2, HeldAt
<1> QED
  BY <1>1 DEF Held

\* Neither landing, nor sweeping, nor pruning shows.
LEMMA FileStep ==
  ASSUME IInv, BlobInv, NEW p \in Procs, LandBlob(p) \/ SweepBlob(p) \/ UnlinkOrphan(p),
         ~UnlinksUnseen(p)
  PROVE  Held' = Held
<1> USE DEF IInv, TypeInv, TypeOK, BlobInv
<1>0. meta' = meta /\ blobs \in [Name -> Blob \cup {None}]
  BY DEF LandBlob, SweepBlob, UnlinkOrphan, Files
<1>1. CASE LandBlob(p)
  <2>1. pc[p] = "land"
    BY <1>1 DEF LandBlob
  <2>2. meta # None /\ id[p].nk = meta.nk /\ meta.nk \in Gens
    BY <2>1, Synced DEF SyncedPcs
  <2>3. PICK m \in BlobFileNames(stage.blobs) : blobs' = [blobs EXCEPT ![m] = stage.blobs[m]]
    BY <1>1, LandStep
  <2>4. PICK e \in job[p].envs : m = NewName(p, e)
    BY <2>1, <2>3 DEF Rotation, Landing
  <2>5. m \in Name /\ m[1] # meta.nk
    BY <2>1, <2>2, <2>4, RotationKeys DEF RekeyPcs, NewName, BlobID
  <2> QED
    BY <1>0, <2>2, <2>3, <2>5, OtherNameHeld
<1>2. CASE SweepBlob(p)
  <2>1. pc[p] = "sweep"
    BY <1>2 DEF SweepBlob
  <2>2. meta # None /\ meta.nk = job[p].new
    BY <2>1, MetaThere DEF Phase, RekeyPhase
  <2>3. PICK m \in job[p].names : blobs' = [blobs EXCEPT ![m] = None]
    BY <1>2 DEF SweepBlob
  <2>4. PICK e \in job[p].envs : m = OldName(p, e)
    BY <2>1, <2>3 DEF Rotation, Landing
  <2>5. m \in Name /\ m[1] # meta.nk /\ meta.nk \in Gens
    BY <2>1, <2>2, <2>4, RotationKeys DEF RekeyPcs, OldName, BlobID
  <2> QED
    BY <1>0, <2>2, <2>3, <2>5, OtherNameHeld
<1>3. CASE UnlinkOrphan(p)
  <2>1. meta # None /\ id[p].key = meta.key /\ id[p].nk = meta.nk /\ meta.nk \in Gens
    BY <1>3, Synced DEF UnlinkOrphan, SyncedPcs, SecretPcs
  <2>2. CASE blobs' = blobs
    BY <1>0, <2>2, SameHeld
  <2> DEFINE m == job[p].orphan
  <2>4. pc[p] = "unlinkOrphan" /\ m \in Name /\ blobs[m] = job[p].saw
    BY <1>3 DEF UnlinkOrphan, UnlinksUnseen, Arguments
  <2>5. ~Decrypts(meta.key, blobs[m])
    BY <2>1, <2>4 DEF LooksFirst
  <2> HIDE DEF m
  <2>3. ASSUME blobs' = [blobs EXCEPT ![m] = None] PROVE Held' = Held
    <3>1. ASSUME NEW path \in Paths PROVE Holds(path)' = Holds(path)
      <4>1. BlobID(meta.nk, path) \in Name
        BY <2>1, Names
      <4>2. CASE BlobID(meta.nk, path) = m
        <5>1. ~Readable(blobs, meta.key, meta.nk, m)
          BY <2>5 DEF Readable
        <5>2. blobs'[BlobID(meta'.nk, path)] = None
          BY <1>0, <2>3, <4>1, <4>2
        <5>3. Holds(path)' = None
          BY <5>2 DEF Holds, Readable, Decrypts
        <5>4. Holds(path) = None
          BY <4>2, <5>1 DEF Holds
        <5> QED
          BY <5>3, <5>4
      <4>3. CASE BlobID(meta.nk, path) # m
        <5>1. blobs'[BlobID(meta.nk, path)] = blobs[BlobID(meta.nk, path)]
          BY <1>0, <2>3, <4>1, <4>3
        <5> QED
          BY <1>0, <2>1, <5>1, HeldAt
      <4> QED
        BY <4>2, <4>3
    <3> QED
      BY <3>1 DEF Held
  <2> QED
    BY <1>3, <2>2, <2>3 DEF UnlinkOrphan, m
<1> QED
  BY <1>1, <1>2, <1>3

\* A file put under a name that is not its own is not found there.
LEMMA MisplaceHeld ==
  ASSUME IInv, BlobInv, Misplace
  PROVE  Held' = Held
<1> USE DEF IInv, TypeInv, TypeOK, BlobInv
<1>0. meta' = meta /\ blobs \in [Name -> Blob \cup {None}]
  BY DEF Misplace, Files
<1>1. PICK s \in BlobFileNames(blobs), m \in Name :
             /\ blobs[m] = None /\ m # BlobID(blobs[s].key, blobs[s].path)
             /\ blobs' = [blobs EXCEPT ![m] = blobs[s]]
  BY DEF Misplace
<1>2. meta # None
  BY <1>1 DEF EmptyAtFirst, NoBlobs, BlobFileNames
<1>3. meta.nk = meta.key /\ meta.nk \in Gens
  BY <1>2 DEF Generations, MetaGenerated, Meta
<1>4. ASSUME NEW path \in Paths PROVE Holds(path)' = Holds(path)
  <2>1. BlobID(meta.nk, path) \in Name
    BY <1>3, Names
  <2>2. CASE BlobID(meta.nk, path) = m
    <3>1. Holds(path) = None
      BY <1>1, <2>2 DEF Holds, Readable, Decrypts
    <3>2. blobs'[m] = blobs[s]
      BY <1>0, <1>1
    <3>3. ~Readable(blobs', meta'.key, meta'.nk, BlobID(meta'.nk, path))
      BY <1>0, <1>1, <1>3, <2>2, <3>2 DEF Readable, Decrypts
    <3> QED
      BY <3>1, <3>3 DEF Holds
  <2>3. CASE BlobID(meta.nk, path) # m
    <3>1. blobs'[BlobID(meta.nk, path)] = blobs[BlobID(meta.nk, path)]
      BY <1>0, <1>1, <2>1, <2>3
    <3> QED
      BY <1>0, <1>2, <3>1, HeldAt
  <2> QED
    BY <2>2, <2>3
<1> QED
  BY <1>4 DEF Held

\* The metadata of a new store finds nothing in an empty root.
LEMMA InitMetaHeld ==
  ASSUME IInv, BlobInv, NEW p \in Procs, InitMeta(p)
  PROVE  Held' = Held
<1>1. meta = None /\ blobs' = blobs /\ pc[p] = "initMeta"
  BY DEF InitMeta, IInv, Phase, InitPhase, InitPcs
<1>2. blobs = NoBlobs
  BY <1>1 DEF BlobInv, EmptyAtFirst
<1>3. ASSUME NEW path \in Paths PROVE Holds(path)' = Holds(path)
  <2>1. Holds(path) = None
    BY <1>1 DEF Holds
  <2>2. SessionMeta(p) \in Meta
    BY <1>1 DEF IInv, TypeInv, TypeOK, Arguments, SessionMeta, Meta, Id
  <2>3. BlobID(meta'.nk, path) \in Name
    BY <2>2, Names DEF InitMeta, Meta
  <2>4. blobs'[BlobID(meta'.nk, path)] = None
    BY <1>1, <1>2, <2>3 DEF NoBlobs
  <2> QED
    BY <2>1, <2>4 DEF Holds, Readable, Decrypts
<1> QED
  BY <1>3 DEF Held

\* The other steps of a command leave what a reader finds as it is.
LEMMA QuietHeld ==
  ASSUME IInv, BlobInv, NEW p \in Procs, Moves(p), ~WriteBlob(p), ~Unlink(p),
         ~UnlinksUnseen(p)
  PROVE  Held' = Held
<1> USE DEF IInv, TypeInv
<1>1. CASE Idle(p)
  BY <1>1, IdleStep, SameHeld
<1>2. CASE \/ \E pass \in Passes, v \in Versions : InitStore(p, pass, v) \/ Open(p, pass, v)
           \/ \E pass \in Passes : Rekey(p, pass)
           \/ StageBlob(p) \/ StageMeta(p) \/ Verify(p) \/ SwapIndex(p) \/ RekeyDone(p)
           \/ Fail(p)
  <2>1. blobs' = blobs /\ meta' = meta
    BY <1>2 DEF InitStore, Open, Rekey, StageBlob, StageMeta, Verify, SwapIndex, RekeyDone,
                Fail, disk
  <2> QED
    BY <2>1, SameHeld
<1>3. CASE InitMeta(p)
  BY <1>3, InitMetaHeld
<1>4. CASE WriteMeta(p)
  <2>1. meta # None /\ id[p].key = meta.key /\ id[p].nk = meta.nk /\ blobs' = blobs
    BY <1>4, Synced DEF WriteMeta, SyncedPcs
  <2>2. SessionMeta(p) \in Meta
    BY <1>4 DEF WriteMeta, Arguments, SessionMeta, TypeOK, Meta, Id
  <2>3. meta' # None /\ meta'.key = meta.key /\ meta'.nk = meta.nk
    BY <1>4, <2>1, <2>2, NoneAssumption DEF WriteMeta, SessionMeta
  <2> QED
    BY <2>1, <2>3, SameHeld
<1>5. CASE SwapMeta(p)
  BY <1>5, SwapMetaHeld
<1>6. CASE LandBlob(p) \/ SweepBlob(p) \/ UnlinkOrphan(p)
  BY <1>6, FileStep
<1> QED
  BY <1>1, <1>2, <1>3, <1>4, <1>5, <1>6 DEF Moves, Starting, Step, Idle

\* The other steps ask for nothing: a command may do what it might, or gives up.
LEMMA QuietAsked ==
  ASSUME TypeOK, Removals, NEW p \in Procs, Moves(p), ~WriteBlob(p), ~Unlink(p),
         \A path \in Paths, c \in Contents : ~Put(p, path, c),
         \A path \in Paths : ~Remove(p, path),
         \A from, to \in Paths : ~Move(p, from, to)
  PROVE  AskedBy(p)' = AskedBy(p) \/ AskedBy(p)' = {}
<1> USE DEF TypeOK, Goto, With, Return, Exit
<1> DEFINE Away == \/ pc'[p] \notin {"blob", "index", "unlink"}
                   \/ pc'[p] = "index" /\ job'[p].from = None
<1>1. Away => AskedBy(p)' = {}
  BY NothingAsked
<1>2. CASE WriteIndex(p)
  BY <1>2 DEF WriteIndex, AskedBy
<1>3. CASE InitMeta(p)
  BY <1>1, <1>3 DEF InitMeta, Removals, InitPcs
<1>4. ASSUME \/ \E pass \in Passes, v \in Versions : InitStore(p, pass, v) \/ Open(p, pass, v)
             \/ Close(p) \/ RaiseFloor(p) \/ RecordDigest(p)
             \/ (\E pass \in Passes : Rekey(p, pass) \/ Passwd(p, pass) \/ PruneBundles(p, pass))
             \/ PruneOrphans(p)
      PROVE  Away
  BY <1>4 DEF InitStore, Open, Close, RaiseFloor, RecordDigest, Rekey, Passwd, PruneBundles,
              PruneOrphans
<1>5. ASSUME Reindex(p) PROVE Away
  BY <1>5 DEF Reindex, NoJob
<1>6. ASSUME \/ InitBundle(p) \/ WriteMeta(p) \/ StageBlob(p) \/ StageMeta(p) \/ Verify(p)
             \/ LandBlob(p) \/ RetainBundle(p) \/ WriteBundle(p) \/ SwapMeta(p) \/ SwapIndex(p)
             \/ SweepBlob(p) \/ RekeyDone(p)
      PROVE  Away
  BY <1>6 DEF InitBundle, WriteMeta, StageBlob, StageMeta, Verify, LandBlob, RetainBundle,
              WriteBundle, SwapMeta, SwapIndex, SweepBlob, RekeyDone
<1>7. ASSUME \/ Rewrap(p) \/ ChooseBundle(p) \/ DropBundle(p) \/ PromoteBundle(p)
             \/ DiscardBundle(p) \/ BundlesDone(p) \/ UnlinkOrphan(p) \/ OrphansDone(p)
             \/ Kill(p) \/ Fail(p) \/ LookAtBlob(p) \/ LookFails(p)
      PROVE  Away
  BY <1>7 DEF Rewrap, ChooseBundle, DropBundle, PromoteBundle, DiscardBundle, BundlesDone,
              UnlinkOrphan, OrphansDone, Kill, Fail, LookAtBlob, LookFails
<1> QED
  BY <1>1, <1>2, <1>3, <1>4, <1>5, <1>6, <1>7 DEF Moves, Starting, Step

\* Every step of the store is a step of the vault, or changes nothing it shows.
LEMMA NextVault ==
  ASSUME IInv, BlobInv, "mvSelf" \notin Commands, [Next]_vars
  PROVE  VaultStep \/ \E p \in Procs : UnlinksUnseen(p)
<1>1. ASSUME NEW p \in Procs, Moves(p), ~UnlinksUnseen(p) PROVE VaultStep
  <2>1. CASE \/ \E path \in Paths, c \in Contents : Put(p, path, c)
             \/ \E path \in Paths : Remove(p, path)
             \/ \E from, to \in Paths : Move(p, from, to)
    BY <2>1, AskStep
  <2>2. CASE WriteBlob(p) \/ Unlink(p)
    BY <2>2, WriteBlobStep, UnlinkStep
  <2>3. CASE /\ \A path \in Paths, c \in Contents : ~Put(p, path, c)
             /\ \A path \in Paths : ~Remove(p, path)
             /\ \A from, to \in Paths : ~Move(p, from, to)
             /\ ~WriteBlob(p) /\ ~Unlink(p)
    <3>1. Held' = Held
      BY <1>1, <2>3, QuietHeld
    <3>2. OthersKept(p)
      BY <1>1, OneMoves DEF IInv, TypeInv
    <3>3. AskedBy(p)' = AskedBy(p) \/ AskedBy(p)' = {}
      BY <1>1, <2>3, QuietAsked DEF IInv, TypeInv, BlobInv
    <3>4. CASE AskedBy(p)' = AskedBy(p)
      BY <3>1, <3>2, <3>4, SameAsked, Stutters DEF VaultStep
    <3>5. CASE AskedBy(p)' = {}
      BY <3>1, <3>2, <3>5, Gives DEF VaultStep, V!VaultNext
    <3> QED
      BY <3>3, <3>4, <3>5
  <2> QED
    BY <2>1, <2>2, <2>3
<1>2. CASE LoseIndex \/ Misplace \/ UNCHANGED vars
  <2>1. Held' = Held
    BY <1>2, MisplaceHeld, SameHeld DEF LoseIndex, vars, disk
  <2>2. pc' = pc /\ job' = job
    BY <1>2 DEF LoseIndex, Misplace, vars
  <2>3. Asked' = Asked
    BY <2>2 DEF Asked, AskedBy
  <2> QED
    BY <2>1, <2>3, Stutters DEF VaultStep
<1> QED
  BY <1>1, <1>2 DEF Next, Moves

\* The store implements the vault: through every rotation, passphrase change,
\* prune, reindexing, failure and kill, the secrets change only as was asked, or by
\* the unlink of an orphan prune that did not see what it unlinks.
THEOREM StoreImplementsVault ==
  (Exclusive /\ TidyFirst /\ "mvSelf" \notin Commands) => (Spec => ImplementsVault)
<1> SUFFICES ASSUME Exclusive, TidyFirst, "mvSelf" \notin Commands PROVE Spec => ImplementsVault
  OBVIOUS
<1>1. Spec => []IInv
  BY StoreInvariant
<1>2. Spec => []BlobInv
  BY BlobInvariant
<1>3. Init => V!VaultInit
  BY DEF Init, V!VaultInit, Holds, AskedBy
<1>4. IInv /\ BlobInv /\ [Next]_vars =>
         [V!VaultNext \/ \E p \in Procs : UnlinksUnseen(p)]_V!vaultVars
  BY NextVault DEF VaultStep
<1> QED
  BY <1>1, <1>2, <1>3, <1>4, PTL DEF Spec, ImplementsVault

---------------------------------------------------------------------------
\* Without faults and with one process, the index is exact.

\* Metadata with the same keys lists the same blobs.
LEMMA LiveKept ==
  ASSUME blobs' = blobs, meta # None, meta' # None, meta'.key = meta.key, meta'.nk = meta.nk
  PROVE  /\ LiveNames' = LiveNames
         /\ (index' = index /\ IndexExact) => IndexExact'
BY DEF LiveNames, IndexExact, ReadableNames, Readable, Decrypts

\* No step writes an index under a key that is still to be generated.
LEMMA NextIndexGenerated ==
  ASSUME Single, IInv, IInv', BlobInv, IndexInv, [Next]_vars
  PROVE  IndexGenerated'
<1> USE DEF IInv, TypeInv, TypeOK
<1>1. ASSUME index' = index PROVE IndexGenerated'
  <2> SUFFICES ASSUME index # None PROVE index.key < nextGen'
    BY <1>1 DEF IndexGenerated
  <2>1. index.key \in Nat /\ index.key < nextGen
    BY GenNat DEF IndexInv, IndexGenerated, Index
  <2> QED
    BY <2>1, StillGenerated
<1>2. ASSUME NEW p \in Procs, WriteIndex(p) PROVE IndexGenerated'
  <2>1. id[p].key \in Nat /\ id[p].key < nextGen
    BY <1>2, GenNat DEF WriteIndex, Arguments, BlobInv, Generations, ProcGenerated
  <2> QED
    BY <1>2, <2>1, StillGenerated DEF WriteIndex, IndexGenerated
<1>3. ASSUME NEW p \in Procs, SwapIndex(p) PROVE IndexGenerated'
  <2>1. job[p].new \in Nat /\ job[p].new < nextGen
    BY <1>3, GenNat DEF SwapIndex, Arguments, RekeyPcs, BlobInv, Generations, ProcGenerated
  <2>2. index' = index \/ index'.key = job[p].new
    <3>1. pc[p] = "swapIndex" /\ StagedIndex(p)
      BY <1>3 DEF SwapIndex, IndexInv
    <3>2. stage.index # None => stage.index.key = job[p].new
      BY <3>1 DEF StagedIndex
    <3> QED
      BY <1>3, <3>2 DEF SwapIndex
  <2> QED
    BY <1>1, <2>1, <2>2, StillGenerated DEF IndexGenerated
<1>4. ASSUME NEW p \in Procs, Starting(p) PROVE index' = index
  BY <1>4 DEF Starting, disk, InitStore, Open, Close, Put, Remove, Move, Reindex,
              RaiseFloor, RecordDigest, Rekey, Passwd, PruneBundles, PruneOrphans
<1>5. ASSUME NEW p \in Procs, Step(p), ~WriteIndex(p), ~SwapIndex(p) PROVE index' = index
  BY <1>5
     DEF Step, disk, InitBundle, InitMeta, WriteBlob, Unlink, WriteMeta, StageBlob, StageMeta,
         Verify, LandBlob, RetainBundle, WriteBundle, SwapMeta, SweepBlob, RekeyDone,
         Rewrap, ChooseBundle, DropBundle, PromoteBundle, DiscardBundle, BundlesDone,
         LookAtBlob, UnlinkOrphan, OrphansDone
<1>6. ASSUME NEW p \in Procs, Kill(p) \/ Fail(p) \/ LookFails(p) PROVE index' = index
  BY <1>6 DEF Kill, Fail, LookFails, disk
<1>7. CASE LoseIndex
  BY <1>7 DEF LoseIndex, IndexGenerated
<1>8. ASSUME Misplace \/ UNCHANGED vars PROVE index' = index
  BY <1>8 DEF Misplace, vars, disk
<1> QED
  BY <1>1, <1>2, <1>3, <1>4, <1>5, <1>6, <1>7, <1>8 DEF Next

OwnIndex(p) == NothingStaged(p) /\ StagedIndex(p) /\ Listed(p)

\* A step that touches neither files nor the index leaves it exact.
LEMMA IdleIndex ==
  ASSUME IInv, BlobInv, IndexInv, NEW p \in Procs, Idle(p), ~Reindex(p), ~WriteIndex(p),
         ~Kill(p), ~LookFails(p)
  PROVE  OwnIndex(p)'
<1> USE DEF IInv, TypeInv, TypeOK
<1>1. UNCHANGED <<blobs, meta, stage>>
  BY IdleStep
<1>2. OwnIndex(p)
  BY DEF IndexInv, OwnIndex
<1>3. index' = index
  BY DEF Idle, disk, Close, Put, Remove, Move, RaiseFloor, RecordDigest, Passwd, PruneBundles,
         PruneOrphans, InitBundle, RetainBundle, WriteBundle, Rewrap, ChooseBundle, DropBundle,
         PromoteBundle, DiscardBundle, BundlesDone, LookAtBlob, OrphansDone
<1>4. LiveNames' = LiveNames /\ IndexExact' = IndexExact
  BY <1>1, <1>3 DEF LiveNames, IndexExact, ReadableNames, Readable, Decrypts
<1> USE DEF Goto, With, Return, Exit, OwnIndex, NothingStaged, StagedIndex, Listed, RekeyPcs,
        InitPcs, SecretPcs, BundlePcs, Starts
<1>5. CASE RetainBundle(p) \/ WriteBundle(p)
  <2>1. job'[p] = job[p] /\ CopyNames(p)' = CopyNames(p)
    BY <1>5 DEF RetainBundle, WriteBundle, CopyNames, NewName
  <2> QED
    BY <1>1, <1>2, <1>3, <1>5, <2>1 DEF RetainBundle, WriteBundle
<1>6. CASE InitBundle(p)
  BY <1>1, <1>2, <1>3, <1>6 DEF InitBundle, Phase, InitPhase
<1>7. ASSUME \/ Close(p) \/ (\E path \in Paths, c \in Contents : Put(p, path, c))
             \/ (\E path \in Paths : Remove(p, path))
             \/ (\E from, to \in Paths : Move(p, from, to))
             \/ RaiseFloor(p) \/ RecordDigest(p)
             \/ (\E pass \in Passes : Passwd(p, pass) \/ PruneBundles(p, pass))
             \/ PruneOrphans(p)
      PROVE  /\ pc[p] = "open"
             /\ \/ pc'[p] = "closed"
                \/ /\ pc'[p] \in {"meta", "blob", "unlink", "orphans", "rewrap", "choose"}
                   /\ cache'[p] = cache[p]
  BY <1>7 DEF Close, Put, Remove, Move, RaiseFloor, RecordDigest, Passwd, PruneBundles,
              PruneOrphans
<1>8. ASSUME \/ Rewrap(p) \/ ChooseBundle(p) \/ DropBundle(p) \/ PromoteBundle(p)
             \/ DiscardBundle(p) \/ BundlesDone(p) \/ LookAtBlob(p) \/ OrphansDone(p)
      PROVE  /\ pc[p] \in {"rewrap", "choose", "drop", "promote", "discard", "orphans"}
             /\ \/ pc'[p] = "closed"
                \/ /\ pc'[p] \in {"open", "choose", "drop", "promote", "discard", "orphans",
                                  "unlinkOrphan"}
                   /\ cache'[p] = cache[p]
  BY <1>8 DEF Rewrap, ChooseBundle, DropBundle, PromoteBundle, DiscardBundle, BundlesDone,
              LookAtBlob, OrphansDone
<1>9. CASE /\ pc[p] \in {"open", "rewrap", "choose", "drop", "promote", "discard", "orphans"}
           /\ \/ pc'[p] = "closed"
              \/ /\ pc'[p] \in {"open", "meta", "blob", "unlink", "orphans", "rewrap",
                                "choose", "drop", "promote", "discard", "unlinkOrphan"}
                 /\ cache'[p] = cache[p]
  BY <1>1, <1>2, <1>4, <1>9
<1> QED
  BY <1>5, <1>6, <1>7, <1>8, <1>9 DEF Idle

\* Opening a store takes its index, or starts from nothing.
LEMMA OpenIndex ==
  ASSUME IInv, BlobInv, IndexInv, NEW p \in Procs,
         \E pass \in Passes, v \in Versions : InitStore(p, pass, v) \/ Open(p, pass, v)
  PROVE  OwnIndex(p)'
<1> USE DEF IInv, TypeInv, TypeOK, Goto, With, disk, OwnIndex, NothingStaged, StagedIndex, RekeyPcs,
        InitPcs, SecretPcs, BundlePcs
<1>1. pc[p] = "closed" /\ blobs' = blobs /\ meta' = meta /\ index' = index /\ stage' = stage
  BY DEF InitStore, Open
<1>2. OwnIndex(p)
  BY DEF IndexInv
<1>3. ASSUME NEW pass \in Passes, NEW v \in Versions, InitStore(p, pass, v) PROVE OwnIndex(p)'
  BY <1>1, <1>2, <1>3 DEF InitStore, Listed
<1>4. ASSUME NEW pass \in Passes, NEW v \in Versions, Open(p, pass, v) PROVE OwnIndex(p)'
  <2>1. meta # None /\ pc'[p] = "open"
    BY <1>4 DEF Open
  <2>2. LiveNames' = LiveNames /\ IndexExact' = IndexExact
    BY <1>1 DEF LiveNames, IndexExact, ReadableNames, Readable, Decrypts
  <2>3. IndexExact
    BY <1>1, <1>2, <2>1 DEF Listed
  <2>4. cache'[p].entries = LiveNames
    BY <1>4, <2>3 DEF Open, IndexExact, NoCache
  <2> QED
    BY <1>1, <1>2, <2>1, <2>2, <2>3, <2>4 DEF Listed
<1> QED
  BY <1>3, <1>4

\* Rebuilding the index, and writing it.
LEMMA WriteIndexStep ==
  ASSUME IInv, BlobInv, IndexInv, NEW p \in Procs, Reindex(p) \/ WriteIndex(p)
  PROVE  OwnIndex(p)'
<1> USE DEF IInv, TypeInv, TypeOK, Goto, With, Return, disk, OwnIndex, NothingStaged, StagedIndex,
        RekeyPcs, InitPcs, SecretPcs, BundlePcs
<1>1. pc[p] \in {"open", "index"} /\ blobs' = blobs /\ meta' = meta /\ stage' = stage
  BY DEF Reindex, WriteIndex, Starts
<1>2. OwnIndex(p) /\ LiveNames' = LiveNames
  BY <1>1 DEF IndexInv, LiveNames, ReadableNames, Readable, Decrypts
<1>3. meta # None /\ id[p].key = meta.key /\ id[p].nk = meta.nk
  BY <1>1, Synced DEF SyncedPcs
<1>4. CASE Reindex(p)
  BY <1>1, <1>2, <1>3, <1>4 DEF Reindex, Listed, LiveNames
<1>5. CASE WriteIndex(p)
  <2>1. index' = [key |-> meta.key, entries |-> LiveNames]
    BY <1>2, <1>3, <1>5 DEF WriteIndex, Listed
  <2>2. index' \in Index
    BY <1>3, <2>1 DEF Meta, Index, LiveNames, ReadableNames
  <2>3. IndexExact'
    BY <1>1, <1>2, <2>1, <2>2, NoneAssumption DEF IndexExact
  <2>4. pc'[p] \in {"open", "unlink"} /\ cache' = cache
    BY <1>5 DEF WriteIndex
  <2> QED
    BY <1>1, <1>2, <1>5, <2>3, <2>4 DEF Listed, WriteIndex
<1> QED
  BY <1>4, <1>5

\* A write or a removal of a blob changes the list as it changes the root.
LEMMA BlobIndex ==
  ASSUME IInv, BlobInv, IndexInv, NEW p \in Procs, WriteBlob(p) \/ Unlink(p) \/ UnlinkOrphan(p)
  PROVE  OwnIndex(p)'
<1> USE DEF IInv, TypeInv, TypeOK, Goto, With, Return, OwnIndex, NothingStaged, StagedIndex,
        RekeyPcs, InitPcs, SecretPcs, BundlePcs
<1>1. pc[p] \in {"blob", "unlink", "unlinkOrphan"} /\ meta' = meta /\ stage' = stage /\ index' = index
      /\ blobs \in [Name -> Blob \cup {None}]
  BY DEF WriteBlob, Unlink, UnlinkOrphan, Files
<1>2. OwnIndex(p)
  BY DEF IndexInv
<1>3. /\ meta # None /\ id[p].key = meta.key /\ id[p].nk = meta.nk
      /\ meta.key \in Gens /\ meta.nk \in Gens
  BY <1>1, Synced DEF SyncedPcs
<1>4. cache[p].entries = LiveNames /\ IndexExact
  BY <1>1, <1>2, <1>3 DEF Listed
<1>5. CASE WriteBlob(p)
  <2> DEFINE n == BlobID(id[p].nk, job[p].path)
  <2> DEFINE b == [key |-> id[p].key, path |-> job[p].path, content |-> job[p].content]
  <2>1. n \in Name /\ b \in Blob /\ b # None /\ blobs' = [blobs EXCEPT ![n] = b]
    BY <1>3, <1>5, Names, NoneAssumption DEF WriteBlob, Arguments, Blob
  <2>2. LiveNames' = LiveNames \cup {n}
    BY <1>1, <1>3, <2>1 DEF LiveNames, ReadableNames, Readable, Decrypts
  <2>3. cache'[p].entries = cache[p].entries \cup {n} /\ pc'[p] = "index"
    BY <1>5 DEF WriteBlob, Cache
  <2> QED
    BY <1>1, <1>2, <1>4, <2>2, <2>3 DEF Listed
<1>6. CASE Unlink(p) /\ blobs' # blobs
  <2> DEFINE n == BlobID(id[p].nk, job[p].from)
  <2>1. /\ blobs' = [blobs EXCEPT ![n] = None] /\ pc'[p] = "index"
        /\ cache'[p].entries = cache[p].entries \ {n}
    BY <1>6 DEF Unlink, Cache
  <2>2. LiveNames' = LiveNames \ {n}
    BY <1>1, <1>3, <2>1 DEF LiveNames, ReadableNames, Readable, Decrypts
  <2> QED
    BY <1>1, <1>2, <1>4, <2>1, <2>2 DEF Listed
<1>7. CASE (Unlink(p) /\ blobs' = blobs) \/ UnlinkOrphan(p)
  <2>1. LiveNames' = LiveNames
    <3>1. CASE blobs' = blobs
      BY <1>1, <3>1 DEF LiveNames, ReadableNames, Readable, Decrypts
    <3>2. CASE UnlinkOrphan(p) /\ blobs' # blobs
      <4> DEFINE m == job[p].orphan
      <4>1. pc[p] = "unlinkOrphan" /\ blobs' = [blobs EXCEPT ![m] = None]
        BY <3>2 DEF UnlinkOrphan
      <4>2. m \in Name /\ blobs[m] = job[p].saw
        BY <4>1 DEF Arguments, IndexInv, LooksTrue
      <4>3. ~Decrypts(meta.key, blobs[m])
        BY <1>3, <4>1, <4>2 DEF BlobInv, LooksFirst
      <4> HIDE DEF m
      <4> QED
        BY <1>1, <1>3, <4>1, <4>2, <4>3 DEF LiveNames, ReadableNames, Readable, Decrypts
    <3> QED
      BY <1>7, <3>1, <3>2
  <2>2. IndexExact'
    BY <1>1, <1>4, <2>1 DEF IndexExact
  <2>3. pc'[p] \in {"open", "index", "orphans"} /\ cache'[p].entries = LiveNames
    <3>1. CASE Unlink(p) /\ blobs' = blobs /\ pc'[p] = "open"
      BY <1>4, <3>1 DEF Unlink
    <3>2. CASE Unlink(p) /\ blobs' = blobs /\ pc'[p] = "index"
      <4> DEFINE n == BlobID(id[p].nk, job[p].from)
      <4>1. blobs[n] # None /\ blobs' = [blobs EXCEPT ![n] = None]
        BY <3>2 DEF Unlink
      <4>2. n \in Name
        BY <1>1, <1>3, <3>2, Names DEF Unlink, BlobInv, Removals
      <4> QED
        BY <1>1, <3>2, <4>1, <4>2
    <3>3. CASE UnlinkOrphan(p)
      BY <1>1, <1>4, <3>3 DEF UnlinkOrphan
    <3> QED
      BY <1>7, <3>1, <3>2, <3>3 DEF Unlink
  <2> QED
    BY <1>1, <1>2, <1>4, <2>1, <2>2, <2>3 DEF Listed
<1> QED
  BY <1>5, <1>6, <1>7

\* Rewriting the metadata, or creating it, leaves the list as exact as it was.
LEMMA MetaIndex ==
  ASSUME IInv, BlobInv, IndexInv, NEW p \in Procs, InitMeta(p) \/ WriteMeta(p)
  PROVE  OwnIndex(p)'
<1> USE DEF IInv, TypeInv, TypeOK, Goto, With, Return, OwnIndex, NothingStaged, StagedIndex,
        RekeyPcs, InitPcs, SecretPcs, BundlePcs
<1>1. /\ pc[p] \in {"initMeta", "meta"} /\ blobs' = blobs /\ stage' = stage /\ index' = index
      /\ cache' = cache /\ meta' = SessionMeta(p)
  BY DEF InitMeta, WriteMeta
<1>2. OwnIndex(p)
  BY DEF IndexInv
<1>3. meta' \in Meta /\ meta' # None
  BY <1>1, NoneAssumption DEF Arguments, SessionMeta, Meta, Id
<1>4. CASE InitMeta(p)
  <2>1. meta = None /\ cache[p].entries = {} /\ pc'[p] = "index"
    BY <1>2, <1>4 DEF InitMeta, Phase, InitPhase, Listed
  <2>2. blobs = NoBlobs
    BY <2>1 DEF BlobInv, EmptyAtFirst
  <2>3. LiveNames' = {}
    BY <1>1, <2>2 DEF LiveNames, ReadableNames, Readable, Decrypts, NoBlobs
  <2> QED
    BY <1>1, <1>2, <2>1, <2>3 DEF Listed
<1>5. CASE WriteMeta(p)
  <2>1. pc[p] = "meta" /\ pc'[p] = "open"
    BY <1>5 DEF WriteMeta
  <2>2. meta # None /\ id[p].key = meta.key /\ id[p].nk = meta.nk
    BY <2>1, Synced DEF SyncedPcs
  <2>3. meta'.key = meta.key /\ meta'.nk = meta.nk
    BY <1>1, <2>2 DEF SessionMeta
  <2>4. LiveNames' = LiveNames /\ (IndexExact => IndexExact')
    BY <1>1, <1>3, <2>2, <2>3, LiveKept
  <2> QED
    BY <1>1, <1>2, <2>1, <2>2, <2>4 DEF Listed
<1> QED
  BY <1>4, <1>5

\* A rotation stages a list of what it stages, and swaps it in.
LEMMA RekeyIndex ==
  ASSUME Single, IInv, BlobInv, IndexInv, NEW p \in Procs, NEW pass \in Passes, Rekey(p, pass)
  PROVE  OwnIndex(p)'
<1> USE DEF IInv, TypeInv, TypeOK, Goto, With, OwnIndex, NothingStaged, RekeyPcs, InitPcs,
        SecretPcs, BundlePcs, Starts
<1>1. /\ pc[p] = "open" /\ pc'[p] = "stage" /\ blobs' = blobs /\ meta' = meta /\ index' = index
      /\ stage' = stage
  BY DEF Rekey, disk
<1>2. OwnIndex(p)
  BY DEF IndexInv
<1>3. job'[p].new = nextGen
  BY DEF Rekey, NoJob
<1>4. index # None => index.key # nextGen
  <2>1. index # None => index.key \in Nat /\ index.key < nextGen
    BY GenNat DEF IndexInv, IndexGenerated, Index
  <2> QED
    BY <2>1
<1>5. StagedIndex(p)'
  BY <1>1, <1>2 DEF StagedIndex, NoStage
<1>6. IndexExact' = IndexExact
  BY <1>1 DEF LiveNames, IndexExact, ReadableNames, Readable, Decrypts
<1>7. Listed(p)'
  BY <1>1, <1>2, <1>3, <1>4, <1>6 DEF Listed
<1> QED
  BY <1>1, <1>5, <1>7

\* Each staged put lists what is staged, and in the end that is every secret.
LEMMA StageIndex ==
  ASSUME IInv, BlobInv, IndexInv, NEW p \in Procs, StageBlob(p) \/ StageMeta(p)
  PROVE  OwnIndex(p)'
<1> USE DEF IInv, TypeInv, TypeOK, Goto, OwnIndex, NothingStaged, RekeyPcs, InitPcs, SecretPcs,
        BundlePcs
<1>1. /\ pc[p] = "stage" /\ pc'[p] \in {"stage", "verify"}
      /\ blobs' = blobs /\ meta' = meta /\ index' = index /\ job' = job /\ id' = id
  BY DEF StageBlob, StageMeta, disk
<1>2. OwnIndex(p)
  BY DEF IndexInv
<1>3. IndexExact' = IndexExact
  BY <1>1 DEF LiveNames, IndexExact, ReadableNames, Readable, Decrypts
<1>4. Listed(p)'
  BY <1>1, <1>2, <1>3 DEF Listed
<1>5. CASE StageBlob(p)
  <2>1. PICK e \in Unstaged(p) : StageBlob(p)!(e)
    BY <1>5 DEF StageBlob
  <2> DEFINE list == [key |-> job[p].new,
                      entries |-> ReadableNames(stage'.blobs, job[p].new, job[p].new)]
  <2>2. stage'.index = list /\ pc'[p] = "stage"
    BY <1>1, <2>1
  <2>3. list \in Index
    BY <1>1 DEF Arguments, Index, ReadableNames
  <2>4. StagedIndex(p)'
    BY <1>1, <2>2, <2>3, NoneAssumption DEF StagedIndex
  <2> QED
    BY <1>1, <1>4, <2>2, <2>4
<1>6. CASE StageMeta(p)
  <2>1. /\ pc'[p] = "verify" /\ Unstaged(p) = {}
        /\ stage'.blobs = stage.blobs /\ stage'.index = stage.index
    BY <1>6 DEF StageMeta, Stage
  <2>2. Staging(p)
    BY DEF BlobInv, Rotation
  <2>3. \A e \in job[p].envs : NewName(p, e) \in Name /\ stage.blobs[NewName(p, e)] # None
    BY <1>1, <2>1, RotationKeys DEF Unstaged, NewName
  <2>4. CASE stage.index = None
    <3>1. stage.blobs = NoBlobs
      BY <1>1, <1>2, <2>4 DEF StagedIndex
    <3>2. job[p].envs = {}
      BY <2>3, <3>1 DEF NoBlobs
    <3>3. StagedIndex(p)'
      BY <1>1, <2>1, <2>4, <3>2 DEF StagedIndex
    <3> QED
      BY <1>4, <2>1, <3>3
  <2>5. CASE stage.index # None
    <3>1. stage.index = [key |-> job[p].new,
                         entries |-> ReadableNames(stage.blobs, job[p].new, job[p].new)]
      BY <1>1, <1>2, <2>5 DEF StagedIndex
    <3>2. ASSUME NEW n \in ReadableNames(stage.blobs, job[p].new, job[p].new)
          PROVE  n \in CopyNames(p)
      <4>1. n \in BlobFileNames(stage.blobs) /\ n[1] = job[p].new
        BY DEF ReadableNames, Readable, Decrypts, BlobFileNames, BlobID
      <4> QED
        BY <1>1, <2>2, <4>1 DEF Staging, CopyNames
    <3>3. ASSUME NEW n \in CopyNames(p)
          PROVE  n \in ReadableNames(stage.blobs, job[p].new, job[p].new)
      <4>1. PICK e \in job[p].envs : n = NewName(p, e)
        BY DEF CopyNames
      <4>2. n \in BlobFileNames(stage.blobs) /\ n[1] = job[p].new
        BY <2>3, <4>1 DEF BlobFileNames, NewName, BlobID
      <4>3. \E d \in job[p].envs : n = NewName(p, d) /\ stage.blobs[n] = Copy(p, d)
        BY <1>1, <2>2, <4>2 DEF Staging
      <4> QED
        BY <4>2, <4>3
           DEF ReadableNames, Readable, Decrypts, Copy, NewName, BlobFileNames
    <3>4. stage.index = [key |-> job[p].new, entries |-> CopyNames(p)]
      BY <3>1, <3>2, <3>3 DEF ReadableNames, CopyNames
    <3>5. CopyNames(p)' = CopyNames(p)
      BY <1>1 DEF CopyNames, NewName
    <3>6. StagedIndex(p)'
      BY <1>1, <2>1, <2>5, <3>4, <3>5 DEF StagedIndex
    <3> QED
      BY <1>4, <2>1, <3>6
  <2> QED
    BY <2>4, <2>5
<1> QED
  BY <1>5, <1>6

\* Landing blobs and swapping the metadata leave the staged index to be swapped.
LEMMA CommitIndex ==
  ASSUME IInv, BlobInv, IndexInv, NEW p \in Procs, Verify(p) \/ LandBlob(p) \/ SwapMeta(p)
  PROVE  OwnIndex(p)'
<1> USE DEF IInv, TypeInv, TypeOK, Goto, With, Exit, OwnIndex, NothingStaged, RekeyPcs, InitPcs,
        SecretPcs, BundlePcs
<1>1. OwnIndex(p) /\ index' = index
  BY DEF IndexInv, Verify, LandBlob, SwapMeta, disk
<1>2. CASE pc'[p] = "closed"
  <2>1. pc[p] = "verify" /\ blobs' = blobs /\ meta' = meta /\ stage' = NoStage
    BY <1>2 DEF Verify, LandBlob, SwapMeta, disk
  <2>2. IndexExact' = IndexExact
    BY <1>1, <2>1 DEF LiveNames, IndexExact, ReadableNames, Readable, Decrypts
  <2> QED
    BY <1>1, <1>2, <2>1, <2>2 DEF StagedIndex, Listed
<1>3. CASE pc'[p] # "closed"
  <2>1. /\ pc[p] \in {"verify", "land", "swapMeta"} /\ pc'[p] \in {"land", "swapIndex"}
        /\ stage'.index = stage.index
        /\ job'[p].new = job[p].new /\ job'[p].envs = job[p].envs
    BY <1>3 DEF Verify, LandBlob, SwapMeta, Job, Stage
  <2>2. CopyNames(p)' = CopyNames(p)
    BY <2>1 DEF CopyNames, NewName
  <2> QED
    BY <1>1, <2>1, <2>2 DEF StagedIndex, Listed
<1> QED
  BY <1>2, <1>3

\* The staged index becomes the index; only an empty store has none to swap.
LEMMA SwapIndexIndex ==
  ASSUME IInv, BlobInv, IndexInv, NEW p \in Procs, SwapIndex(p)
  PROVE  OwnIndex(p)'
<1> USE DEF IInv, TypeInv, TypeOK, Goto, With, Exit, OwnIndex, NothingStaged, RekeyPcs, InitPcs,
        SecretPcs, BundlePcs
<1>1. OwnIndex(p) /\ pc[p] = "swapIndex" /\ blobs' = blobs /\ meta' = meta
  BY DEF IndexInv, SwapIndex
<1>2. CASE stage.index # None
  <2>1. index' = [key |-> job[p].new, entries |-> CopyNames(p)]
    BY <1>1, <1>2 DEF SwapIndex, StagedIndex
  <2>2. pc'[p] = "sweep" /\ job' = job
    BY <1>2 DEF SwapIndex
  <2>3. CopyNames(p)' = CopyNames(p)
    BY <2>2 DEF CopyNames, NewName
  <2> QED
    BY <2>1, <2>2, <2>3 DEF StagedIndex, Listed
<1>3. CASE stage.index = None
  <2>1. pc'[p] = "closed" /\ stage' = NoStage /\ index' = index
    BY <1>3 DEF SwapIndex
  <2>2. job[p].envs = {}
    BY <1>1, <1>3 DEF StagedIndex
  <2>3. BlobFileNames(blobs) = {}
    BY <1>1, <2>2 DEF BlobInv, Rotation, Landing
  <2>4. LiveNames' = {}
    BY <1>1, <2>3 DEF LiveNames, ReadableNames, Readable, Decrypts, BlobFileNames
  <2>5. meta.key = job[p].new
    BY <1>1 DEF Phase, RekeyPhase
  <2>6. index # None => index.key # job[p].new
    BY <1>1 DEF Listed
  <2>7. IndexExact'
    BY <1>1, <2>1, <2>4, <2>5, <2>6 DEF IndexExact
  <2> QED
    BY <2>1, <2>7 DEF StagedIndex, Listed
<1> QED
  BY <1>2, <1>3 DEF SwapIndex

\* When the sweep ends, the root holds what the new index lists.
LEMMA SweepIndex ==
  ASSUME IInv, BlobInv, IndexInv, NEW p \in Procs, SweepBlob(p) \/ RekeyDone(p)
  PROVE  OwnIndex(p)'
<1> USE DEF IInv, TypeInv, TypeOK, Goto, With, Return, OwnIndex, NothingStaged, RekeyPcs, InitPcs,
        SecretPcs, BundlePcs
<1>1. OwnIndex(p) /\ pc[p] = "sweep" /\ index' = index /\ meta' = meta
  BY DEF IndexInv, SweepBlob, RekeyDone, disk
<1>2. CASE SweepBlob(p)
  <2>1. pc'[p] = "sweep" /\ job'[p].new = job[p].new /\ job'[p].envs = job[p].envs
    BY <1>2 DEF SweepBlob, Job
  <2>2. CopyNames(p)' = CopyNames(p)
    BY <2>1 DEF CopyNames, NewName
  <2> QED
    BY <1>1, <2>1, <2>2 DEF StagedIndex, Listed
<1>3. CASE RekeyDone(p)
  <2>1. /\ pc'[p] = "open" /\ stage' = NoStage /\ blobs' = blobs /\ job[p].names = {}
        /\ cache'[p].entries = CopyNames(p)
    BY <1>3 DEF RekeyDone, CopyNames, NewName, disk
  <2>2. meta.key = job[p].new /\ meta.nk = job[p].new
    BY <1>1 DEF Phase, RekeyPhase
  <2>3. Landing(p)
    BY DEF BlobInv, Rotation
  <2>4. LiveNames = CopyNames(p)
    <3>1. ASSUME NEW n \in LiveNames PROVE n \in CopyNames(p)
      <4>1. n \in BlobFileNames(blobs)
        BY DEF LiveNames, ReadableNames, Readable, Decrypts, BlobFileNames
      <4> QED
        BY <1>1, <2>1, <2>3, <4>1 DEF Landing, CopyNames
    <3>2. ASSUME NEW n \in CopyNames(p) PROVE n \in LiveNames
      <4>1. PICK e \in job[p].envs : n = NewName(p, e)
        BY DEF CopyNames
      <4>2. n \in Name /\ Copy(p, e) # None
        BY <1>1, <4>1, RotationKeys, NoneAssumption
      <4>3. stage.blobs[n] = None
        BY <1>1, <2>3, <4>2 DEF Landing, BlobFileNames
      <4>4. blobs[n] = Copy(p, e)
        BY <1>1, <2>3, <4>1, <4>2, <4>3 DEF Landing
      <4> QED
        BY <2>2, <4>1, <4>2, <4>4 DEF LiveNames, ReadableNames, Readable, Decrypts, Copy, NewName
    <3> QED
      BY <3>1, <3>2 DEF LiveNames, ReadableNames, CopyNames
  <2>5. LiveNames' = LiveNames
    BY <1>1, <2>1 DEF LiveNames, ReadableNames, Readable, Decrypts
  <2>6. index = [key |-> job[p].new, entries |-> CopyNames(p)] /\ index \in Index
    <3>1. index = [key |-> job[p].new, entries |-> CopyNames(p)]
      BY <1>1 DEF Listed
    <3>2. job[p].new \in Gens /\ CopyNames(p) \subseteq Name
      BY <1>1, RotationKeys DEF CopyNames
    <3> QED
      BY <3>1, <3>2 DEF Index
  <2>7. IndexExact'
    BY <1>1, <2>2, <2>4, <2>5, <2>6, NoneAssumption DEF IndexExact
  <2> QED
    BY <1>1, <2>1, <2>4, <2>5, <2>7 DEF StagedIndex, Listed
<1> QED
  BY <1>2, <1>3

\* While the only process prunes, no other changes what it is about to unlink.
LEMMA NextLooksTrue ==
  ASSUME Single, IInv, IndexInv, [Next]_vars, ~Fault, NEW q \in Procs
  PROVE  LooksTrue(q)'
<1> USE DEF IInv, TypeInv, TypeOK, Goto, With, Return, Exit
<1> SUFFICES ASSUME pc'[q] = "unlinkOrphan" PROVE job'[q].saw = blobs'[job'[q].orphan]
  BY DEF LooksTrue
<1>1. CASE UNCHANGED vars
  BY <1>1 DEF vars, disk, IndexInv, LooksTrue
<1>2. CASE LookAtBlob(q)
  <2>1. pc[q] = "orphans" /\ blobs' = blobs
    BY <1>2 DEF LookAtBlob, disk
  <2>2. PICK n \in job[q].names : LookAtBlob(q)!2!(n)
    BY <1>2 DEF LookAtBlob
  <2> DEFINE j == [job[q] EXCEPT !.names = @ \ {n}, !.orphan = n, !.saw = blobs[n]]
  <2>3. job' = [job EXCEPT ![q] = j]
    BY <2>1, <2>2
  <2>4. j.saw = blobs[n] /\ j.orphan = n
    BY DEF Job
  <2> HIDE DEF j
  <2> QED
    BY <2>1, <2>3, <2>4
<1>3. ASSUME Moves(q), ~LookAtBlob(q) PROVE FALSE
  BY <1>3, OnlyLooksUnlink DEF LookFails
<1>4. Moves(q) \/ UNCHANGED vars
  <2>1. \A p \in Procs : p = q
    BY DEF Single
  <2> QED
    BY <2>1 DEF Next, Moves, LoseIndex, Misplace
<1> QED
  BY <1>1, <1>2, <1>3, <1>4

\* The only process keeps the index as exact as its step requires.
LEMMA NextIndexInv ==
  ASSUME Single, IInv, IInv', BlobInv, IndexInv, [Next]_vars
  PROVE  IndexInv'
<1> USE DEF IInv, TypeInv, TypeOK
<1>1. ~Fault
  BY DEF Fault, Single
<1>2. ASSUME NEW q \in Procs, Starting(q) \/ Step(q) PROVE OwnIndex(q)'
  <2>1. ASSUME \/ \E pass \in Passes, v \in Versions : InitStore(q, pass, v) \/ Open(q, pass, v)
               \/ \E pass \in Passes : Rekey(q, pass)
        PROVE  OwnIndex(q)'
    BY <2>1, OpenIndex, RekeyIndex
  <2>2. ASSUME Reindex(q) \/ WriteIndex(q) \/ WriteBlob(q) \/ Unlink(q) \/ UnlinkOrphan(q)
        PROVE  OwnIndex(q)'
    BY <2>2, WriteIndexStep, BlobIndex
  <2>3. ASSUME InitMeta(q) \/ WriteMeta(q) \/ StageBlob(q) \/ StageMeta(q)
        PROVE  OwnIndex(q)'
    BY <2>3, MetaIndex, StageIndex
  <2>4. ASSUME \/ Verify(q) \/ LandBlob(q) \/ SwapMeta(q) \/ SwapIndex(q) \/ SweepBlob(q)
               \/ RekeyDone(q)
        PROVE  OwnIndex(q)'
    BY <2>4, CommitIndex, SwapIndexIndex, SweepIndex
  <2>5. ASSUME Idle(q), ~Reindex(q), ~WriteIndex(q) PROVE OwnIndex(q)'
    <3>1. ~Kill(q) /\ ~LookFails(q)
      BY <1>1 DEF Kill, LookFails
    <3> QED
      BY <2>5, <3>1, IdleIndex
  <2> QED
    BY <1>2, <2>1, <2>2, <2>3, <2>4, <2>5 DEF Starting, Step, Idle
<1>3. ASSUME NEW p \in Procs PROVE OwnIndex(p)'
  <2>1. ASSUME NEW q \in Procs, Starting(q) \/ Step(q) PROVE OwnIndex(p)'
    <3>1. q = p
      BY DEF Single
    <3> QED
      BY <1>2, <2>1, <3>1
  <2>2. CASE UNCHANGED vars
    <3>1. OwnIndex(p)
      BY DEF IndexInv, OwnIndex
    <3> QED
      BY <2>2, <3>1
         DEF vars, disk, OwnIndex, NothingStaged, StagedIndex, Listed, IndexExact, LiveNames,
             CopyNames, NewName, ReadableNames, Readable, Decrypts
  <2>3. ~LoseIndex /\ ~Misplace /\ \A q \in Procs : ~Kill(q) /\ ~Fail(q) /\ ~LookFails(q)
    BY <1>1 DEF LoseIndex, Misplace, Kill, Fail, LookFails
  <2> QED
    BY <2>1, <2>2, <2>3 DEF Next
<1>4. \A p \in Procs : LooksTrue(p)'
  BY <1>1, NextLooksTrue
<1> QED
  BY <1>3, <1>4, NextIndexGenerated DEF IndexInv, OwnIndex

\* An empty directory has no index.
LEMMA InitIndexInv == Init => IndexInv
BY DEF Init, IndexInv, IndexGenerated, NothingStaged, StagedIndex, Listed, LooksTrue, RekeyPcs, InitPcs,
       SecretPcs, BundlePcs

\* With one process and no fault, a listing that claims to be trusted names
\* exactly the blobs the store holds.
THEOREM ListingsExact ==
  (Exclusive /\ TidyFirst /\ Single) => (Spec => []ListingExact)
<1> SUFFICES ASSUME Exclusive, TidyFirst, Single PROVE Spec => []ListingExact
  OBVIOUS
<1>1. Spec => []IInv
  BY StoreInvariant
<1>2. Spec => []BlobInv
  BY BlobInvariant
<1>3. Init => IndexInv
  BY InitIndexInv
<1>4. IInv /\ IInv' /\ BlobInv /\ IndexInv /\ [Next]_vars => IndexInv'
  BY NextIndexInv
<1>5. IInv /\ IndexInv => ListingExact
  <2> SUFFICES ASSUME IInv, IndexInv, NEW p \in Procs, pc[p] = "open"
               PROVE  cache[p].entries = ReadableNames(blobs, id[p].key, id[p].nk)
    BY DEF ListingExact
  <2>1. id[p].key = meta.key /\ id[p].nk = meta.nk
    BY Synced DEF SyncedPcs
  <2> QED
    BY <2>1 DEF IndexInv, Listed, LiveNames
<1> QED
  BY <1>1, <1>2, <1>3, <1>4, <1>5, PTL DEF Spec
=============================================================================
