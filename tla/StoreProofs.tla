---------------------------- MODULE StoreProofs ----------------------------
(***************************************************************************)
(* Theorems about Store.tla, for any number of processes, paths, secrets,  *)
(* passphrases, identities and faults.  They assume what the README asks   *)
(* of the user: the commands that replace a key or a bundle run alone, and *)
(* a rotation is not started on top of a half-finished one.                *)
(***************************************************************************)
EXTENDS StoreInvariant, TLAPS

---------------------------------------------------------------------------
\* Types.

\* Every label the actions use is one.
LEMMA Labels ==
    \A l \in {"closed", "open", "initBundle", "initMeta", "stage", "verify", "land",
              "bundle", "swapMeta", "swapIndex", "sweep", "rewrap", "choose", "drop",
              "promote", "discard", "meta", "blob", "unlink", "index", "orphans",
              "unlinkOrphan"} :
        l \in Pcs
BY DEF Pcs, BusyPcs, AlonePcs, InitPcs, RekeyPcs, BundlePcs, SecretPcs

\* The values a closed process and an empty store start from have their types.
LEMMA Empties ==
    /\ NoBlobs \in Files
    /\ NoStage \in Stage
    /\ NoId \in Id
    /\ NoCache \in Cache
    /\ NoJob \in Job
<1>1. NoBlobs \in Files
  BY DEF NoBlobs, Files
<1> QED
  BY <1>1 DEF NoStage, Stage, NoId, Id, NoCache, Cache, NoJob, Job

\* A name is a naming key and a path.
LEMMA Names == \A nk \in Gens, path \in Paths : BlobID(nk, path) \in Name
BY DEF BlobID, Name

\* Each action keeps the types, given that the commands have their arguments.
LEMMA NextTypeOK == TypeInv /\ [Next]_vars => TypeOK'
<1> SUFFICES ASSUME TypeInv, [Next]_vars PROVE TypeOK'
  OBVIOUS
<1> USE Labels, Empties
<1> USE DEF TypeInv, TypeOK, disk, Goto, With, Return, Exit

<1>1. ASSUME NEW p \in Procs, NEW pass \in Passes, NEW v \in Versions, InitStore(p, pass, v)
      PROVE  TypeOK'
  <2>1. nextGen \in Gens /\ nextGen + 1 \in 1..(MaxGen + 1)
    BY <1>1, ConstantsAssumption DEF InitStore, Gens
  <2>2. [key |-> nextGen, nk |-> nextGen, floor |-> 0, ver |-> v] \in Id
    BY <2>1 DEF Id
  <2>3. [entries |-> {}, trusted |-> TRUE] \in Cache
    BY DEF Cache
  <2>4. [NoJob EXCEPT !.pass = pass] \in Job
    BY DEF Job
  <2> QED
    BY <1>1, <2>1, <2>2, <2>3, <2>4 DEF InitStore
<1>2. ASSUME NEW p \in Procs, NEW pass \in Passes, NEW v \in Versions, Open(p, pass, v)
      PROVE  TypeOK'
  <2>1. [key |-> meta.key, nk |-> meta.nk, floor |-> meta.floor, ver |-> v] \in Id
    BY <1>2 DEF Open, Meta, Id
  <2>2. (index # None /\ index.key = meta.key) => [entries |-> index.entries, trusted |-> TRUE] \in Cache
    BY DEF Cache, Index
  <2> QED
    BY <1>2, <2>1, <2>2 DEF Open
<1>3. ASSUME NEW p \in Procs, Close(p)
      PROVE  TypeOK'
  BY <1>3 DEF Close
<1>4. ASSUME NEW p \in Procs, NEW path \in Paths, NEW c \in Contents, Put(p, path, c)
      PROVE  TypeOK'
  <2>1. [NoJob EXCEPT !.path = path, !.content = c] \in Job
    BY DEF Job
  <2> QED
    BY <1>4, <2>1 DEF Put
<1>5. ASSUME NEW p \in Procs, NEW path \in Paths, Remove(p, path)
      PROVE  TypeOK'
  <2>1. [NoJob EXCEPT !.from = path] \in Job
    BY DEF Job
  <2> QED
    BY <1>5, <2>1 DEF Remove
<1>6. ASSUME NEW p \in Procs, NEW from \in Paths, NEW to \in Paths, Move(p, from, to)
      PROVE  TypeOK'
  <2> DEFINE n == BlobID(id[p].nk, from)
  <2>1. n \in Name
    BY <1>6, Names DEF Move, Starts, Arguments
  <2>2. blobs[n].content \in Contents
    BY <1>6, <2>1 DEF Move, Readable, Decrypts, Files, Blob
  <2>3. [NoJob EXCEPT !.path = to, !.from = from, !.content = blobs[n].content] \in Job
    BY <2>2 DEF Job
  <2> QED
    BY <1>6, <2>1, <2>2, <2>3 DEF Move
<1>7. ASSUME NEW p \in Procs, Reindex(p)
      PROVE  TypeOK'
  <2>1. [entries |-> ReadableNames(blobs, id[p].key, id[p].nk), trusted |-> TRUE] \in Cache
    BY DEF Cache, ReadableNames
  <2> QED
    BY <1>7, <2>1 DEF Reindex
<1>8. ASSUME NEW p \in Procs, RaiseFloor(p)
      PROVE  TypeOK'
  <2>1. [id[p] EXCEPT !.floor = id[p].ver] \in Id
    BY DEF Id
  <2> QED
    BY <1>8, <2>1 DEF RaiseFloor
<1>9. ASSUME NEW p \in Procs, RecordDigest(p)
      PROVE  TypeOK'
  BY <1>9 DEF RecordDigest
<1>10. ASSUME NEW p \in Procs, NEW pass \in Passes, Rekey(p, pass)
      PROVE  TypeOK'
  <2>1. nextGen \in Gens /\ nextGen + 1 \in 1..(MaxGen + 1)
    BY <1>10, ConstantsAssumption DEF Rekey, Gens
  <2>2. ReadAll(blobs) \in SUBSET Env
    BY DEF ReadAll, BlobFileNames, Files, Blob, Env
  <2>3. [NoJob EXCEPT !.new = nextGen, !.pass = pass, !.envs = ReadAll(blobs)] \in Job
    BY <2>1, <2>2 DEF Job
  <2> QED
    BY <1>10, <2>1, <2>2, <2>3 DEF Rekey
<1>11. ASSUME NEW p \in Procs, NEW pass \in Passes, Passwd(p, pass)
      PROVE  TypeOK'
  <2>1. [NoJob EXCEPT !.pass = pass] \in Job
    BY DEF Job
  <2> QED
    BY <1>11, <2>1 DEF Passwd
<1>12. ASSUME NEW p \in Procs, NEW pass \in Passes, PruneBundles(p, pass)
      PROVE  TypeOK'
  <2>1. [NoJob EXCEPT !.pass = pass] \in Job
    BY DEF Job
  <2> QED
    BY <1>12, <2>1 DEF PruneBundles
<1>13. ASSUME NEW p \in Procs, PruneOrphans(p)
      PROVE  TypeOK'
  <2>1. [NoJob EXCEPT !.names = BlobFileNames(blobs)] \in Job
    BY DEF Job, BlobFileNames
  <2> QED
    BY <1>13, <2>1 DEF PruneOrphans
<1>14. ASSUME NEW p \in Procs, InitBundle(p)
      PROVE  TypeOK'
  <2>1. [key |-> id[p].key, pass |-> job[p].pass] \in Bundle
    BY <1>14 DEF InitBundle, Arguments, Bundle
  <2> QED
    BY <1>14, <2>1 DEF InitBundle
<1>15. ASSUME NEW p \in Procs, InitMeta(p)
      PROVE  TypeOK'
  <2>1. SessionMeta(p) \in Meta
    BY <1>15 DEF InitMeta, Arguments, SessionMeta, Meta, Id
  <2> QED
    BY <1>15, <2>1 DEF InitMeta
<1>16. ASSUME NEW p \in Procs, WriteBlob(p)
      PROVE  TypeOK'
  <2> DEFINE n == BlobID(id[p].nk, job[p].path)
  <2>1. n \in Name
    BY <1>16, Names DEF WriteBlob, Arguments
  <2>2. [key |-> id[p].key, path |-> job[p].path, content |-> job[p].content] \in Blob
    BY <1>16 DEF WriteBlob, Arguments, Blob
  <2>3. [blobs EXCEPT ![n] = [key |-> id[p].key, path |-> job[p].path, content |-> job[p].content]] \in Files
    BY <2>2 DEF Files
  <2>4. [cache[p] EXCEPT !.entries = @ \cup {n}] \in Cache
    BY <2>1 DEF Cache
  <2> QED
    BY <1>16, <2>1, <2>2, <2>3, <2>4 DEF WriteBlob
<1>17. ASSUME NEW p \in Procs, Unlink(p)
      PROVE  TypeOK'
  <2> DEFINE n == BlobID(id[p].nk, job[p].from)
  <2>1. [blobs EXCEPT ![n] = None] \in Files
    BY DEF Files
  <2>2. [cache[p] EXCEPT !.entries = @ \ {n}] \in Cache
    BY DEF Cache
  <2>3. [job[p] EXCEPT !.from = None] \in Job
    BY DEF Job
  <2> QED
    BY <1>17, <2>1, <2>2, <2>3, ZenonT(60) DEF Unlink
<1>18. ASSUME NEW p \in Procs, WriteIndex(p)
      PROVE  TypeOK'
  <2>1. [key |-> id[p].key, entries |-> cache[p].entries] \in Index
    BY <1>18 DEF WriteIndex, Arguments, Index, Cache
  <2> QED
    BY <1>18, <2>1 DEF WriteIndex
<1>19. ASSUME NEW p \in Procs, WriteMeta(p)
      PROVE  TypeOK'
  <2>1. SessionMeta(p) \in Meta
    BY <1>19 DEF WriteMeta, Arguments, SessionMeta, Meta, Id
  <2> QED
    BY <1>19, <2>1 DEF WriteMeta
<1>20. ASSUME NEW p \in Procs, StageBlob(p)
      PROVE  TypeOK'
  <2>1. PICK e \in Unstaged(p) : StageBlob(p)!(e)
    BY <1>20 DEF StageBlob
  <2> DEFINE n == BlobID(job[p].new, e.path)
  <2> DEFINE b == [key |-> job[p].new, path |-> e.path, content |-> e.content]
  <2> DEFINE staged == [stage.blobs EXCEPT ![n] = b]
  <2>2. e \in Env /\ job[p].new \in Gens
    BY <1>20, <2>1 DEF Unstaged, Job, Arguments, RekeyPcs
  <2>3. staged \in Files
    BY <2>2 DEF Env, Blob, Stage, Files
  <2>4. [key |-> job[p].new, entries |-> ReadableNames(staged, job[p].new, job[p].new)] \in Index
    BY <2>2 DEF Index, ReadableNames
  <2>5. stage' \in Stage
    BY <2>1, <2>3, <2>4 DEF Stage
  <2> QED
    BY <1>20, <2>1, <2>2, <2>3, <2>4, <2>5 DEF StageBlob
<1>21. ASSUME NEW p \in Procs, StageMeta(p)
      PROVE  TypeOK'
  <2>1. [key |-> job[p].new, nk |-> job[p].new, floor |-> id[p].floor] \in Meta
    BY <1>21 DEF StageMeta, Arguments, RekeyPcs, Meta, Id
  <2>2. stage' \in Stage
    BY <1>21, <2>1 DEF StageMeta, Stage
  <2> QED
    BY <1>21, <2>1, <2>2 DEF StageMeta
<1>22. ASSUME NEW p \in Procs, Verify(p)
      PROVE  TypeOK'
  <2>1. [job[p] EXCEPT !.names = BlobFileNames(blobs)] \in Job
    BY DEF Job, BlobFileNames
  <2> QED
    BY <1>22, <2>1 DEF Verify
<1>23. ASSUME NEW p \in Procs, LandBlob(p)
      PROVE  TypeOK'
  <2>1. blobs' \in Files
    BY <1>23 DEF LandBlob, BlobFileNames, Stage, Files
  <2>2. stage' \in Stage
    BY <1>23 DEF LandBlob, BlobFileNames, Stage, Files
  <2> QED
    BY <1>23, <2>1, <2>2 DEF LandBlob
<1>24. ASSUME NEW p \in Procs, RetainBundle(p)
      PROVE  TypeOK'
  BY <1>24 DEF RetainBundle
<1>25. ASSUME NEW p \in Procs, WriteBundle(p)
      PROVE  TypeOK'
  <2>1. [key |-> job[p].new, pass |-> job[p].pass] \in Bundle
    BY <1>25 DEF WriteBundle, Arguments, RekeyPcs, Bundle
  <2> QED
    BY <1>25, <2>1 DEF WriteBundle
<1>26. ASSUME NEW p \in Procs, SwapMeta(p)
      PROVE  TypeOK'
  <2>1. stage.meta \in Meta \cup {None} /\ [stage EXCEPT !.meta = None] \in Stage
    BY DEF Stage
  <2> QED
    BY <1>26, <2>1 DEF SwapMeta
<1>27. ASSUME NEW p \in Procs, SwapIndex(p)
      PROVE  TypeOK'
  <2>1. stage.index \in Index \cup {None} /\ [stage EXCEPT !.index = None] \in Stage
    BY DEF Stage
  <2> QED
    BY <1>27, <2>1 DEF SwapIndex
<1>28. ASSUME NEW p \in Procs, SweepBlob(p)
      PROVE  TypeOK'
  <2>1. blobs' \in Files
    BY <1>28 DEF SweepBlob, Files
  <2>2. \A n : [job[p] EXCEPT !.names = @ \ {n}] \in Job
    BY DEF Job
  <2> QED
    BY <1>28, <2>1, <2>2, SMTT(60) DEF SweepBlob
<1>29. ASSUME NEW p \in Procs, RekeyDone(p)
      PROVE  TypeOK'
  <2> DEFINE g == job[p].new
  <2>1. g \in Gens
    BY <1>29 DEF RekeyDone, Arguments, RekeyPcs
  <2>2. [[id[p] EXCEPT !.key = g] EXCEPT !.nk = g] \in Id
    BY <2>1 DEF Id
  <2>3. [entries |-> {BlobID(g, e.path) : e \in job[p].envs}, trusted |-> TRUE] \in Cache
    BY <2>1, Names DEF Cache, Job, Env
  <2> QED
    BY <1>29, <2>1, <2>2, <2>3 DEF RekeyDone
<1>30. ASSUME NEW p \in Procs, Rewrap(p)
      PROVE  TypeOK'
  <2>1. [key |-> id[p].key, pass |-> job[p].pass] \in Bundle
    BY <1>30 DEF Rewrap, Arguments, BundlePcs, Bundle
  <2> QED
    BY <1>30, <2>1 DEF Rewrap
<1>31. ASSUME NEW p \in Procs, ChooseBundle(p)
      PROVE  TypeOK'
  <2>1. [job[p] EXCEPT !.slots = RetainedSlots] \in Job
    BY DEF Job, RetainedSlots
  <2>2. \A g \in RetainedSlots : [[job[p] EXCEPT !.slots = RetainedSlots \ {g}] EXCEPT !.keep = g] \in Job
    BY DEF Job, RetainedSlots
  <2> QED
    BY <1>31, <2>1, <2>2, ZenonT(60) DEF ChooseBundle
<1>32. ASSUME NEW p \in Procs, DropBundle(p)
      PROVE  TypeOK'
  BY <1>32 DEF DropBundle
<1>33. ASSUME NEW p \in Procs, PromoteBundle(p)
      PROVE  TypeOK'
  <2>1. job[p].keep \in Gens
    BY <1>33 DEF PromoteBundle, Arguments
  <2> QED
    BY <1>33, <2>1 DEF PromoteBundle
<1>34. ASSUME NEW p \in Procs, DiscardBundle(p)
      PROVE  TypeOK'
  <2>1. retained' \in [Gens -> Bundle \cup {None}]
    BY <1>34 DEF DiscardBundle
  <2>2. \A g : [job[p] EXCEPT !.slots = @ \ {g}] \in Job
    BY DEF Job
  <2> QED
    BY <1>34, <2>1, <2>2 DEF DiscardBundle
<1>35. ASSUME NEW p \in Procs, BundlesDone(p)
      PROVE  TypeOK'
  BY <1>35 DEF BundlesDone
<1>36. ASSUME NEW p \in Procs, LookAtBlob(p)
      PROVE  TypeOK'
  <2>1. job[p].names \subseteq Name /\ \A n \in Name : blobs[n] \in Blob \cup {None}
    BY DEF Job, Files
  <2>2. \A n \in Name : /\ [job[p] EXCEPT !.names = @ \ {n}] \in Job
                        /\ [job[p] EXCEPT !.names = @ \ {n}, !.orphan = n, !.saw = blobs[n]] \in Job
    BY <2>1 DEF Job
  <2>3. PICK n \in job[p].names : LookAtBlob(p)!2!(n)
    BY <1>36 DEF LookAtBlob
  <2>4. n \in Name
    BY <2>1
  <2> QED
    BY <1>36, <2>2, <2>3, <2>4 DEF LookAtBlob
<1>43. ASSUME NEW p \in Procs, UnlinkOrphan(p)
      PROVE  TypeOK'
  <2>1. [blobs EXCEPT ![job[p].orphan] = None] \in Files
    BY DEF Files
  <2>2. [job[p] EXCEPT !.orphan = None, !.saw = None] \in Job
    BY DEF Job
  <2> QED
    BY <1>43, <2>1, <2>2, ZenonT(60) DEF UnlinkOrphan
<1>44. ASSUME NEW p \in Procs, LookFails(p)
      PROVE  TypeOK'
  <2>1. \A n \in Name : [job[p] EXCEPT !.names = @ \ {n}, !.orphan = n, !.saw = None] \in Job
    BY DEF Job
  <2>2. job[p].names \subseteq Name
    BY DEF Job
  <2>3. PICK n \in job[p].names :
             job' = [job EXCEPT ![p] = [job[p] EXCEPT !.names = @ \ {n}, !.orphan = n, !.saw = None]]
    BY <1>44 DEF LookFails
  <2>4. n \in Name
    BY <2>2
  <2>5. job' \in [Procs -> Job]
    BY <2>1, <2>3, <2>4
  <2>6. faults' \in 0..MaxFaults
    BY <1>44, ConstantsAssumption DEF LookFails, Fault
  <2> QED
    BY <1>44, <2>5, <2>6 DEF LookFails
<1>37. ASSUME NEW p \in Procs, OrphansDone(p)
      PROVE  TypeOK'
  BY <1>37 DEF OrphansDone
<1>38. ASSUME NEW p \in Procs, Kill(p)
      PROVE  TypeOK'
  BY <1>38, ConstantsAssumption DEF Kill, Fault
<1>39. ASSUME NEW p \in Procs, Fail(p)
      PROVE  TypeOK'
  BY <1>39, ConstantsAssumption DEF Fail, Fault
<1>40. CASE LoseIndex
  BY <1>40, ConstantsAssumption DEF LoseIndex, Fault
<1>41. CASE Misplace
  BY <1>41, ConstantsAssumption DEF Misplace, Fault, BlobFileNames, Files
<1>42. CASE UNCHANGED vars
  BY <1>42 DEF vars
<1> QED
  BY <1>1, <1>2, <1>3, <1>4, <1>5, <1>6, <1>7, <1>8, <1>9, <1>10, <1>11, <1>12, <1>13, <1>14,
     <1>15, <1>16, <1>17, <1>18, <1>19, <1>20, <1>21, <1>22, <1>23, <1>24, <1>25, <1>26, <1>27,
     <1>28, <1>29, <1>30, <1>31, <1>32, <1>33, <1>34, <1>35, <1>36, <1>37, <1>38, <1>39, <1>40,
     <1>41, <1>42, <1>43, <1>44
     DEF Next, Starting, Step

\* Each action leaves every command with the arguments it will use.
LEMMA NextArguments == TypeInv /\ [Next]_vars => \A p \in Procs : Arguments(p)'
<1> SUFFICES ASSUME TypeInv, [Next]_vars PROVE \A q \in Procs : Arguments(q)'
  OBVIOUS
<1> USE DEF TypeInv, TypeOK, Arguments, RekeyPcs, BundlePcs, Goto, With, Return, Exit

<1>1. ASSUME NEW p \in Procs, NEW pass \in Passes, NEW v \in Versions, InitStore(p, pass, v)
      PROVE  \A q \in Procs : Arguments(q)'
  BY <1>1, ConstantsAssumption DEF InitStore, Gens
<1>2. ASSUME NEW p \in Procs, NEW pass \in Passes, NEW v \in Versions, Open(p, pass, v)
      PROVE  \A q \in Procs : Arguments(q)'
  BY <1>2 DEF Open, Meta
<1>3. ASSUME NEW p \in Procs, Close(p)
      PROVE  \A q \in Procs : Arguments(q)'
  BY <1>3 DEF Close
<1>4. ASSUME NEW p \in Procs, NEW path \in Paths, NEW c \in Contents, Put(p, path, c)
      PROVE  \A q \in Procs : Arguments(q)'
  BY <1>4 DEF Put, Starts, NoJob
<1>5. ASSUME NEW p \in Procs, NEW path \in Paths, Remove(p, path)
      PROVE  \A q \in Procs : Arguments(q)'
  BY <1>5 DEF Remove, Starts, NoJob
<1>6. ASSUME NEW p \in Procs, NEW from \in Paths, NEW to \in Paths, Move(p, from, to)
      PROVE  \A q \in Procs : Arguments(q)'
  BY <1>6, Names DEF Move, Starts, NoJob, Readable, Decrypts, Files, Blob
<1>7. ASSUME NEW p \in Procs, Reindex(p)
      PROVE  \A q \in Procs : Arguments(q)'
  BY <1>7 DEF Reindex, Starts, NoJob
<1>8. ASSUME NEW p \in Procs, RaiseFloor(p)
      PROVE  \A q \in Procs : Arguments(q)'
  BY <1>8 DEF RaiseFloor, Starts, Id
<1>9. ASSUME NEW p \in Procs, RecordDigest(p)
      PROVE  \A q \in Procs : Arguments(q)'
  BY <1>9 DEF RecordDigest, Starts, NoJob
<1>10. ASSUME NEW p \in Procs, NEW pass \in Passes, Rekey(p, pass)
      PROVE  \A q \in Procs : Arguments(q)'
  BY <1>10, ConstantsAssumption DEF Rekey, Starts, Gens, NoJob
<1>11. ASSUME NEW p \in Procs, NEW pass \in Passes, Passwd(p, pass)
      PROVE  \A q \in Procs : Arguments(q)'
  BY <1>11 DEF Passwd, Starts, NoJob
<1>12. ASSUME NEW p \in Procs, NEW pass \in Passes, PruneBundles(p, pass)
      PROVE  \A q \in Procs : Arguments(q)'
  BY <1>12 DEF PruneBundles, Starts, NoJob
<1>13. ASSUME NEW p \in Procs, PruneOrphans(p)
      PROVE  \A q \in Procs : Arguments(q)'
  BY <1>13 DEF PruneOrphans, Starts, NoJob
<1>14. ASSUME NEW p \in Procs, InitBundle(p)
      PROVE  \A q \in Procs : Arguments(q)'
  BY <1>14 DEF InitBundle
<1>15. ASSUME NEW p \in Procs, InitMeta(p)
      PROVE  \A q \in Procs : Arguments(q)'
  BY <1>15 DEF InitMeta
<1>16. ASSUME NEW p \in Procs, WriteBlob(p)
      PROVE  \A q \in Procs : Arguments(q)'
  BY <1>16 DEF WriteBlob
<1>17. ASSUME NEW p \in Procs, Unlink(p)
      PROVE  \A q \in Procs : Arguments(q)'
  BY <1>17 DEF Unlink
<1>18. ASSUME NEW p \in Procs, WriteIndex(p)
      PROVE  \A q \in Procs : Arguments(q)'
  BY <1>18 DEF WriteIndex
<1>19. ASSUME NEW p \in Procs, WriteMeta(p)
      PROVE  \A q \in Procs : Arguments(q)'
  BY <1>19 DEF WriteMeta
<1>20. ASSUME NEW p \in Procs, StageBlob(p)
      PROVE  \A q \in Procs : Arguments(q)'
  BY <1>20 DEF StageBlob
<1>21. ASSUME NEW p \in Procs, StageMeta(p)
      PROVE  \A q \in Procs : Arguments(q)'
  BY <1>21 DEF StageMeta
<1>22. ASSUME NEW p \in Procs, Verify(p)
      PROVE  \A q \in Procs : Arguments(q)'
  BY <1>22 DEF Verify, Job
<1>23. ASSUME NEW p \in Procs, LandBlob(p)
      PROVE  \A q \in Procs : Arguments(q)'
  BY <1>23 DEF LandBlob
<1>24. ASSUME NEW p \in Procs, RetainBundle(p)
      PROVE  \A q \in Procs : Arguments(q)'
  BY <1>24 DEF RetainBundle
<1>25. ASSUME NEW p \in Procs, WriteBundle(p)
      PROVE  \A q \in Procs : Arguments(q)'
  BY <1>25 DEF WriteBundle
<1>26. ASSUME NEW p \in Procs, SwapMeta(p)
      PROVE  \A q \in Procs : Arguments(q)'
  BY <1>26 DEF SwapMeta
<1>27. ASSUME NEW p \in Procs, SwapIndex(p)
      PROVE  \A q \in Procs : Arguments(q)'
  BY <1>27 DEF SwapIndex
<1>28. ASSUME NEW p \in Procs, SweepBlob(p)
      PROVE  \A q \in Procs : Arguments(q)'
  BY <1>28 DEF SweepBlob
<1>29. ASSUME NEW p \in Procs, RekeyDone(p)
      PROVE  \A q \in Procs : Arguments(q)'
  BY <1>29 DEF RekeyDone
<1>30. ASSUME NEW p \in Procs, Rewrap(p)
      PROVE  \A q \in Procs : Arguments(q)'
  BY <1>30 DEF Rewrap
<1>31. ASSUME NEW p \in Procs, ChooseBundle(p)
      PROVE  \A q \in Procs : Arguments(q)'
  BY <1>31 DEF ChooseBundle, RetainedSlots, Job
<1>32. ASSUME NEW p \in Procs, DropBundle(p)
      PROVE  \A q \in Procs : Arguments(q)'
  BY <1>32 DEF DropBundle
<1>33. ASSUME NEW p \in Procs, PromoteBundle(p)
      PROVE  \A q \in Procs : Arguments(q)'
  BY <1>33 DEF PromoteBundle
<1>34. ASSUME NEW p \in Procs, DiscardBundle(p)
      PROVE  \A q \in Procs : Arguments(q)'
  BY <1>34 DEF DiscardBundle
<1>35. ASSUME NEW p \in Procs, BundlesDone(p)
      PROVE  \A q \in Procs : Arguments(q)'
  BY <1>35 DEF BundlesDone
<1>36. ASSUME NEW p \in Procs, LookAtBlob(p)
      PROVE  \A q \in Procs : Arguments(q)'
  <2>1. PICK n \in job[p].names : LookAtBlob(p)!2!(n)
    BY <1>36 DEF LookAtBlob
  <2>2. job[p].names \subseteq Name /\ UNCHANGED id
    BY <1>36 DEF LookAtBlob, Job
  <2>3. pc[p] = "orphans" /\ pc \in [Procs -> Pcs] /\ job \in [Procs -> Job]
    BY <1>36 DEF LookAtBlob
  <2>4. CASE ~IsOrphan(p, n)
    <3>1. UNCHANGED pc /\ job' = [job EXCEPT ![p] = [job[p] EXCEPT !.names = @ \ {n}]]
      BY <2>1, <2>4 DEF With
    <3> QED
      BY <2>2, <2>3, <3>1 DEF InitPcs, RekeyPcs, BundlePcs
  <2>5. CASE IsOrphan(p, n)
    <3> DEFINE j == [job[p] EXCEPT !.names = @ \ {n}, !.orphan = n, !.saw = blobs[n]]
    <3>3. pc' = [pc EXCEPT ![p] = "unlinkOrphan"] /\ job' = [job EXCEPT ![p] = j]
      BY <2>1, <2>5 DEF With, Goto
    <3>4. j.orphan = n
      BY <2>3 DEF Job
    <3> HIDE DEF j
    <3>1. /\ pc' = [pc EXCEPT ![p] = "unlinkOrphan"]
          /\ \A q \in Procs : q # p => job'[q] = job[q]
          /\ job'[p].orphan = n
      BY <2>3, <3>3, <3>4
    <3>2. n \in Name
      BY <2>1, <2>2
    <3> QED
      BY <2>2, <2>3, <3>1, <3>2 DEF InitPcs, RekeyPcs, BundlePcs
  <2> QED
    BY <2>4, <2>5
<1>43. ASSUME NEW p \in Procs, UnlinkOrphan(p)
      PROVE  \A q \in Procs : Arguments(q)'
  BY <1>43 DEF UnlinkOrphan
<1>44. ASSUME NEW p \in Procs, LookFails(p)
      PROVE  \A q \in Procs : Arguments(q)'
  BY <1>44 DEF LookFails, Job
<1>37. ASSUME NEW p \in Procs, OrphansDone(p)
      PROVE  \A q \in Procs : Arguments(q)'
  BY <1>37 DEF OrphansDone
<1>38. ASSUME NEW p \in Procs, Kill(p)
      PROVE  \A q \in Procs : Arguments(q)'
  BY <1>38 DEF Kill
<1>39. ASSUME NEW p \in Procs, Fail(p)
      PROVE  \A q \in Procs : Arguments(q)'
  BY <1>39 DEF Fail, SecretPcs
<1>40. CASE LoseIndex
  BY <1>40 DEF LoseIndex
<1>41. CASE Misplace
  BY <1>41 DEF Misplace
<1>42. CASE UNCHANGED vars
  BY <1>42 DEF vars
<1> QED
  BY <1>1, <1>2, <1>3, <1>4, <1>5, <1>6, <1>7, <1>8, <1>9, <1>10, <1>11, <1>12, <1>13, <1>14,
     <1>15, <1>16, <1>17, <1>18, <1>19, <1>20, <1>21, <1>22, <1>23, <1>24, <1>25, <1>26, <1>27,
     <1>28, <1>29, <1>30, <1>31, <1>32, <1>33, <1>34, <1>35, <1>36, <1>37, <1>38, <1>39, <1>40,
     <1>41, <1>42, <1>43, <1>44
     DEF Next, Starting, Step

\* Every variable keeps its type, whatever the constants are.
THEOREM TypeCorrect == Spec => []TypeOK
<1>1. Init => TypeInv
  BY Labels, Empties, ConstantsAssumption
     DEF Init, TypeInv, TypeOK, Arguments, RekeyPcs, BundlePcs
<1>2. TypeInv /\ [Next]_vars => TypeInv'
  BY NextTypeOK, NextArguments DEF TypeInv
<1>3. TypeInv => TypeOK
  BY DEF TypeInv
<1> QED
  BY <1>1, <1>2, <1>3, PTL DEF Spec

---------------------------------------------------------------------------
\* The inductive invariant is preserved.

OthersKept(p) ==
    \A q \in Procs \ {p} : pc'[q] = pc[q] /\ id'[q] = id[q] /\ job'[q] = job[q]

OthersClosed(p) == \A q \in Procs \ {p} : pc[q] = "closed"

\* The metadata is rewritten with the keys it had.
KeysKept == meta # None /\ meta' # None /\ meta'.key = meta.key /\ meta'.nk = meta.nk

\* What a step of p must show: p starts to run alone, or opens the store, only
\* when that is allowed, p's own phase holds afterwards, and only a process
\* that runs alone touches the keys, the bundles and the staging directory.
LEMMA StepOf ==
  ASSUME IInv, TypeInv', NEW p \in Procs,
         OthersKept(p),
         pc'[p] \in AlonePcs => pc[p] \in AlonePcs \/ OthersClosed(p),
         pc'[p] # "closed" => pc[p] # "closed" \/ \A q \in Procs : pc[q] \notin AlonePcs,
         \/ pc[p] \in AlonePcs
         \/ UNCHANGED <<meta, current, retained, stage>>
         \/ KeysKept /\ pc[p] # "closed" /\ UNCHANGED <<current, retained, stage>>,
         Openable' \/ UNCHANGED <<meta, current, retained>>,
         Phase(p)'
  PROVE  IInv'
<1>1. RunsAlone'
  BY DEF IInv, RunsAlone, OthersKept, OthersClosed, TypeInv, TypeOK
<1>2. Openable'
  BY DEF IInv, Openable, OpensMeta
<1>3. ASSUME NEW q \in Procs \ {p} PROVE Phase(q)'
  <2>1. CASE pc[p] \in AlonePcs
    <3>1. pc[q] = "closed" /\ pc'[q] = "closed"
      BY <2>1 DEF IInv, RunsAlone, OthersKept
    <3> QED
      BY <3>1 DEF Phase, InSync, InitPhase, RekeyPhase, BundlePhase,
                  SyncedPcs, InitPcs, BundlePcs, SecretPcs
  <2>2. CASE UNCHANGED <<meta, current, retained, stage>>
    BY <2>2 DEF IInv, OthersKept, Phase, InSync, InitPhase, RekeyPhase, BundlePhase,
                OpensMeta, HalfSwapped, StagedMeta, RetainedSlots
  <2>3. CASE KeysKept /\ pc[p] # "closed" /\ UNCHANGED <<current, retained, stage>>
    <3>1. pc[q] \notin AlonePcs /\ pc'[q] = pc[q]
      BY <2>3 DEF IInv, RunsAlone, OthersKept
    <3>2. InSync(q)'
      BY <2>3 DEF IInv, OthersKept, Phase, InSync, KeysKept
    <3> QED
      BY <3>1, <3>2 DEF Phase, InitPhase, RekeyPhase, BundlePhase, AlonePcs,
                        InitPcs, RekeyPcs, BundlePcs
  <2> QED
    BY <2>1, <2>2, <2>3
<1> QED
  BY <1>1, <1>2, <1>3 DEF IInv

\* A floor is a number, so floors can be compared.
LEMMA Floors ==
  ASSUME TypeOK, NEW p \in Procs
  PROVE  id[p].floor \in Nat
<1>1. id[p] \in Id
  BY DEF TypeOK
<1>2. id[p].floor \in Versions \cup {0}
  BY <1>1 DEF Id
<1>3. \A v \in Versions \cup {0} : v \in Nat
  BY ConstantsAssumption
<1> QED
  BY <1>2, <1>3

\* Every step preserves the invariant, if the commands that rewrite keys and
\* metadata run alone and a rotation starts from a tidy store.
LEMMA NextIInv ==
  ASSUME Exclusive, TidyFirst
  PROVE  IInv /\ [Next]_vars => IInv'
<1> SUFFICES ASSUME IInv, [Next]_vars PROVE IInv'
  OBVIOUS
<1>0. TypeInv'
  BY NextTypeOK, NextArguments DEF TypeInv, IInv
<1> USE <1>0 DEF Goto, With, Return, Exit, InitPcs, RekeyPcs, BundlePcs, SecretPcs, AlonePcs,
   SyncedPcs, OthersKept, OthersClosed, MayStartAlone, MayOpen, Starts, BusyPcs, disk, IInv,
   TypeInv, TypeOK, Arguments, Phase, InSync, InitPhase, RekeyPhase, BundlePhase, RunsAlone,
   Openable

<1>1. ASSUME NEW p \in Procs, NEW pass \in Passes, NEW v \in Versions, InitStore(p, pass, v)
      PROVE  IInv'
  <2>1. Phase(p)'
    BY <1>1, ConstantsAssumption DEF InitStore
  <2> QED
    BY <1>1, <2>1, StepOf DEF InitStore
<1>2. ASSUME NEW p \in Procs, NEW pass \in Passes, NEW v \in Versions, Open(p, pass, v)
      PROVE  IInv'
  <2>1. Phase(p)'
    BY <1>2, ConstantsAssumption DEF Open, Meta
  <2> QED
    BY <1>2, <2>1, StepOf DEF Open
<1>3. ASSUME NEW p \in Procs, Close(p)
      PROVE  IInv'
  <2>1. Phase(p)'
    BY <1>3 DEF Close
  <2> QED
    BY <1>3, <2>1, StepOf DEF Close
<1>4. ASSUME NEW p \in Procs, NEW path \in Paths, NEW c \in Contents, Put(p, path, c)
      PROVE  IInv'
  <2>1. Phase(p)'
    BY <1>4 DEF Put
  <2> QED
    BY <1>4, <2>1, StepOf DEF Put
<1>5. ASSUME NEW p \in Procs, NEW path \in Paths, Remove(p, path)
      PROVE  IInv'
  <2>1. Phase(p)'
    BY <1>5 DEF Remove
  <2> QED
    BY <1>5, <2>1, StepOf DEF Remove
<1>6. ASSUME NEW p \in Procs, NEW from \in Paths, NEW to \in Paths, Move(p, from, to)
      PROVE  IInv'
  <2>1. Phase(p)'
    BY <1>6 DEF Move
  <2> QED
    BY <1>6, <2>1, StepOf, ZenonT(60) DEF Move
<1>7. ASSUME NEW p \in Procs, Reindex(p)
      PROVE  IInv'
  <2>1. Phase(p)'
    BY <1>7 DEF Reindex
  <2> QED
    BY <1>7, <2>1, StepOf DEF Reindex
<1>8. ASSUME NEW p \in Procs, RaiseFloor(p)
      PROVE  IInv'
  <2>1. Phase(p)'
    BY <1>8, ConstantsAssumption DEF RaiseFloor, Id
  <2> QED
    BY <1>8, <2>1, StepOf DEF RaiseFloor
<1>9. ASSUME NEW p \in Procs, RecordDigest(p)
      PROVE  IInv'
  <2>1. Phase(p)'
    BY <1>9 DEF RecordDigest
  <2> QED
    BY <1>9, <2>1, StepOf DEF RecordDigest
<1>10. ASSUME NEW p \in Procs, NEW pass \in Passes, Rekey(p, pass)
      PROVE  IInv'
  <2>1. Phase(p)'
    BY <1>10 DEF Rekey, HalfSwapped, NoJob
  <2> QED
    BY <1>10, <2>1, StepOf DEF Rekey
<1>11. ASSUME NEW p \in Procs, NEW pass \in Passes, Passwd(p, pass)
      PROVE  IInv'
  <2>1. Phase(p)'
    BY <1>11 DEF Passwd
  <2> QED
    BY <1>11, <2>1, StepOf DEF Passwd
<1>12. ASSUME NEW p \in Procs, NEW pass \in Passes, PruneBundles(p, pass)
      PROVE  IInv'
  <2>1. Phase(p)'
    BY <1>12 DEF PruneBundles
  <2> QED
    BY <1>12, <2>1, StepOf DEF PruneBundles
<1>13. ASSUME NEW p \in Procs, PruneOrphans(p)
      PROVE  IInv'
  <2>1. Phase(p)'
    BY <1>13 DEF PruneOrphans
  <2> QED
    BY <1>13, <2>1, StepOf DEF PruneOrphans
<1>14. ASSUME NEW p \in Procs, InitBundle(p)
      PROVE  IInv'
  <2>1. Phase(p)'
    BY <1>14, NoneAssumption DEF InitBundle, Bundle
  <2>2. Openable'
    BY <1>14, NoneAssumption DEF InitBundle, OpensMeta, Bundle
  <2> QED
    BY <1>14, <2>1, <2>2, StepOf DEF InitBundle
<1>15. ASSUME NEW p \in Procs, InitMeta(p)
      PROVE  IInv'
  <2>0. id[p].floor \in Nat
    BY Floors
  <2>1. SessionMeta(p) \in Meta /\ id[p].floor \in Nat
    BY <1>15, <2>0 DEF InitMeta, SessionMeta, Meta, Id
  <2>2. meta' # None /\ meta'.key = id[p].key /\ meta'.nk = id[p].nk /\ meta'.floor = id[p].floor
    BY <1>15, <2>1, NoneAssumption DEF InitMeta, SessionMeta
  <2>3. Phase(p)'
    BY <1>15, <2>1, <2>2 DEF InitMeta
  <2>4. OpensMeta(current)'
    BY <1>15, <2>2 DEF InitMeta, OpensMeta
  <2> QED
    BY <1>15, <2>0, <2>1, <2>2, <2>3, <2>4, StepOf DEF InitMeta, OpensMeta
<1>16. ASSUME NEW p \in Procs, WriteBlob(p)
      PROVE  IInv'
  <2>1. Phase(p)'
    BY <1>16 DEF WriteBlob
  <2> QED
    BY <1>16, <2>1, StepOf DEF WriteBlob
<1>17. ASSUME NEW p \in Procs, Unlink(p)
      PROVE  IInv'
  <2>1. Phase(p)'
    BY <1>17 DEF Unlink
  <2> QED
    BY <1>17, <2>1, StepOf DEF Unlink
<1>18. ASSUME NEW p \in Procs, WriteIndex(p)
      PROVE  IInv'
  <2>1. Phase(p)'
    BY <1>18 DEF WriteIndex
  <2> QED
    BY <1>18, <2>1, StepOf DEF WriteIndex
<1>19. ASSUME NEW p \in Procs, WriteMeta(p)
      PROVE  IInv'
  <2>0. id[p].floor \in Nat
    BY Floors
  <2>1. SessionMeta(p) \in Meta /\ id[p].floor \in Nat
    BY <1>19, <2>0 DEF WriteMeta, SessionMeta, Meta, Id
  <2>2. meta' # None /\ meta'.key = id[p].key /\ meta'.nk = id[p].nk /\ meta'.floor = id[p].floor
    BY <1>19, <2>1, NoneAssumption DEF WriteMeta, SessionMeta
  <2>3. Phase(p)'
    BY <1>19, <2>1, <2>2 DEF WriteMeta
  <2>4. KeysKept
    BY <1>19, <2>2 DEF WriteMeta, KeysKept
  <2>5. Openable'
    BY <1>19, <2>2, <2>4 DEF WriteMeta, OpensMeta, KeysKept
  <2>6. pc[p] = "meta" /\ pc'[p] = "open" /\ OthersKept(p) /\ UNCHANGED <<current, retained, stage>>
    BY <1>19 DEF WriteMeta
  <2> QED
    BY <2>3, <2>4, <2>5, <2>6, StepOf
<1>20. ASSUME NEW p \in Procs, StageBlob(p)
      PROVE  IInv'
  <2>1. Phase(p)'
    BY <1>20, ZenonT(60) DEF StageBlob, HalfSwapped, StagedMeta, OpensMeta
  <2> QED
    BY <1>20, <2>1, StepOf DEF StageBlob
<1>21. ASSUME NEW p \in Procs, StageMeta(p)
      PROVE  IInv'
  <2>1. Phase(p)'
    BY <1>21, NoneAssumption DEF StageMeta, HalfSwapped, StagedMeta, Stage
  <2> QED
    BY <1>21, <2>1, StepOf DEF StageMeta
<1>22. ASSUME NEW p \in Procs, Verify(p)
      PROVE  IInv'
  <2>1. Phase(p)'
    BY <1>22 DEF Verify, HalfSwapped, StagedMeta, Job
  <2> QED
    BY <1>22, <2>1, StepOf DEF Verify
<1>23. ASSUME NEW p \in Procs, LandBlob(p)
      PROVE  IInv'
  <2>1. Phase(p)'
    BY <1>23 DEF LandBlob, HalfSwapped, StagedMeta, OpensMeta, Stage
  <2> QED
    BY <1>23, <2>1, StepOf DEF LandBlob
<1>24. ASSUME NEW p \in Procs, RetainBundle(p)
      PROVE  IInv'
  <2>1. Phase(p)'
    BY <1>24 DEF RetainBundle, HalfSwapped, StagedMeta, OpensMeta
  <2>2. Openable'
    BY <1>24 DEF RetainBundle, OpensMeta, HalfSwapped
  <2> QED
    BY <1>24, <2>1, <2>2, StepOf DEF RetainBundle
<1>25. ASSUME NEW p \in Procs, WriteBundle(p)
      PROVE  IInv'
  <2>1. current' \in Bundle /\ current'.key = job[p].new
    BY <1>25 DEF WriteBundle, Bundle
  <2>2. meta # None /\ \E g \in Gens : OpensMeta(retained[g])
    BY <1>25 DEF WriteBundle
  <2>3. InSync(p)' /\ InitPhase(p)' /\ BundlePhase(p)'
    BY <1>25 DEF WriteBundle
  <2>4. RekeyPhase(p)'
    BY <1>25, <2>1, <2>2, NoneAssumption
       DEF WriteBundle, IInv, TypeInv, TypeOK, Phase, RekeyPhase, StagedMeta, OpensMeta
  <2>5. Phase(p)' /\ Openable'
    BY <1>25, <2>2, <2>3, <2>4 DEF WriteBundle, OpensMeta
  <2> QED
    BY <1>25, <2>1, <2>2, <2>3, <2>4, <2>5, StepOf DEF WriteBundle
<1>26. ASSUME NEW p \in Procs, SwapMeta(p)
      PROVE  IInv'
  <2>1. meta' = [key |-> job[p].new, nk |-> job[p].new, floor |-> id[p].floor]
    BY <1>26 DEF SwapMeta, StagedMeta
  <2>2. Phase(p)'
    BY <1>26, <2>1 DEF SwapMeta
  <2>3. current # None /\ current.key = job[p].new
    BY <1>26 DEF SwapMeta
  <2>4. Openable'
    BY <1>26, <2>1, <2>3 DEF SwapMeta, OpensMeta
  <2> QED
    BY <1>26, <2>1, <2>2, <2>3, <2>4, StepOf, ZenonT(60) DEF SwapMeta
<1>27. ASSUME NEW p \in Procs, SwapIndex(p)
      PROVE  IInv'
  <2>1. Phase(p)'
    BY <1>27 DEF SwapIndex
  <2> QED
    BY <1>27, <2>1, StepOf DEF SwapIndex
<1>28. ASSUME NEW p \in Procs, SweepBlob(p)
      PROVE  IInv'
  <2>1. Phase(p)'
    BY <1>28 DEF SweepBlob
  <2> QED
    BY <1>28, <2>1, StepOf DEF SweepBlob
<1>29. ASSUME NEW p \in Procs, RekeyDone(p)
      PROVE  IInv'
  <2>1. meta = [key |-> job[p].new, nk |-> job[p].new, floor |-> id[p].floor]
    BY <1>29 DEF RekeyDone
  <2>2. meta # None /\ id[p].floor \in Nat
    BY <1>29, <2>1, ConstantsAssumption, NoneAssumption
       DEF RekeyDone, IInv, TypeInv, TypeOK, Arguments, Meta, Id
  <2>3. id'[p].key = job[p].new /\ id'[p].nk = job[p].new /\ id'[p].floor = id[p].floor
    BY <1>29 DEF RekeyDone, Id
  <2>4. Phase(p)'
    BY <1>29, <2>1, <2>2, <2>3
       DEF RekeyDone, IInv, TypeInv, TypeOK, disk, Phase, InSync, InitPhase, RekeyPhase, BundlePhase
  <2> QED
    BY <1>29, <2>1, <2>2, <2>3, <2>4, StepOf, ZenonT(60) DEF RekeyDone
<1>30. ASSUME NEW p \in Procs, Rewrap(p)
      PROVE  IInv'
  <2>1. Phase(p)'
    BY <1>30, NoneAssumption DEF Rewrap
  <2>2. Openable'
    BY <1>30, NoneAssumption DEF Rewrap, OpensMeta, Bundle
  <2> QED
    BY <1>30, <2>1, <2>2, StepOf DEF Rewrap
<1>31. ASSUME NEW p \in Procs, ChooseBundle(p)
      PROVE  IInv'
  <2>1. Phase(p)'
    BY <1>31 DEF ChooseBundle, OpensMeta, RetainedSlots, Usable, Job, NoJob
  <2> QED
    BY <1>31, <2>1, StepOf DEF ChooseBundle
<1>32. ASSUME NEW p \in Procs, DropBundle(p)
      PROVE  IInv'
  <2>1. Phase(p)'
    BY <1>32 DEF DropBundle, OpensMeta, RetainedSlots
  <2>2. Openable'
    BY <1>32 DEF DropBundle, OpensMeta
  <2> QED
    BY <1>32, <2>1, <2>2, StepOf DEF DropBundle
<1>33. ASSUME NEW p \in Procs, PromoteBundle(p)
      PROVE  IInv'
  <2>1. Phase(p)'
    BY <1>33 DEF PromoteBundle, OpensMeta, RetainedSlots, Job
  <2>2. Openable'
    BY <1>33 DEF PromoteBundle, OpensMeta
  <2> QED
    BY <1>33, <2>1, <2>2, StepOf DEF PromoteBundle
<1>34. ASSUME NEW p \in Procs, DiscardBundle(p)
      PROVE  IInv'
  <2>1. Phase(p)'
    BY <1>34 DEF DiscardBundle, OpensMeta, RetainedSlots, Job
  <2>2. Openable'
    BY <1>34 DEF DiscardBundle, OpensMeta
  <2> QED
    BY <1>34, <2>1, <2>2, StepOf, ZenonT(60) DEF DiscardBundle
<1>35. ASSUME NEW p \in Procs, BundlesDone(p)
      PROVE  IInv'
  <2>1. Phase(p)'
    BY <1>35 DEF BundlesDone
  <2> QED
    BY <1>35, <2>1, StepOf DEF BundlesDone
<1>36. ASSUME NEW p \in Procs, LookAtBlob(p)
      PROVE  IInv'
  <2>1. Phase(p)'
    BY <1>36 DEF LookAtBlob
  <2> QED
    BY <1>36, <2>1, StepOf DEF LookAtBlob
<1>43. ASSUME NEW p \in Procs, UnlinkOrphan(p)
      PROVE  IInv'
  <2>1. Phase(p)'
    BY <1>43 DEF UnlinkOrphan
  <2> QED
    BY <1>43, <2>1, StepOf DEF UnlinkOrphan
<1>44. ASSUME NEW p \in Procs, LookFails(p)
      PROVE  IInv'
  <2>1. Phase(p)'
    BY <1>44 DEF LookFails
  <2> QED
    BY <1>44, <2>1, StepOf DEF LookFails
<1>37. ASSUME NEW p \in Procs, OrphansDone(p)
      PROVE  IInv'
  <2>1. Phase(p)'
    BY <1>37 DEF OrphansDone
  <2> QED
    BY <1>37, <2>1, StepOf DEF OrphansDone
<1>38. ASSUME NEW p \in Procs, Kill(p)
      PROVE  IInv'
  <2>1. Phase(p)'
    BY <1>38 DEF Kill
  <2> QED
    BY <1>38, <2>1, StepOf, SMTT(60) DEF Kill
<1>39. ASSUME NEW p \in Procs, Fail(p)
      PROVE  IInv'
  <2>1. Phase(p)'
    BY <1>39 DEF Fail
  <2> QED
    BY <1>39, <2>1, StepOf DEF Fail
<1>40. CASE LoseIndex
  BY <1>40 DEF LoseIndex, OpensMeta, HalfSwapped, StagedMeta, RetainedSlots
<1>41. CASE Misplace
  BY <1>41 DEF Misplace, OpensMeta, HalfSwapped, StagedMeta, RetainedSlots
<1>42. CASE UNCHANGED vars
  BY <1>42 DEF vars, OpensMeta, HalfSwapped, StagedMeta, RetainedSlots
<1> QED
  BY <1>1, <1>2, <1>3, <1>4, <1>5, <1>6, <1>7, <1>8, <1>9, <1>10, <1>11, <1>12, <1>13, <1>14,
     <1>15, <1>16, <1>17, <1>18, <1>19, <1>20, <1>21, <1>22, <1>23, <1>24, <1>25, <1>26, <1>27,
     <1>28, <1>29, <1>30, <1>31, <1>32, <1>33, <1>34, <1>35, <1>36, <1>37, <1>38, <1>39, <1>40,
     <1>41, <1>42, <1>43, <1>44
     DEF Next, Starting, Step

---------------------------------------------------------------------------
\* Theorems.

\* A directory with no store in it satisfies the invariant.
LEMMA InitIInv == Init => IInv
<1> SUFFICES ASSUME Init PROVE IInv
  OBVIOUS
<1>1. TypeInv
  BY Labels, Empties, ConstantsAssumption
     DEF Init, TypeInv, TypeOK, Arguments, RekeyPcs, BundlePcs
<1>2. RunsAlone /\ Openable
  BY DEF Init, RunsAlone, Openable
<1>3. \A p \in Procs : Phase(p)
  BY DEF Init, Phase, InSync, InitPhase, RekeyPhase, BundlePhase,
         SyncedPcs, InitPcs, SecretPcs, BundlePcs
<1> QED
  BY <1>1, <1>2, <1>3 DEF IInv

\* The strengthened invariant holds in every reachable state of every store.
THEOREM StoreInvariant == (Exclusive /\ TidyFirst) => (Spec => []IInv)
<1> SUFFICES ASSUME Exclusive, TidyFirst PROVE Spec => []IInv
  OBVIOUS
<1>1. Init => IInv
  BY InitIInv
<1>2. IInv /\ [Next]_vars => IInv'
  BY NextIInv
<1> QED
  BY <1>1, <1>2, PTL DEF Spec

\* No interruption of a rotation, a passphrase change or a bundle prune leaves
\* the store without a bundle that carries its key.
THEOREM StoreOpenable == (Exclusive /\ TidyFirst) => (Spec => []Openable)
<1> SUFFICES ASSUME Exclusive, TidyFirst PROVE Spec => []Openable
  OBVIOUS
<1>1. Spec => []IInv
  BY StoreInvariant
<1>2. IInv => Openable
  BY DEF IInv
<1> QED
  BY <1>1, <1>2, PTL

\* A step that rewrites the metadata keeps it, and the floor it writes is the one in
\* the memory of the process that writes.
LEMMA FloorStep ==
  ASSUME IInv, [Next]_vars, meta # None
  PROVE  \/ UNCHANGED meta
         \/ /\ meta' # None
            /\ \E p \in Procs : pc[p] \in {"meta", "swapMeta"} /\ id[p].floor = meta'.floor
<1> USE DEF IInv, TypeInv, Phase
<1>1. ASSUME NEW p \in Procs, InitMeta(p) PROVE FALSE
  BY <1>1 DEF InitMeta, InitPhase, InitPcs
<1>2. ASSUME NEW p \in Procs, WriteMeta(p)
      PROVE  meta' # None /\ pc[p] = "meta" /\ id[p].floor = meta'.floor
  <2>1. SessionMeta(p) \in Meta
    BY <1>2 DEF WriteMeta, TypeOK, Arguments, SessionMeta, Meta, Id
  <2> QED
    BY <1>2, <2>1, NoneAssumption DEF WriteMeta, SessionMeta
<1>3. ASSUME NEW p \in Procs, SwapMeta(p)
      PROVE  meta' # None /\ pc[p] = "swapMeta" /\ id[p].floor = meta'.floor
  <2>1. meta' = [key |-> job[p].new, nk |-> job[p].new, floor |-> id[p].floor]
    BY <1>3 DEF SwapMeta, RekeyPhase, StagedMeta
  <2>2. meta' \in Meta
    BY <1>3, <2>1 DEF SwapMeta, TypeOK, Arguments, RekeyPcs, Meta, Id
  <2> QED
    BY <1>3, <2>1, <2>2, NoneAssumption DEF SwapMeta
<1>4. CASE \A p \in Procs : ~InitMeta(p) /\ ~WriteMeta(p) /\ ~SwapMeta(p)
  <2>1. ASSUME NEW p \in Procs, Starting(p) PROVE UNCHANGED meta
    BY <2>1 DEF Starting, disk, InitStore, Open, Close, Put, Remove, Move, Reindex,
                RaiseFloor, RecordDigest, Rekey, Passwd, PruneBundles, PruneOrphans
  <2>2. ASSUME NEW p \in Procs, Step(p) PROVE UNCHANGED meta
    BY <1>4, <2>2
       DEF Step, disk, InitBundle, WriteBlob, Unlink, WriteIndex, StageBlob, StageMeta,
           Verify, LandBlob, RetainBundle, WriteBundle, SwapIndex, SweepBlob, RekeyDone,
           Rewrap, ChooseBundle, DropBundle, PromoteBundle, DiscardBundle, BundlesDone,
           LookAtBlob, UnlinkOrphan, OrphansDone
  <2>3. ASSUME NEW p \in Procs, Kill(p) \/ Fail(p) \/ LookFails(p) PROVE UNCHANGED meta
    BY <2>3 DEF Kill, Fail, LookFails, disk
  <2>4. CASE LoseIndex \/ Misplace \/ UNCHANGED vars
    BY <2>4 DEF LoseIndex, Misplace, vars, disk
  <2> QED
    BY <2>1, <2>2, <2>3, <2>4 DEF Next
<1> QED
  BY <1>1, <1>2, <1>3, <1>4

\* Releases, recorded digests and other processes run beside each other: the version
\* floor falls by nothing but a process that writes back an older copy of its own,
\* and a rotation carries over the copy it has, however it is interrupted.
THEOREM FloorHolds == (Exclusive /\ TidyFirst) => (Spec => FloorFallsOnlyToAnOlderCopy)
<1> SUFFICES ASSUME Exclusive, TidyFirst PROVE Spec => FloorFallsOnlyToAnOlderCopy
  OBVIOUS
<1>1. Spec => []IInv
  BY StoreInvariant
<1> DEFINE Kept ==
        meta # None =>
          /\ meta' # None
          /\ meta'.floor < meta.floor =>
                \E p \in Procs : /\ pc[p] \in {"meta", "swapMeta"}
                                 /\ id[p].floor = meta'.floor
<1>2. IInv /\ [Next]_vars => [Kept]_meta
  BY FloorStep
<1> QED
  BY <1>1, <1>2, PTL DEF Spec, FloorFallsOnlyToAnOlderCopy

\* A passphrase change or a bundle prune that returns has left one bundle, and
\* it opens the store with the passphrase that was given.
THEOREM OneBundleIsLeft == (Exclusive /\ TidyFirst) => (Spec => OneBundleLeft)
<1> SUFFICES ASSUME Exclusive, TidyFirst PROVE Spec => OneBundleLeft
  OBVIOUS
<1>1. Spec => []IInv
  BY StoreInvariant
<1> DEFINE Left(p) == /\ OpensMeta(current)
                      /\ current.pass = job[p].pass
                      /\ \A g \in Gens : retained[g] = None
<1>2. ASSUME IInv, NEW p \in Procs, BundlesDone(p) PROVE Left(p)
  BY <1>2 DEF BundlesDone, IInv, Phase, BundlePhase, RetainedSlots
<1>3. IInv => \A p \in Procs : BundlesDone(p) => Left(p)
  BY <1>2
<1> QED
  BY <1>1, <1>3, PTL DEF Spec, OneBundleLeft
=============================================================================
