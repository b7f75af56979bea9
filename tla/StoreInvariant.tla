-------------------------- MODULE StoreInvariant --------------------------
(***************************************************************************)
(* The inductive invariant behind Openable, OneBundleLeft and the property *)
(* of the floor: what is true at each step of a command while commands     *)
(* that replace a key or a bundle run alone.                               *)
(***************************************************************************)
EXTENDS StoreProperties

\* While one process replaces a key or a bundle, no other has the store open.
RunsAlone ==
    \A p, q \in Procs : (p # q /\ pc[p] \in AlonePcs) => pc[q] = "closed"

\* The steps at which a process's identity is still the one that is on disk.
SyncedPcs == {"open", "meta", "stage", "verify", "land", "bundle", "swapMeta"}
                \cup SecretPcs \cup BundlePcs

\* Until it swaps the metadata, a process works with the key and the naming key
\* that the metadata on disk has.
InSync(p) ==
    pc[p] \in SyncedPcs =>
        /\ meta # None
        /\ id[p].key = meta.key
        /\ id[p].nk = meta.nk

\* A store being created has no metadata yet, and its bundle comes first.
InitPhase(p) ==
    /\ pc[p] \in InitPcs => meta = None
    /\ pc[p] = "initMeta" => current # None /\ current.key = id[p].key

\* The staged metadata carries the new key and the floor of the process's copy.
StagedMeta(p) ==
    stage.meta = [key |-> job[p].new, nk |-> job[p].new, floor |-> id[p].floor]

\* Which bundle opens the store at each step of a rotation.
RekeyPhase(p) ==
    /\ pc[p] \in {"stage", "verify", "land"} => ~HalfSwapped(p)
    /\ pc[p] \in {"verify", "land", "bundle", "swapMeta"} => StagedMeta(p)
    /\ pc[p] \in {"bundle", "swapMeta"} => \E g \in Gens : OpensMeta(retained[g])
    /\ pc[p] = "swapMeta" => current # None /\ current.key = job[p].new
    /\ pc[p] \in {"swapIndex", "sweep"} =>
          meta = [key |-> job[p].new, nk |-> job[p].new, floor |-> id[p].floor]

\* Which bundle opens the store at each step of a passphrase change or prune.
BundlePhase(p) ==
    /\ pc[p] \in {"drop", "promote"} =>
          /\ OpensMeta(retained[job[p].keep])
          /\ retained[job[p].keep].pass = job[p].pass
          /\ RetainedSlots \subseteq job[p].slots \cup {job[p].keep}
    /\ pc[p] = "discard" =>
          /\ OpensMeta(current)
          /\ current.pass = job[p].pass
          /\ RetainedSlots \subseteq job[p].slots

\* A command has the arguments its steps use.
Arguments(p) ==
    /\ pc[p] # "closed" => id[p].key \in Gens /\ id[p].nk \in Gens
    /\ pc[p] = "blob" => job[p].path \in Paths /\ job[p].content \in Contents
    /\ pc[p] \in RekeyPcs => job[p].new \in Gens
    /\ pc[p] \in RekeyPcs \cup BundlePcs \cup {"initBundle"} => job[p].pass \in Passes
    /\ pc[p] \in {"drop", "promote"} => job[p].keep \in Gens
    /\ pc[p] = "unlinkOrphan" => job[p].orphan \in Name

TypeInv == TypeOK /\ \A p \in Procs : Arguments(p)

Phase(p) == InSync(p) /\ InitPhase(p) /\ RekeyPhase(p) /\ BundlePhase(p)

\* Everything the proofs need to know of a reachable state.
IInv ==
    /\ TypeInv
    /\ RunsAlone
    /\ Openable
    /\ \A p \in Procs : Phase(p)
=============================================================================
