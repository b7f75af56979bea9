------------------------------- MODULE Clone -------------------------------
(***************************************************************************)
(* angou clone (cli/clone.go, core/clone.go): a store is copied, file by   *)
(* file, to a directory that does not exist yet, while other processes may *)
(* be at work in it.                                                       *)
(*                                                                         *)
(* The walk takes the names in a directory when it enters it and copies    *)
(* them in their order; a name that is gone by the time its turn comes     *)
(* ends the clone with an error, and one that came later is not copied.    *)
(* "bootstrap" sorts before "index.angou" and that before "store.angou";   *)
(* a blob's name is a hash, and may sort anywhere between them.            *)
(*                                                                         *)
(* Left out: release binaries and installers, and the staging directory of *)
(* a rotation, which only the next rotation looks at, to clear it.  A file *)
(* that vanishes there, or a lost index, stops the clone like any other    *)
(* failure (CloneStops).                                                   *)
(***************************************************************************)
EXTENDS Store

VARIABLES
    copy,       \* the files at --to
    walk        \* the clone: its next step, and the names listed and not copied

cloneVars == <<vars, copy, walk>>

Current == 0    \* keybundle.json among the names of bundles

NoCopy == [blobs |-> NoBlobs, meta |-> None, current |-> None,
           retained |-> [g \in Gens |-> None]]

\* Besides: the paths that held a secret when the clone began, what each path has
\* held since, and whether a rotation was replacing bundles or metadata.
NoWalk == [pc |-> "none", blobs |-> {}, files |-> {}, bundles |-> {},
           began |-> {}, seen |-> [path \in Paths |-> {}], rotated |-> FALSE]

CloneInit == Init /\ copy = NoCopy /\ walk = NoWalk

Rotating == \E p \in Procs : pc[p] \in {"bundle", "swapMeta", "swapIndex", "sweep"}

\* The source is a store and the destination does not exist, also not as what an
\* earlier clone left unfinished.
CloneBegin ==
    /\ walk.pc = "none" /\ meta # None
    /\ walk' = [pc |-> "root", blobs |-> BlobFileNames(blobs), bundles |-> {},
                files |-> {"bootstrap", "store"} \cup (IF index # None THEN {"index"} ELSE {}),
                began |-> {path \in Paths : Holds(path) # None},
                seen |-> [path \in Paths |-> {Holds(path)} \ {None}],
                rotated |-> Rotating]
    /\ UNCHANGED copy

\* The command returns or dies; --to exists from here on, and what becomes of it is
\* left out.
CloneEnds == walk' = [NoWalk EXCEPT !.pc = "ended"] /\ copy' = NoCopy

\* Mutant: a file that is gone when its turn comes is passed over.
CopyBlobIfThere ==
    /\ walk.pc = "root"
    /\ \E n \in walk.blobs :
          /\ walk' = [walk EXCEPT !.blobs = @ \ {n}]
          /\ copy' = [copy EXCEPT !.blobs[n] = blobs[n]]

CopyBlob ==
    /\ walk.pc = "root"
    /\ \E n \in walk.blobs :
          \/ blobs[n] = None /\ CloneEnds
          \/ /\ blobs[n] # None
             /\ walk' = [walk EXCEPT !.blobs = @ \ {n}]
             /\ copy' = [copy EXCEPT !.blobs[n] = blobs[n]]

\* The names in bootstrap/ that are still to be copied; the walk leaves it with the
\* last one.
Bundles(names) == [walk EXCEPT !.pc = IF names = {} THEN "root" ELSE "bundles",
                               !.files = @ \ {"bootstrap"}, !.bundles = names]

EnterBootstrap ==
    /\ walk.pc = "root" /\ "bootstrap" \in walk.files
    /\ walk' = Bundles(RetainedSlots \cup (IF current # None THEN {Current} ELSE {}))
    /\ UNCHANGED copy

\* "keybundle-<fingerprint>.json" sorts before "keybundle.json".
CopyBundle ==
    /\ walk.pc = "bundles"
    /\ \/ \E g \in walk.bundles \ {Current} :
             \/ retained[g] = None /\ CloneEnds
             \/ /\ retained[g] # None
                /\ walk' = Bundles(walk.bundles \ {g})
                /\ copy' = [copy EXCEPT !.retained[g] = retained[g]]
       \/ /\ walk.bundles = {Current}
          /\ \/ current = None /\ CloneEnds
             \/ /\ current # None
                /\ walk' = Bundles({})
                /\ copy' = [copy EXCEPT !.current = current]

\* The index is a cache: what it says is left out.
CopyIndex ==
    /\ walk.pc = "root" /\ walk.files = {"index", "store"}
    /\ index # None
    /\ walk' = [walk EXCEPT !.files = {"store"}]
    /\ UNCHANGED copy

CopyMeta ==
    /\ walk.pc = "root" /\ walk.files = {"store"}
    /\ walk' = [walk EXCEPT !.files = {}]
    /\ copy' = [copy EXCEPT !.meta = meta]

CloneDone ==
    /\ walk.pc = "root" /\ walk.blobs = {} /\ walk.files = {}
    /\ CloneEnds

Cloning == walk.pc \in {"root", "bundles"}

\* It is killed, or a file cannot be read or written; what it wrote stays.
CloneStops == Cloning /\ CloneEnds

CloneStep ==
    /\ \/ CloneBegin \/ CopyBlob \/ EnterBootstrap \/ CopyBundle
       \/ CopyIndex \/ CopyMeta \/ CloneDone \/ CloneStops
    /\ UNCHANGED vars

\* What the processes do, noted while a clone is under way.  Misplace is between
\* commands, of which a clone is one.
Noted ==
    /\ Next
    /\ ~(Cloning /\ Misplace)
    /\ walk' = IF Cloning
               THEN [walk EXCEPT !.seen = [path \in Paths |-> @[path] \cup ({Holds(path)'} \ {None})],
                                 !.rotated = @ \/ Rotating']
               ELSE walk
    /\ UNCHANGED copy

CloneNext == CloneStep \/ Noted

CloneSpec == CloneInit /\ [][CloneNext]_cloneVars

---------------------------------------------------------------------------
CopyHolds(path) ==
    LET n == BlobID(copy.meta.nk, path)
    IN  IF Readable(copy.blobs, copy.meta.key, copy.meta.nk, n)
        THEN copy.blobs[n].content ELSE None

\* "clone copies a store verbatim, so the copy opens with the same recovery
\* passphrase and holds the same secrets": whatever is put, moved, removed, pruned
\* or rewrapped meanwhile, a clone that ends without an error has a bundle that
\* opens it, and holds at every path that held a secret when it began one of those
\* the path has held since; it makes no secret up.  A rotation that commits
\* meanwhile is excepted (see README).
CloneIsWhole ==
    [][(CloneDone /\ ~walk.rotated) =>
          /\ \E b \in {copy.current} \cup {copy.retained[g] : g \in Gens} :
                b # None /\ b.key = copy.meta.key
          /\ \A path \in walk.began : CopyHolds(path) \in walk.seen[path]
          /\ \A path \in Paths \ walk.began :
                CopyHolds(path) \in walk.seen[path] \cup {None}]_cloneVars
=============================================================================
