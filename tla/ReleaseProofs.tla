--------------------------- MODULE ReleaseProofs ---------------------------
(***************************************************************************)
(* Theorems about publishing through a store, for any targets, builds,     *)
(* keys, contents of dist/, values of --keep, and any number of releases   *)
(* and faults.                                                             *)
(***************************************************************************)
EXTENDS ReleaseInvariant, FiniteSetTheorems, TLAPS

---------------------------------------------------------------------------
\* Versions and listings.

\* A version is a natural number, and there are finitely many.
LEMMA VersionsAreFinite ==
    /\ Versions \subseteq Nat
    /\ IsFiniteSet(Versions)
    /\ 0 \in Versions
    /\ \A k \in Tools : k.ver \in Versions
  <1> DEFINE f == [k \in Tools |-> k.ver]
  <1>1. IsFiniteSet({k.ver : k \in Tools})
    <2>1. f \in Surjection(Tools, {k.ver : k \in Tools})
      BY DEF Surjection
    <2> QED
      BY <2>1, FS_Surjection, ReleaseConstants
  <1>2. IsFiniteSet({k.ver : k \in Tools} \cup {0})
    BY <1>1, FS_AddElement
  <1> QED
    BY <1>2, ReleaseConstants DEF Versions

\* A finite set of natural numbers that is not empty has a largest element: of
\* the sets of what is larger than some element, one has no smaller.
LEMMA Largest ==
    ASSUME NEW S \in SUBSET Nat, IsFiniteSet(S), S # {}
    PROVE  \E v \in S : \A w \in S : w <= v
  <1> DEFINE Above(v) == {w \in S : w > v}
             T == {Above(v) : v \in S}
  <1>1. T \subseteq SUBSET S /\ T # {}
    OBVIOUS
  <1>2. IsWellFoundedOn(StrictSubsetOrdering(S), SUBSET S)
    BY FS_StrictSubsetOrderingWellFounded, FS_FiniteSubsetsOfFinite
  <1>3. PICK U \in T : \A V \in T : ~(<<V, U>> \in StrictSubsetOrdering(S))
    BY <1>1, <1>2, WFMin
  <1>4. PICK v \in S : U = Above(v)
    BY <1>3
  <1>5. ASSUME NEW w \in S, w > v
        PROVE  FALSE
    <2>0. /\ S \subseteq Nat
          /\ \A x \in Nat : ~(x > x)
          /\ \A x, y, z \in Nat : x > y /\ y > z => x > z
      OBVIOUS
    <2>1. Above(w) \subseteq Above(v) /\ w \in Above(v) /\ w \notin Above(w)
      BY <1>5, <2>0, ZenonT(30)
    <2>2. <<Above(w), Above(v)>> \in StrictSubsetOrdering(S)
      BY <2>1 DEF StrictSubsetOrdering
    <2> QED
      BY <1>3, <1>4, <2>2
  <1> QED
    BY <1>5

\* The newest binary of a target that has one is on the listing, and nothing on
\* the listing is newer.
LEMMA NewestIsLargest ==
    ASSUME NEW t \in Targets, Present(t) # {}
    PROVE  /\ Newest(t) \in Present(t)
           /\ \A w \in Present(t) : w <= Newest(t)
  <1>1. Present(t) \subseteq Versions
    BY DEF Present
  <1>2. IsFiniteSet(Present(t)) /\ Present(t) \in SUBSET Nat
    BY <1>1, VersionsAreFinite, FS_Subset
  <1>3. \E v \in Present(t) : \A w \in Present(t) : w <= v
    BY <1>2, Largest
  <1> QED
    BY <1>3 DEF Newest

\* What retention takes is outlived when it is listed.
LEMMA SupersededAreOutlived ==
    ASSUME NEW keep \in Nat, keep >= 1, NEW n \in Superseded(keep)
    PROVE  n \in Names /\ Newer(n[1], n[2])
  <1> DEFINE S == {w \in Present(n[1]) : w > n[2]}
  <1>1. n \in Names /\ Cardinality(S) >= keep
    BY DEF Superseded
  <1>2. IsFiniteSet(S)
    BY VersionsAreFinite, FS_Subset DEF Present
  <1>3. S # {}
    BY <1>1, <1>2, FS_EmptySet
  <1> QED
    BY <1>1, <1>3 DEF Newer

---------------------------------------------------------------------------
\* Types.

\* What dist/ holds are builds of some targets.
LEMMA DistType ==
    ASSUME NEW d \in Dists
    PROVE  /\ DOMAIN d \subseteq Targets
           /\ \A t \in DOMAIN d : d[t] \in Build
  <1>1. PICK T \in SUBSET Targets : d \in [T -> Build]
    BY ReleaseConstants DEF Dist
  <1> QED
    BY <1>1

\* No file and a torn file are neither builds nor signatures nor keys.
LEMMA Marks ==
    /\ None # Torn
    /\ None \notin Build /\ Torn \notin Build
    /\ None \notin Sig /\ Torn \notin Sig
    /\ None \notin Signers /\ Torn \notin Signers
    /\ None \notin Text /\ Torn \notin Text
    /\ None \notin AnySig /\ Torn \notin AnySig
    /\ None \notin Names /\ None \notin Targets
  <1>1. Sig \subseteq AnySig
    BY DEF Sig, AnySig
  <1> QED
    BY <1>1, ReleaseConstants

\* A tool's own build is a build.
LEMMA ToolBuilds ==
    ASSUME NEW k \in Tools
    PROVE  [ver |-> k.ver, rev |-> k.rev] \in Build
  BY DEF Build, Versions, Revs

\* The content that a part of a name may have.
Kept(part) == CASE part = "bin"  -> Build \cup {None, Torn}
                [] part = "sig"  -> Sig \cup {None, Torn}
                [] part = "json" -> Build \cup {None, Torn}

Parts == {"bin", "sig", "json"}

\* One part of one name is replaced, and nothing else.
Replaced(t, v, part, c) ==
    /\ files' \in [Targets -> [Versions -> Artifact]]
    /\ files'[t][v][part] = c
    /\ \A q \in Parts : q # part => files'[t][v][q] = files[t][v][q]
    /\ \A u \in Targets, w \in Versions : u # t \/ w # v => files'[u][w] = files[u][w]

\* What an assignment to one part does.
LEMMA Replacing ==
    ASSUME files \in [Targets -> [Versions -> Artifact]],
           NEW t \in Targets, NEW v \in Versions, NEW part \in Parts, NEW c \in Kept(part),
           files' = [files EXCEPT ![t][v][part] = c]
    PROVE  Replaced(t, v, part, c)
  <1>1. files[t][v] \in Artifact
    OBVIOUS
  <1> DEFINE a == [files[t][v] EXCEPT ![part] = c]
  <1>2. /\ a \in Artifact
        /\ a[part] = c
        /\ \A q \in Parts : q # part => a[q] = files[t][v][q]
    <2>1. CASE part = "bin"
      BY <1>1, <2>1 DEF Artifact, Kept, Parts
    <2>2. CASE part = "sig"
      BY <1>1, <2>2 DEF Artifact, Kept, Parts
    <2>3. CASE part = "json"
      BY <1>1, <2>3 DEF Artifact, Kept, Parts
    <2> QED
      BY <2>1, <2>2, <2>3 DEF Parts
  <1>3. files' = [files EXCEPT ![t] = [files[t] EXCEPT ![v] = a]]
    OBVIOUS
  <1> HIDE DEF a
  <1> DEFINE row == [files[t] EXCEPT ![v] = a]
  <1>4. /\ row \in [Versions -> Artifact]
        /\ row[v] = a
        /\ \A w \in Versions : w # v => row[w] = files[t][w]
    BY <1>2
  <1> HIDE DEF row
  <1>5. /\ files' \in [Targets -> [Versions -> Artifact]]
        /\ files'[t] = row
        /\ \A u \in Targets : u # t => files'[u] = files[u]
    BY <1>3, <1>4 DEF row
  <1>6. \A u \in Targets, w \in Versions : u # t \/ w # v => files'[u][w] = files[u][w]
    BY <1>4, <1>5
  <1> QED
    BY <1>2, <1>4, <1>5, <1>6, ZenonT(60) DEF Replaced

\* The types of a release, and where it is.
JobTyped ==
    /\ JobShape /\ Progress
    /\ job.pc \notin {"none", "failed"} =>
          /\ job.tool \in Tools /\ job.by \in Signers
          /\ job.dist \in Dists /\ job.keep \in Keeps

\* The types of the rest.
RestTyped ==
    /\ files \in [Targets -> [Versions -> Artifact]]
    /\ key \in Signers \cup {None, Torn}
    /\ script \in [Scripts -> [text : Text \cup {None, Torn},
                               sig : [of : Text \cup {Torn}, by : Signers] \cup {None, Torn},
                               digest : Text \cup {None, Torn}]]
    /\ floor \in Versions
    /\ pruning \in [Pruners -> [left : SUBSET Names, at : Names \cup {None}, part : 1..3]]
    /\ installed \in [{"angou", "angou-gui"} -> Build \cup {None, Torn}]
    /\ carried \subseteq Targets
    /\ cut \in BOOLEAN
    /\ releases \in 0..MaxReleases /\ faults \in 0..MaxFaults

Typed == JobTyped /\ RestTyped /\ InstShape /\ PruningShape

\* Together they are what the invariant says of types.
LEMMA TypedParts == Typed <=> TypeOK /\ JobShape /\ InstShape /\ PruningShape /\ Progress
  BY DEF Typed, JobTyped, RestTyped, TypeOK, JobShape

\* The content one step writes of a part.
Becomes(part, content) ==
    IF job.half /\ files[job.at][job.tool.ver][part] = None THEN None ELSE Piece(content)

\* A step of a stash replaces one part of the name being stashed.
LEMMA StashEffect ==
    ASSUME Typed, NEW part \in Parts, NEW content \in Kept(part), NEW label,
           job.pc \in {"binary", "signature", "metadata"}, Stash(part, content, label)
    PROVE  /\ job.at \in Targets /\ job.tool \in Tools /\ job.tool.ver \in Versions
           /\ Replaced(job.at, job.tool.ver, part, Becomes(part, content))
  <1>1. job.at \in Targets /\ job.tool \in Tools /\ job.dist \in Dists
    BY DistType DEF Typed, JobTyped, Progress, Working
  <1>2. job.tool.ver \in Versions
    BY <1>1, VersionsAreFinite
  <1>3. Becomes(part, content) \in Kept(part)
    BY DEF Becomes, Piece, Kept, Parts
  <1> DEFINE c == Becomes(part, content)
  <1>4. files' = [files EXCEPT ![job.at][job.tool.ver][part] = c]
    BY DEF Stash, Becomes
  <1> HIDE DEF c
  <1> QED
    BY <1>1, <1>2, <1>3, <1>4, Replacing DEF Typed, RestTyped, c

\* A step of a removal takes one part of the name being removed away.
LEMMA RemoveEffect ==
    ASSUME Typed, NEW p \in Pruners, RemovePart(p)
    PROVE  LET n == pruning[p].at
           IN  /\ n \in Names
               /\ RemovalOrder[pruning[p].part] \in Parts
               /\ Replaced(n[1], n[2], RemovalOrder[pruning[p].part], None)
  <1> DEFINE n == pruning[p].at
             part == RemovalOrder[pruning[p].part]
  <1>1. n \in Names /\ n[1] \in Targets /\ n[2] \in Versions
    BY DEF RemovePart, Typed, RestTyped, Names
  <1>2. part \in Parts /\ None \in Kept(part)
    BY DEF Typed, RestTyped, RemovalOrder, Parts, Kept
  <1>3. files' = [files EXCEPT ![n[1]][n[2]][part] = None]
    BY DEF RemovePart
  <1> HIDE DEF n, part
  <1>4. Replaced(n[1], n[2], part, None)
    BY <1>1, <1>2, <1>3, Replacing DEF Typed, RestTyped
  <1> QED
    BY <1>1, <1>2, <1>4 DEF n, part

\* The initial state is well typed.
LEMMA InitTyped == Init => Typed
  <1> SUFFICES ASSUME Init PROVE Typed
    OBVIOUS
  <1>1. NoArtifact \in Artifact
    BY DEF NoArtifact, Artifact
  <1>2. 0 \in Versions /\ MaxReleases \in Nat /\ MaxFaults \in Nat
    BY VersionsAreFinite, ReleaseConstants
  <1>3. releases \in 0..MaxReleases /\ faults \in 0..MaxFaults
    BY <1>2 DEF Init
  <1>4. NoPrune \in [left : SUBSET Names, at : Names \cup {None}, part : 1..3]
    BY DEF NoPrune
  <1>5. job = NoJob /\ job.pc = "none" /\ job.todo = {} /\ ~job.half
    BY DEF Init, NoJob
  <1>6. JobTyped
    BY <1>5 DEF JobTyped, JobShape, NoJob, Progress, Working
  <1>7. RestTyped
    BY <1>1, <1>2, <1>3, <1>4 DEF Init, RestTyped
  <1>8. InstShape /\ PruningShape
    BY <1>2 DEF Init, InstShape, PruningShape, NoPrune, NoRun, InstPcs, Pruners
  <1> QED
    BY <1>6, <1>7, <1>8 DEF Typed

\* A release that ends early is well typed.
LEMMA FailedTyped ==
    ASSUME job' = Failed
    PROVE  JobTyped' /\ job'.pc = "failed" /\ job'.todo = {} /\ ~job'.half
  <1>1. job' = [pc |-> "failed", tool |-> None, by |-> None, dist |-> None, keep |-> 0,
                todo |-> {}, at |-> None, half |-> FALSE]
    BY DEF Failed, NoJob
  <1> QED
    BY <1>1 DEF JobTyped, JobShape, Progress, Working

\* A step of a release within one file, or on to the next, is well typed.
LEMMA JobStep ==
    ASSUME JobTyped, job.pc \in Steps,
           NEW pc, NEW at, NEW half,
           job' = [job EXCEPT !.pc = pc, !.at = at, !.half = half],
           /\ pc \in Steps \cup {"done"}
           /\ at \in Targets \cup Scripts \cup {None}
           /\ half \in BOOLEAN
           /\ half => pc \in (Working \ {"stash"}) \cup {"key", "script", "sign"}
           /\ pc \notin Working => job.todo = {}
           /\ pc = "stash" => at \in Targets
           /\ pc \in Working \ {"stash"} => at = job.at /\ job.pc \in Working \ {"stash"}
           /\ pc \in {"script", "sign", "record"} => at \in Scripts
    PROVE  /\ JobTyped'
           /\ job'.pc = pc /\ job'.at = at /\ job'.half = half
           /\ job'.tool = job.tool /\ job'.by = job.by /\ job'.dist = job.dist
           /\ job'.keep = job.keep /\ job'.todo = job.todo
  <1>1. /\ JobShape'
        /\ job'.pc = pc /\ job'.at = at /\ job'.half = half
        /\ job'.tool = job.tool /\ job'.by = job.by /\ job'.dist = job.dist
        /\ job'.keep = job.keep /\ job'.todo = job.todo
    BY DEF JobTyped, JobShape
  <1>2. Progress'
    BY <1>1 DEF JobTyped, Progress, IsThisBuild, Steps, Working
  <1> QED
    BY <1>1, <1>2 DEF JobTyped, Steps, Working

\* The steps of a release that write no file are well typed.
LEMMA ReleaseStep ==
    ASSUME JobTyped
    PROVE  /\ job.pc = "floor" /\ job' = [job EXCEPT !.pc = "list"] => JobTyped'
           /\ job.pc = "list" /\ job' = [job EXCEPT !.pc = "remove"] =>
                 JobTyped' /\ job'.pc = "remove"
           /\ job.pc = "remove" /\ job' = [job EXCEPT !.pc = "script", !.at = "sh"] => JobTyped'
           /\ job.pc = "record" /\ job' = [job EXCEPT !.at = "ps1"] => JobTyped'
           /\ job.pc = "record" /\ job' = [job EXCEPT !.pc = "done"] => JobTyped'
  <1>1. ASSUME NEW pc \in {"list", "remove", "script", "record", "done"},
               NEW at \in Targets \cup Scripts \cup {None},
               pc \in {"script", "record"} => at \in Scripts,
               job.pc \in {"floor", "list", "remove", "record"},
               job' = [job EXCEPT !.pc = pc, !.at = at]
        PROVE  JobTyped' /\ job'.pc = pc
    <2>1. job.half = FALSE /\ job.todo = {}
      BY <1>1 DEF JobTyped, JobShape, Progress, Working
    <2>2. /\ JobShape'
          /\ job'.pc = pc /\ job'.at = at /\ job'.half = job.half
          /\ job'.tool = job.tool /\ job'.by = job.by /\ job'.dist = job.dist
          /\ job'.keep = job.keep /\ job'.todo = job.todo
      BY <1>1 DEF JobTyped, JobShape, Steps
    <2>3. Progress'
      BY <1>1, <2>1, <2>2 DEF Progress, Working
    <2> QED
      BY <1>1, <2>2, <2>3 DEF JobTyped
  <1>2. /\ \A pc : [job EXCEPT !.pc = pc] = [job EXCEPT !.pc = pc, !.at = job.at]
        /\ \A at : [job EXCEPT !.at = at] = [job EXCEPT !.pc = job.pc, !.at = at]
        /\ job.at \in Targets \cup Scripts \cup {None}
        /\ job.pc = "record" => job.at \in Scripts
    BY DEF JobTyped, JobShape, Progress
  <1>3. job.pc = "floor" /\ job' = [job EXCEPT !.pc = "list"] => JobTyped'
    BY <1>1, <1>2
  <1>4. job.pc = "list" /\ job' = [job EXCEPT !.pc = "remove"] => JobTyped' /\ job'.pc = "remove"
    BY <1>1, <1>2
  <1>5. job.pc = "remove" /\ job' = [job EXCEPT !.pc = "script", !.at = "sh"] => JobTyped'
    BY <1>1 DEF Scripts
  <1>6. job.pc = "record" /\ job' = [job EXCEPT !.at = "ps1"] => JobTyped'
    BY <1>1, <1>2 DEF Scripts
  <1>7. job.pc = "record" /\ job' = [job EXCEPT !.pc = "done"] => JobTyped'
    BY <1>1, <1>2
  <1> QED
    BY <1>3, <1>4, <1>5, <1>6, <1>7

\* Every step of a release keeps the types.
LEMMA JobTypes ==
    ASSUME Typed, Published
    PROVE  /\ \A tool \in Tools, by \in Signers, dist \in Dists, keep \in Keeps :
                 Begin(tool, by, dist, keep) => Typed'
           /\ \A t \in Targets : Accept(t) => Typed'
           /\ StashBinary \/ StashSignature \/ StashMetadata => Typed'
           /\ WriteKey \/ RaiseFloor \/ ListForRelease \/ Pruned => Typed'
           /\ WriteScript \/ SignScript \/ RecordScript => Typed'
           /\ Fail => Typed'
  <1> USE DEF Typed
  <1>1. ASSUME NEW tool \in Tools, NEW by \in Signers, NEW dist \in Dists, NEW keep \in Keeps,
               Begin(tool, by, dist, keep)
        PROVE  Typed'
    <2>1. keep \in Nat /\ DOMAIN dist \subseteq Targets
      BY DistType, ReleaseConstants
    <2>2. job' = [pc |-> "stash", tool |-> tool, by |-> by, dist |-> dist, keep |-> keep,
                  todo |-> DOMAIN dist, at |-> None, half |-> FALSE]
      BY <1>1 DEF Begin, NoJob
    <2>3. JobTyped'
      BY <2>1, <2>2 DEF JobTyped, JobShape, Progress, Steps, Working
    <2>4. releases' \in 0..MaxReleases
      BY <1>1, ReleaseConstants DEF Begin, RestTyped
    <2>5. RestTyped'
      BY <1>1, <2>4 DEF Begin, RestTyped, store
    <2>6. pruning["release"] = NoPrune
      BY <1>1 DEF Begin, PruningShape, Busy, Steps
    <2>7. InstShape' /\ PruningShape'
      BY <1>1, <2>6 DEF Begin, InstShape, CLI, GUI, PruningShape
    <2> QED
      BY <2>3, <2>5, <2>7
  <1>2. ASSUME NEW t \in Targets, Accept(t)
        PROVE  Typed'
    <2>1. job.pc = "stash" /\ t \in DOMAIN job.dist /\ cut \in BOOLEAN
      BY <1>2 DEF Accept, JobTyped, Progress, RestTyped
    <2>2. RestTyped'
      BY <1>2 DEF Accept, RestTyped, store
    <2>3. InstShape' /\ PruningShape'
      BY <1>2 DEF Accept, InstShape, CLI, GUI, PruningShape
    <2>4. CASE IsThisBuild(job.dist[t])
      <3>1. job' = [job EXCEPT !.pc = "binary", !.at = t, !.todo = @ \ {t}]
        BY <1>2, <2>4 DEF Accept
      <3>2. JobShape'
        BY <3>1 DEF JobTyped, JobShape, Steps, Working
      <3>3. /\ job'.pc = "binary" /\ job'.at = t /\ job'.half = job.half
            /\ job'.tool = job.tool /\ job'.by = job.by /\ job'.dist = job.dist
            /\ job'.keep = job.keep /\ job'.todo = job.todo \ {t}
        BY <3>1 DEF JobTyped, JobShape
      <3>4. Progress'
        BY <2>1, <2>4, <3>3 DEF JobTyped, Progress, Working, IsThisBuild
      <3> QED
        BY <2>1, <2>2, <2>3, <3>2, <3>3, <3>4 DEF JobTyped
    <2>5. CASE ~IsThisBuild(job.dist[t])
      BY <1>2, <2>2, <2>3, <2>5, FailedTyped DEF Accept
    <2> QED
      BY <2>4, <2>5
  <1>3. ASSUME NEW part \in Parts, NEW content \in Kept(part), NEW label,
               Stash(part, content, label),
               job.pc \in {"binary", "signature", "metadata"},
               label \in {"signature", "metadata", "stash", "key"},
               label = "key" => job.todo = {}
        PROVE  Typed'
    <2>1. files' \in [Targets -> [Versions -> Artifact]]
      BY <1>3, StashEffect DEF Replaced
    <2>2. job.at \in Targets
      BY <1>3, StashEffect
    <2> DEFINE pc == IF job.half THEN label ELSE job.pc
    <2>3. /\ job.half \in BOOLEAN
          /\ job' = [job EXCEPT !.pc = pc, !.at = job.at, !.half = ~job.half]
      BY <1>3 DEF Stash, Written, JobTyped, JobShape
    <2>4. /\ job.pc \in Steps
          /\ pc \in Steps \cup {"done"}
          /\ ~job.half => pc \in (Working \ {"stash"}) \cup {"key", "script", "sign"}
          /\ pc \notin Working => job.todo = {}
          /\ pc \notin {"script", "sign", "record"}
          /\ job.pc \in Working \ {"stash"}
      BY <1>3 DEF Steps, Working
    <2> HIDE DEF pc
    <2>5. JobTyped'
      BY <2>2, <2>3, <2>4, JobStep
    <2>6. RestTyped'
      BY <1>3, <2>1 DEF Stash, Rest, RestTyped
    <2>7. InstShape'
      BY <1>3 DEF Stash, Rest, InstShape, CLI, GUI
    <2>8. PruningShape'
      BY <1>3 DEF Stash, Rest, PruningShape
    <2> QED
      BY <2>5, <2>6, <2>7, <2>8
  <1>4. ASSUME StashBinary \/ StashSignature \/ StashMetadata
        PROVE  Typed'
    <2>1. job.pc \in {"binary", "signature", "metadata"} =>
             /\ job.tool \in Tools /\ job.by \in Signers /\ job.dist \in Dists
             /\ job.at \in DOMAIN job.dist
      BY DEF JobTyped, Progress, Working
    <2>2. job.pc \in {"binary", "signature", "metadata"} =>
             /\ job.dist[job.at] \in Build
             /\ [of |-> job.dist[job.at], by |-> job.by] \in Sig
             /\ [ver |-> job.tool.ver, rev |-> job.tool.rev] \in Build
      BY <2>1, DistType, ToolBuilds DEF Sig
    <2>3. CASE StashBinary
      BY <1>3, <2>2, <2>3 DEF StashBinary, Parts, Kept
    <2>4. CASE StashSignature
      BY <1>3, <2>2, <2>4 DEF StashSignature, Parts, Kept
    <2>5. CASE StashMetadata
      BY <1>3, <2>2, <2>5 DEF StashMetadata, Parts, Kept
    <2> QED
      BY <1>4, <2>3, <2>4, <2>5
  <1>5. ASSUME WriteKey
        PROVE  Typed'
    <2> DEFINE pc == IF job.half THEN "floor" ELSE "key"
    <2>1. /\ job.half \in BOOLEAN /\ job.pc = "key"
          /\ job' = [job EXCEPT !.pc = pc, !.at = job.at, !.half = ~job.half]
          /\ job.at \in Targets \cup Scripts \cup {None} /\ job.todo = {}
      BY <1>5 DEF WriteKey, Written, JobTyped, JobShape, Progress, Working
    <2>2. /\ job.pc \in Steps /\ pc \in Steps \ Working
          /\ ~job.half => pc = "key"
          /\ pc \notin {"script", "sign", "record"}
      BY <2>1 DEF Steps, Working
    <2> HIDE DEF pc
    <2>3. JobTyped' /\ job.by \in Signers
      BY <2>1, <2>2, JobStep, ZenonT(60) DEF Steps, JobTyped
    <2>4. key' \in Signers \cup {None, Torn}
      BY <1>5, <2>3 DEF WriteKey, Piece
    <2>5. RestTyped' /\ InstShape' /\ PruningShape'
      BY <1>5, <2>4 DEF WriteKey, Rest, RestTyped, InstShape, CLI, GUI, PruningShape
    <2> QED
      BY <2>3, <2>5
  <1>6. ASSUME RaiseFloor
        PROVE  Typed'
    <2>1. job.pc = "floor" /\ job.todo = {} /\ job.tool \in Tools /\ job.dist \in Dists
      BY <1>6 DEF RaiseFloor, JobTyped, Progress, Working
    <2>2. JobTyped'
      BY <1>6, <2>1, ReleaseStep DEF RaiseFloor, Goto
    <2>3. floor' \in Versions /\ carried' \subseteq Targets
      BY <1>6, <2>1, VersionsAreFinite, DistType DEF RaiseFloor, RestTyped
    <2>4. RestTyped' /\ InstShape' /\ PruningShape'
      BY <1>6, <2>1, <2>3 DEF RaiseFloor, RestTyped, InstShape, CLI, GUI, PruningShape
    <2> QED
      BY <2>2, <2>4
  <1>7. ASSUME ListForRelease
        PROVE  Typed'
    <2>1. CASE job.keep < 1
      <3>1. RestTyped' /\ InstShape'
        BY <1>7, <2>1 DEF ListForRelease, RestTyped, InstShape, CLI, GUI, store
      <3>2. PruningShape'
        BY <1>7, <2>1 DEF ListForRelease, PruningShape
      <3> QED
        BY <1>7, <2>1, <3>1, <3>2, FailedTyped DEF ListForRelease
    <2>2. CASE ~(job.keep < 1)
      <3>1. JobTyped' /\ job'.pc = "remove"
        BY <1>7, <2>2, ReleaseStep DEF ListForRelease, Goto
      <3>2. /\ pruning' = [pruning EXCEPT !["release"].left = Superseded(job.keep)]
            /\ Superseded(job.keep) \subseteq Names
        BY <1>7, <2>2 DEF ListForRelease, Superseded
      <3>3. /\ pruning' \in [Pruners -> [left : SUBSET Names, at : Names \cup {None}, part : 1..3]]
            /\ \A p \in Pruners : pruning'[p].at = pruning[p].at /\ pruning'[p].part = pruning[p].part
        BY <3>2 DEF RestTyped
      <3>4. RestTyped' /\ InstShape' /\ PruningShape'
        BY <1>7, <3>1, <3>3 DEF ListForRelease, RestTyped, InstShape, CLI, GUI, PruningShape, store
      <3> QED
        BY <3>1, <3>4
    <2> QED
      BY <2>1, <2>2
  <1>8. ASSUME Pruned
        PROVE  Typed'
    <2>1. JobTyped'
      BY <1>8, ReleaseStep DEF Pruned
    <2>2. pruning["release"] = NoPrune
      <3>1. /\ pruning["release"] \in [left : SUBSET Names, at : Names \cup {None}, part : 1..3]
            /\ pruning["release"].at = None /\ pruning["release"].left = {}
            /\ pruning["release"].part = 1
        BY <1>8 DEF Pruned, Idle, RestTyped, PruningShape, Pruners
      <3> QED
        BY <3>1 DEF NoPrune
    <2>3. RestTyped' /\ InstShape' /\ PruningShape'
      BY <1>8, <2>2 DEF Pruned, store, Rest, RestTyped, InstShape, CLI, GUI, PruningShape
    <2> QED
      BY <2>1, <2>3
  <1>9. ASSUME NEW label \in {"sign", "record"}, Staged(label),
               label = "sign" => job.pc = "script", label = "record" => job.pc = "sign"
        PROVE  JobTyped'
    <2> DEFINE pc == IF job.half /\ job.at = "ps1" THEN label ELSE job.pc
               at == IF job.half THEN (IF job.at = "sh" THEN "ps1" ELSE "sh") ELSE job.at
    <2>1. /\ job.half \in BOOLEAN /\ job.at \in Scripts /\ job.todo = {}
          /\ job.pc \in {"script", "sign"}
          /\ job' = [job EXCEPT !.pc = pc, !.at = at, !.half = ~job.half]
      BY <1>9 DEF Staged, JobTyped, JobShape, Progress, Working
    <2>2. /\ pc \in {"script", "sign", "record"} /\ at \in Scripts
          /\ ~job.half => pc \in {"script", "sign"}
      BY <1>9, <2>1 DEF Scripts
    <2> HIDE DEF pc, at
    <2> QED
      BY <2>1, <2>2, JobStep DEF Steps, Working
  <1>10. ASSUME WriteScript \/ SignScript \/ RecordScript
         PROVE  Typed'
    <2>1. /\ job.pc \in {"script", "sign", "record"}
          /\ job.at \in Scripts /\ job.by \in Signers /\ Installer \in Text
      BY <1>10 DEF WriteScript, SignScript, RecordScript, JobTyped, Progress, Installer, Text
    <2> DEFINE ScriptTyped ==
          script' \in [Scripts -> [text : Text \cup {None, Torn},
                       sig : [of : Text \cup {Torn}, by : Signers] \cup {None, Torn},
                       digest : Text \cup {None, Torn}]]
    <2>2. CASE WriteScript
      <3>1. Piece([tool |-> job.tool, pin |-> job.by]) \in Text \cup {Torn}
        BY <2>1 DEF Piece, Installer
      <3> QED
        BY <1>9, <2>1, <2>2, <3>1, SMTT(40) DEF WriteScript, RestTyped, Rest, InstShape, CLI, GUI, PruningShape
    <2>3. CASE SignScript
      <3>1. script[job.at].text \in Text
        BY <2>1, <2>3 DEF SignScript, Published, Wrote
      <3>2. Piece([of |-> script[job.at].text, by |-> job.by])
               \in [of : Text \cup {Torn}, by : Signers] \cup {Torn}
        BY <2>1, <3>1 DEF Piece
      <3> QED
        BY <1>9, <2>1, <2>3, <3>2 DEF SignScript, RestTyped, Rest, InstShape, CLI, GUI, PruningShape
    <2>4. CASE RecordScript
      <3>1. script[job.at].text \in Text /\ ~job.half /\ job.todo = {}
        BY <2>1, <2>4 DEF RecordScript, Published, Wrote, JobTyped, Progress, Working
      <3>2. job.pc = "record" /\ job' = IF job.at = "sh" THEN [job EXCEPT !.at = "ps1"]
                                                       ELSE [job EXCEPT !.pc = "done"]
        BY <2>4 DEF RecordScript
      <3>3. JobTyped'
        BY <3>2, ReleaseStep
      <3>4. ScriptTyped
        BY <2>1, <2>4, <3>1 DEF RecordScript, RestTyped
      <3>5. job.pc # "remove" /\ UNCHANGED <<files, key, floor, Rest>>
        BY <2>4 DEF RecordScript
      <3> QED
        BY <3>3, <3>4, <3>5 DEF RestTyped, Rest, InstShape, CLI, GUI, PruningShape
    <2> QED
      BY <1>10, <2>2, <2>3, <2>4
  <1>11. ASSUME Fail
         PROVE  Typed'
    <2>1. JobTyped'
      BY <1>11, FailedTyped DEF Fail
    <2>2. faults' \in 0..MaxFaults
      BY <1>11, ReleaseConstants DEF Fail, RestTyped
    <2>3. /\ NoPrune \in [left : SUBSET Names, at : Names \cup {None}, part : 1..3]
          /\ NoPrune.at = None /\ NoPrune.part = 1
      BY DEF NoPrune
    <2>4. /\ pruning' = [pruning EXCEPT !["release"] = NoPrune]
          /\ pruning' \in [Pruners -> [left : SUBSET Names, at : Names \cup {None}, part : 1..3]]
      BY <1>11, <2>3 DEF Fail, RestTyped
    <2>5. RestTyped'
      BY <1>11, <2>2, <2>4 DEF Fail, RestTyped, store
    <2>6. InstShape' /\ PruningShape'
      BY <1>11, <2>3, <2>4 DEF Fail, InstShape, CLI, GUI, PruningShape, RestTyped
    <2> QED
      BY <2>1, <2>5, <2>6
  <1> QED
    BY <1>1, <1>2, <1>4, <1>5, <1>6, <1>7, <1>8, <1>10, <1>11

\* Every step of a prune keeps the types.
LEMMA PruneTypes ==
    ASSUME Typed
    PROVE  /\ \A keep \in Keeps : ListForPrune(keep) => Typed'
           /\ \A p \in Pruners, n \in Names : Choose(p, n) => Typed'
           /\ \A p \in Pruners : RemovePart(p) => Typed'
           /\ StopPruning => Typed'
  <1> USE DEF Typed
  <1> DEFINE Lists == [Pruners -> [left : SUBSET Names, at : Names \cup {None}, part : 1..3]]
  <1>1. ASSUME NEW keep \in Keeps, ListForPrune(keep)
        PROVE  Typed'
    <2>1. Superseded(keep) \subseteq Names /\ "release" # "prune"
      BY DEF Superseded
    <2>2. /\ pruning' \in Lists
          /\ pruning'["release"] = pruning["release"]
          /\ \A p \in Pruners : pruning'[p].at = pruning[p].at /\ pruning'[p].part = pruning[p].part
      BY <1>1, <2>1 DEF ListForPrune, RestTyped, Pruners
    <2>3. RestTyped'
      BY <1>1, <2>2 DEF ListForPrune, RestTyped, store
    <2>4. JobTyped' /\ InstShape' /\ PruningShape'
      BY <1>1, <2>2 DEF ListForPrune, JobTyped, JobShape, Progress, IsThisBuild, InstShape, CLI, GUI, PruningShape
    <2> QED
      BY <2>3, <2>4
  <1>2. ASSUME NEW p \in Pruners, NEW n \in Names, Choose(p, n)
        PROVE  Typed'
    <2>1. /\ pruning' \in Lists
          /\ \A q \in Pruners : q # p => pruning'[q] = pruning[q]
          /\ pruning'[p].at = n
      BY <1>2 DEF Choose, RestTyped
    <2>2. pruning[p] # NoPrune
      BY <1>2 DEF Choose, NoPrune
    <2>3. RestTyped'
      BY <1>2, <2>1 DEF Choose, RestTyped, store
    <2>4. JobTyped' /\ InstShape'
      BY <1>2 DEF Choose, JobTyped, JobShape, Progress, IsThisBuild, InstShape, CLI, GUI
    <2>5. PruningShape'
      BY <1>2, <2>1, <2>2, Marks DEF Choose, PruningShape
    <2> QED
      BY <2>3, <2>4, <2>5
  <1>3. ASSUME NEW p \in Pruners, RemovePart(p)
        PROVE  Typed'
    <2>1. files' \in [Targets -> [Versions -> Artifact]]
      BY <1>3, RemoveEffect DEF Replaced
    <2> DEFINE part == 1 + (pruning[p].part % 3)
               at == IF pruning[p].part = 3 THEN None ELSE pruning[p].at
    <2>0. /\ pruning[p].part \in 1..3 /\ pruning[p].at \in Names
          /\ pruning' = [pruning EXCEPT ![p].part = part, ![p].at = at]
      BY <1>3 DEF RemovePart, RestTyped
    <2>7. /\ part \in 1..3 /\ at \in Names \cup {None}
          /\ at = None => part = 1
      BY <2>0, Marks
    <2> HIDE DEF part, at
    <2>2. /\ pruning' \in Lists
          /\ \A q \in Pruners : q # p => pruning'[q] = pruning[q]
          /\ pruning'[p].at = at /\ pruning'[p].part = part
      BY <2>0, <2>7 DEF RestTyped
    <2>3. pruning[p] # NoPrune
      BY <1>3 DEF RemovePart, NoPrune
    <2>4. RestTyped'
      BY <1>3, <2>1, <2>2 DEF RemovePart, RestTyped
    <2>5. JobTyped' /\ InstShape'
      BY <1>3 DEF RemovePart, JobTyped, JobShape, Progress, IsThisBuild, InstShape, CLI, GUI
    <2>6. PruningShape'
      <3>1. UNCHANGED job
        BY <1>3 DEF RemovePart
      <3> QED
        BY <2>2, <2>3, <2>7, <3>1 DEF PruningShape, Pruners
    <2> QED
      BY <2>4, <2>5, <2>6
  <1>4. ASSUME StopPruning
        PROVE  Typed'
    <2>1. faults' \in 0..MaxFaults
      BY <1>4, ReleaseConstants DEF StopPruning, RestTyped
    <2>2. /\ NoPrune \in [left : SUBSET Names, at : Names \cup {None}, part : 1..3]
          /\ NoPrune.at = None /\ NoPrune.part = 1 /\ "release" # "prune"
      BY DEF NoPrune
    <2>3. /\ pruning' \in Lists
          /\ \A q \in Pruners : q # "prune" => pruning'[q] = pruning[q]
          /\ pruning'["prune"] = NoPrune
      BY <1>4, <2>2 DEF StopPruning, RestTyped, Pruners
    <2>4. RestTyped'
      BY <1>4, <2>1, <2>3 DEF StopPruning, RestTyped, store
    <2>5. JobTyped' /\ InstShape'
      BY <1>4 DEF StopPruning, JobTyped, JobShape, Progress, IsThisBuild, InstShape, CLI, GUI
    <2>6. PruningShape'
      BY <1>4, <2>2, <2>3 DEF StopPruning, PruningShape
    <2> QED
      BY <2>4, <2>5, <2>6
  <1> QED
    BY <1>1, <1>2, <1>3, <1>4

\* Every step of an installer run keeps the types.
LEMMA InstallerTypes ==
    ASSUME Typed
    PROVE  /\ \A t \in Targets : Pick(t[2]) => Typed'
           /\ VerifyCLI \/ CopyCLI \/ PickGUI \/ VerifyGUI \/ CopyGUI \/ SelfCheck \/ Leave => Typed'
  <1>1. ASSUME InstallerUnchanged, InstShape',
               installed' \in [{"angou", "angou-gui"} -> Build \cup {None, Torn}]
        PROVE  Typed'
    <2>1. RestTyped'
      BY <1>1 DEF Typed, InstallerUnchanged, store, RestTyped
    <2>2. JobTyped' /\ PruningShape'
      BY <1>1 DEF Typed, InstallerUnchanged, JobTyped, JobShape, Progress, IsThisBuild, PruningShape
    <2> QED
      BY <1>1, <2>1, <2>2 DEF Typed
  <1> USE DEF Typed
  <1>2. ASSUME NEW pc \in InstPcs, End(pc), inst.pc # "idle",
               pc \in {"verifyGui", "copyGui"} => GUI \in Targets
        PROVE  InstShape'
    BY <1>2 DEF InstShape, End, CLI, GUI
  <1>3. ASSUME NEW t \in Targets, Pick(t[2])
        PROVE  Typed'
    <2> DEFINE cli == <<"angou", t[2]>>
               gui == <<"angou-gui", t[2]>>
               sound == Settled(cli) /\ (gui \in Targets /\ Present(gui) # {} => Settled(gui))
    <2>1. Present(cli) # {} /\ cli \in Targets /\ script["sh"].text \in Text
      BY <1>3 DEF Pick
    <2>2. script["sh"].text.pin \in Signers /\ floor \in Versions /\ 0 \in Versions
      BY <2>1, VersionsAreFinite DEF Text, RestTyped
    <2>3. Newest(cli) \in Versions
      BY <2>1, NewestIsLargest DEF Present
    <2>4. sound \in BOOLEAN /\ (cli \in carried) \in BOOLEAN
      BY DEF Settled
    <2>5. inst' = [pc |-> "verify", plat |-> t[2], pin |-> script["sh"].text.pin,
                   ver |-> Newest(cli), gui |-> 0, floor |-> floor,
                   due |-> cli \in carried, sound |-> sound]
      BY <1>3 DEF Pick, NoRun
    <2> HIDE DEF sound
    <2>6. InstShape'
      BY <2>1, <2>2, <2>3, <2>4, <2>5 DEF InstShape, InstPcs, CLI
    <2> QED
      BY <1>1, <1>3, <2>6 DEF Pick, RestTyped
  <1>4. ASSUME VerifyCLI \/ VerifyGUI \/ SelfCheck
        PROVE  Typed'
    <2>1. InstShape'
      BY <1>2, <1>4 DEF VerifyCLI, VerifyGUI, SelfCheck, InstPcs, InstShape
    <2> QED
      BY <1>1, <1>4, <2>1 DEF VerifyCLI, VerifyGUI, SelfCheck, RestTyped
  <1>5. ASSUME NEW t \in Targets, NEW v \in Versions
        PROVE  files[t][v].bin \in Build \cup {None, Torn}
    BY DEF RestTyped, Artifact
  <1>6. ASSUME CopyCLI \/ CopyGUI
        PROVE  Typed'
    <2>1. inst.ver \in Versions /\ inst.gui \in Versions
      BY DEF InstShape
    <2>2. /\ CLI \in Targets
          /\ CopyGUI => GUI \in Targets
      BY <1>6 DEF CopyCLI, CopyGUI, InstShape, CLI, GUI
    <2>3. InstShape'
      BY <1>2, <1>6 DEF CopyCLI, CopyGUI, InstPcs, InstShape
    <2>4. installed' \in [{"angou", "angou-gui"} -> Build \cup {None, Torn}]
      BY <1>5, <1>6, <2>1, <2>2 DEF CopyCLI, CopyGUI, RestTyped
    <2> QED
      BY <1>1, <1>6, <2>3, <2>4 DEF CopyCLI, CopyGUI
  <1>7. ASSUME PickGUI
        PROVE  Typed'
    <2>1. CASE GUI \notin Targets \/ Present(GUI) = {}
      <3>1. InstShape'
        BY <1>2, <1>7, <2>1 DEF PickGUI, End, InstPcs
      <3> QED
        BY <1>1, <1>7, <3>1 DEF PickGUI, RestTyped
    <2>2. CASE GUI \in Targets /\ Present(GUI) # {}
      <3>1. inst' = [inst EXCEPT !.pc = "verifyGui", !.gui = Newest(GUI)]
        BY <1>7, <2>2 DEF PickGUI
      <3>2. Newest(GUI) \in Versions
        BY <2>2, NewestIsLargest DEF Present
      <3>3. inst.pc = "pickGui"
        BY <1>7 DEF PickGUI
      <3>4. InstShape'
        BY <2>2, <3>1, <3>2, <3>3 DEF InstShape, InstPcs, CLI, GUI
      <3> QED
        BY <1>1, <1>7, <3>4 DEF PickGUI, RestTyped
    <2> QED
      BY <2>1, <2>2
  <1>8. ASSUME Leave
        PROVE  Typed'
    <2>1. InstShape'
      BY <1>8, VersionsAreFinite DEF Leave, NoRun, InstShape, InstPcs
    <2>2. installed' \in [{"angou", "angou-gui"} -> Build \cup {None, Torn}]
      BY <1>8 DEF Leave
    <2> QED
      BY <1>1, <1>8, <2>1, <2>2 DEF Leave
  <1> QED
    BY <1>3, <1>4, <1>6, <1>7, <1>8

\* Every step keeps the types.
LEMMA NextTyped ==
    ASSUME Typed, Published, [Next]_vars
    PROVE  Typed'
  <1>1. CASE Next
    BY <1>1, JobTypes, PruneTypes, InstallerTypes DEF Next
  <1>2. CASE UNCHANGED vars
    BY <1>2 DEF vars, store, Typed, JobTyped, JobShape, Progress, IsThisBuild, RestTyped,
                InstShape, CLI, GUI, PruningShape
  <1> QED
    BY <1>1, <1>2

---------------------------------------------------------------------------
\* What a step does to the listings.

\* A step leaves the files alone, writes the name being stashed, or removes a
\* part of a name on a prune's list.
LEMMA FilesStep ==
    ASSUME Typed, [Next]_vars
    PROVE  \/ UNCHANGED files
           \/ StashBinary \/ StashSignature \/ StashMetadata
           \/ \E p \in Pruners : RemovePart(p)
  <1>1. CASE UNCHANGED vars
    BY <1>1 DEF vars, store
  <1>2. CASE Next
    <2>1. \A tool \in Tools, by \in Signers, dist \in Dists, keep \in Keeps :
             Begin(tool, by, dist, keep) => UNCHANGED files
      BY DEF Begin, store
    <2>2. \A t \in Targets : Accept(t) => UNCHANGED files
      BY DEF Accept, store
    <2>3. WriteKey \/ RaiseFloor \/ ListForRelease \/ Pruned => UNCHANGED files
      BY DEF WriteKey, RaiseFloor, ListForRelease, Pruned, store
    <2>4. WriteScript \/ SignScript \/ RecordScript \/ Fail => UNCHANGED files
      BY DEF WriteScript, SignScript, RecordScript, Fail, store
    <2>5. /\ \A keep \in Keeps : ListForPrune(keep) => UNCHANGED files
          /\ \A p \in Pruners, n \in Names : Choose(p, n) => UNCHANGED files
          /\ StopPruning => UNCHANGED files
      BY DEF ListForPrune, Choose, StopPruning, store
    <2>6. \A t \in Targets : Pick(t[2]) => UNCHANGED files
      BY DEF Pick, InstallerUnchanged, store
    <2>7. VerifyCLI \/ CopyCLI \/ PickGUI \/ VerifyGUI \/ CopyGUI \/ SelfCheck \/ Leave
             => UNCHANGED files
      BY DEF VerifyCLI, CopyCLI, PickGUI, VerifyGUI, CopyGUI, SelfCheck, Leave,
             InstallerUnchanged, store
    <2> QED
      BY <1>2, <2>1, <2>2, <2>3, <2>4, <2>5, <2>6, <2>7 DEF Next
  <1> QED
    BY <1>1, <1>2

\* The three steps of a stash, and what each writes.
LEMMA StashStep ==
    ASSUME Typed, StashBinary \/ StashSignature \/ StashMetadata
    PROVE  /\ job.pc \in {"binary", "signature", "metadata"}
           /\ job.at \in DOMAIN job.dist \ job.todo /\ job.at \in Targets
           /\ job.tool \in Tools /\ job.tool.ver \in Versions
           /\ StashBinary =>
                 /\ job.pc = "binary" /\ job.dist[job.at] \in Build
                 /\ Replaced(job.at, job.tool.ver, "bin", Becomes("bin", job.dist[job.at]))
                 /\ Written("signature")
           /\ StashSignature =>
                 /\ job.pc = "signature" /\ [of |-> job.dist[job.at], by |-> job.by] \in Sig
                 /\ Replaced(job.at, job.tool.ver, "sig",
                             Becomes("sig", [of |-> job.dist[job.at], by |-> job.by]))
                 /\ Written("metadata")
           /\ StashMetadata =>
                 /\ job.pc = "metadata"
                 /\ Replaced(job.at, job.tool.ver, "json",
                             Becomes("json", [ver |-> job.tool.ver, rev |-> job.tool.rev]))
                 /\ Written(IF job.todo = {} THEN "key" ELSE "stash")
           /\ UNCHANGED <<key, script, floor, Rest>>
  <1>1. job.pc \in {"binary", "signature", "metadata"}
    BY DEF StashBinary, StashSignature, StashMetadata
  <1>2. /\ job.tool \in Tools /\ job.by \in Signers /\ job.dist \in Dists
        /\ job.at \in DOMAIN job.dist \ job.todo
    BY <1>1 DEF Typed, JobTyped, Progress, Working
  <1>3. /\ job.dist[job.at] \in Build
        /\ [of |-> job.dist[job.at], by |-> job.by] \in Sig
        /\ [ver |-> job.tool.ver, rev |-> job.tool.rev] \in Build
        /\ job.tool.ver \in Versions
        /\ job.at \in Targets
    BY <1>2, DistType, ToolBuilds, VersionsAreFinite DEF Sig
  <1>4. CASE StashBinary
    <2>1. "bin" \in Parts /\ job.dist[job.at] \in Kept("bin")
      BY <1>3 DEF Parts, Kept
    <2>2. Stash("bin", job.dist[job.at], "signature") /\ job.pc = "binary"
      BY <1>4 DEF StashBinary
    <2>3. Replaced(job.at, job.tool.ver, "bin", Becomes("bin", job.dist[job.at]))
      BY <1>1, <2>1, <2>2, StashEffect
    <2> QED
      BY <1>1, <1>2, <1>3, <2>2, <2>3 DEF Stash, StashSignature, StashMetadata
  <1>5. CASE StashSignature
    <2> DEFINE sig == [of |-> job.dist[job.at], by |-> job.by]
    <2>1. "sig" \in Parts /\ sig \in Kept("sig")
      BY <1>3 DEF Parts, Kept
    <2>2. Stash("sig", sig, "metadata") /\ job.pc = "signature"
      BY <1>5 DEF StashSignature
    <2>3. Replaced(job.at, job.tool.ver, "sig", Becomes("sig", sig))
      BY <1>1, <2>1, <2>2, StashEffect
    <2> QED
      BY <1>1, <1>2, <1>3, <2>2, <2>3 DEF Stash, StashBinary, StashMetadata
  <1>6. CASE StashMetadata
    <2> DEFINE json == [ver |-> job.tool.ver, rev |-> job.tool.rev]
               label == IF job.todo = {} THEN "key" ELSE "stash"
    <2>1. "json" \in Parts /\ json \in Kept("json")
      BY <1>3 DEF Parts, Kept
    <2>2. Stash("json", json, label) /\ job.pc = "metadata"
      BY <1>6 DEF StashMetadata
    <2>3. Replaced(job.at, job.tool.ver, "json", Becomes("json", json))
      BY <1>1, <2>1, <2>2, StashEffect
    <2> QED
      BY <1>1, <1>2, <1>3, <2>2, <2>3 DEF Stash, StashBinary, StashSignature
  <1> QED
    BY <1>4, <1>5, <1>6

\* A listing only grows, except by the name whose binary a prune removes.
LEMMA ListingStep ==
    ASSUME Typed, [Next]_vars, NEW t \in Targets
    PROVE  \/ Present(t) \subseteq Present(t)'
           \/ \E p \in Pruners :
                 /\ RemovePart(p) /\ pruning[p].at \in Names /\ pruning[p].at[1] = t
                 /\ Present(t) \ {pruning[p].at[2]} \subseteq Present(t)'
  <1>1. CASE UNCHANGED files
    BY <1>1 DEF Present
  <1>2. CASE StashBinary
    <2>1. Becomes("bin", job.dist[job.at]) = None => files[job.at][job.tool.ver].bin = None
      BY <1>2, StashStep, Marks DEF Becomes, Piece
    <2>2. Replaced(job.at, job.tool.ver, "bin", Becomes("bin", job.dist[job.at]))
      BY <1>2, StashStep
    <2> QED
      BY <2>1, <2>2 DEF Replaced, Present
  <1>3. CASE StashSignature \/ StashMetadata
    <2>1. \A v \in Versions : files'[t][v].bin = files[t][v].bin
      BY <1>3, StashStep DEF Replaced, Parts
    <2> QED
      BY <2>1 DEF Present
  <1>4. ASSUME NEW p \in Pruners, RemovePart(p)
        PROVE  \/ Present(t) \subseteq Present(t)'
               \/ /\ RemovePart(p) /\ pruning[p].at \in Names /\ pruning[p].at[1] = t
                  /\ Present(t) \ {pruning[p].at[2]} \subseteq Present(t)'
    <2> DEFINE n == pruning[p].at
               part == RemovalOrder[pruning[p].part]
    <2>1. n \in Names /\ Replaced(n[1], n[2], part, None)
      BY <1>4, RemoveEffect
    <2>2. \A v \in Versions : t # n[1] \/ v # n[2] => files'[t][v].bin = files[t][v].bin
      BY <2>1 DEF Replaced
    <2> QED
      BY <1>4, <2>1, <2>2 DEF Present
  <1> QED
    BY <1>1, <1>2, <1>3, <1>4, FilesStep

\* What is on a listing is only ever outlived: after any step the target has a
\* binary at least as new.
LEMMA OnlyOutlived ==
    ASSUME Typed, ListedAreOutlived, [Next]_vars, NEW t \in Targets, NEW v \in Present(t)
    PROVE  \E w \in Present(t)' : w >= v
  <1>1. v \in Nat /\ Present(t) \subseteq Nat
    BY VersionsAreFinite DEF Present
  <1>2. CASE Present(t) \subseteq Present(t)'
    BY <1>1, <1>2
  <1>3. ASSUME NEW p \in Pruners, pruning[p].at \in Names, pruning[p].at[1] = t,
               Present(t) \ {pruning[p].at[2]} \subseteq Present(t)'
        PROVE  \E w \in Present(t)' : w >= v
    <2>1. PICK w \in Present(t) : w > pruning[p].at[2]
      BY <1>3 DEF ListedAreOutlived, Newer
    <2>2. pruning[p].at[2] \in Nat
      BY <1>3, VersionsAreFinite DEF Names
    <2>3. w \in Present(t)'
      BY <1>1, <1>3, <2>1, <2>2
    <2> QED
      BY <1>1, <1>3, <2>1, <2>2, <2>3
  <1> QED
    BY <1>2, <1>3, ListingStep

\* Once a target has something newer, it always has.
LEMMA NewerStays ==
    ASSUME Typed, ListedAreOutlived, [Next]_vars, NEW t \in Targets, NEW x \in Nat
    PROVE  /\ Newer(t, x) => Newer(t, x)'
           /\ (\E v \in Present(t) : v >= x) => \E v \in Present(t)' : v >= x
  <1>1. Present(t) \subseteq Nat
    BY VersionsAreFinite DEF Present
  <1>2. Present(t)' \subseteq Nat
    BY VersionsAreFinite DEF Present
  <1> QED
    BY <1>1, <1>2, OnlyOutlived DEF Newer

\* The steps that change what a prune has left.
LEMMA PruningStep ==
    ASSUME [Next]_vars
    PROVE  \/ UNCHANGED pruning
           \/ ListForRelease
           \/ Fail \/ StopPruning
           \/ \E keep \in Keeps : ListForPrune(keep)
           \/ \E p \in Pruners, n \in Names : Choose(p, n)
           \/ \E p \in Pruners : RemovePart(p)
  <1>1. CASE UNCHANGED vars
    BY <1>1 DEF vars
  <1>2. CASE Next
    <2>1. /\ \A tool \in Tools, by \in Signers, dist \in Dists, keep \in Keeps :
                Begin(tool, by, dist, keep) => UNCHANGED pruning
          /\ \A t \in Targets : Accept(t) => UNCHANGED pruning
      BY DEF Begin, Accept
    <2>2. StashBinary \/ StashSignature \/ StashMetadata => UNCHANGED pruning
      BY DEF StashBinary, StashSignature, StashMetadata, Stash, Rest
    <2>3. WriteKey \/ RaiseFloor \/ Pruned => UNCHANGED pruning
      BY DEF WriteKey, RaiseFloor, Pruned, Rest
    <2>4. WriteScript \/ SignScript \/ RecordScript => UNCHANGED pruning
      BY DEF WriteScript, SignScript, RecordScript, Rest
    <2>5. \A t \in Targets : Pick(t[2]) => UNCHANGED pruning
      BY DEF Pick, InstallerUnchanged
    <2>6. VerifyCLI \/ CopyCLI \/ PickGUI \/ VerifyGUI \/ CopyGUI \/ SelfCheck \/ Leave
             => UNCHANGED pruning
      BY DEF VerifyCLI, CopyCLI, PickGUI, VerifyGUI, CopyGUI, SelfCheck, Leave, InstallerUnchanged
    <2> QED
      BY <1>2, <2>1, <2>2, <2>3, <2>4, <2>5, <2>6 DEF Next
  <1> QED
    BY <1>1, <1>2

\* The names a prune lists, has left, or is at, are outlived.
LEMMA NextOutlived ==
    ASSUME Typed, Typed', ListedAreOutlived, [Next]_vars
    PROVE  ListedAreOutlived'
  <1>1. ASSUME NEW n \in Names, Newer(n[1], n[2])
        PROVE  Newer(n[1], n[2])'
    <2>1. n[1] \in Targets /\ n[2] \in Nat
      BY VersionsAreFinite DEF Names
    <2> QED
      BY <1>1, <2>1, NewerStays
  <1>2. ASSUME NEW p \in Pruners, NEW n \in Names,
               n \in pruning'[p].left \/ n = pruning'[p].at
        PROVE  \/ n \in pruning[p].left \/ n = pruning[p].at
               \/ Newer(n[1], n[2])
    <2>1. n # None
      BY Marks
    <2>2. CASE UNCHANGED pruning
      BY <1>2, <2>2
    <2>3. CASE ListForRelease /\ ~UNCHANGED pruning
      <3>1. /\ job.keep \in Nat /\ job.keep >= 1
            /\ pruning' = [pruning EXCEPT !["release"].left = Superseded(job.keep)]
        BY <2>3 DEF ListForRelease, Typed, JobTyped, JobShape
      <3>2. n \in pruning[p].left \/ n = pruning[p].at \/ n \in Superseded(job.keep)
        BY <1>2, <3>1 DEF Typed, RestTyped
      <3> QED
        BY <3>1, <3>2, SupersededAreOutlived
    <2>4. ASSUME NEW keep \in Keeps, ListForPrune(keep)
          PROVE  n \in pruning[p].left \/ n = pruning[p].at \/ Newer(n[1], n[2])
      <3>1. /\ keep \in Nat /\ keep >= 1
            /\ pruning' = [pruning EXCEPT !["prune"].left = Superseded(keep)]
        BY <2>4, ReleaseConstants DEF ListForPrune
      <3>2. n \in pruning[p].left \/ n = pruning[p].at \/ n \in Superseded(keep)
        BY <1>2, <3>1 DEF Typed, RestTyped
      <3> QED
        BY <3>1, <3>2, SupersededAreOutlived
    <2>5. ASSUME NEW q \in Pruners, NEW m \in Names, Choose(q, m)
          PROVE  n \in pruning[p].left \/ n = pruning[p].at
      BY <1>2, <2>5 DEF Choose, Typed, RestTyped
    <2>6. ASSUME NEW q \in Pruners, RemovePart(q)
          PROVE  n \in pruning[p].left \/ n = pruning[p].at
      <3>1. /\ pruning'[p].left = pruning[p].left
            /\ pruning'[p].at \in {pruning[p].at, None}
        BY <2>6 DEF RemovePart, Typed, RestTyped
      <3> QED
        BY <1>2, <2>1, <3>1
    <2>7. ASSUME StopPruning \/ Fail
          PROVE  n \in pruning[p].left \/ n = pruning[p].at
      BY <1>2, <2>1, <2>7, SMTT(40) DEF StopPruning, Fail, NoPrune, Typed, RestTyped
    <2> QED
      BY <2>2, <2>3, <2>4, <2>5, <2>6, <2>7, PruningStep
  <1> QED
    BY <1>1, <1>2 DEF ListedAreOutlived

---------------------------------------------------------------------------
\* What a release has stashed.

\* The steps of a release that follow its stash.
Later == WriteKey \/ RaiseFloor \/ ListForRelease \/ Pruned
            \/ WriteScript \/ SignScript \/ RecordScript

\* They leave the files alone, and keep what is being published.
LEMMA LaterStep ==
    ASSUME Typed, Later
    PROVE  /\ UNCHANGED files
           /\ job.pc \in Steps \ Working
           /\ \/ job'.pc = "failed"
              \/ /\ job'.pc \notin Working
                 /\ job'.tool = job.tool /\ job'.by = job.by
                 /\ job'.dist = job.dist /\ job'.todo = job.todo
  <1>1. UNCHANGED files
    BY DEF Later, WriteKey, RaiseFloor, ListForRelease, Pruned, WriteScript, SignScript,
           RecordScript, store
  <1>2. job.pc \in Steps \ Working
    BY DEF Later, WriteKey, RaiseFloor, ListForRelease, Pruned, WriteScript, SignScript,
           RecordScript, Steps, Working
  <1> USE DEF Typed, JobTyped, JobShape, Working
  <1>3. CASE WriteKey
    BY <1>1, <1>2, <1>3 DEF WriteKey, Written
  <1>4. CASE RaiseFloor
    BY <1>1, <1>2, <1>4 DEF RaiseFloor, Goto
  <1>5. CASE ListForRelease
    BY <1>1, <1>2, <1>5 DEF ListForRelease, Goto, Failed, NoJob
  <1>6. CASE Pruned
    BY <1>1, <1>2, <1>6 DEF Pruned
  <1>7. CASE WriteScript
    BY <1>1, <1>2, <1>7 DEF WriteScript, Staged
  <1>8. CASE SignScript
    BY <1>1, <1>2, <1>8 DEF SignScript, Staged
  <1>9. CASE RecordScript
    BY <1>1, <1>2, <1>9 DEF RecordScript
  <1> QED
    BY <1>3, <1>4, <1>5, <1>6, <1>7, <1>8, <1>9 DEF Later

\* A step is one of the release, or leaves the release alone.
LEMMA JobSteps ==
    ASSUME [Next]_vars
    PROVE  \/ \E tool \in Tools, by \in Signers, dist \in Dists, keep \in Keeps :
                 Begin(tool, by, dist, keep)
           \/ \E t \in Targets : Accept(t)
           \/ StashBinary \/ StashSignature \/ StashMetadata
           \/ Later
           \/ Fail
           \/ UNCHANGED job /\ UNCHANGED files
           \/ UNCHANGED job /\ \E p \in Pruners : RemovePart(p)
  <1>1. CASE UNCHANGED vars
    BY <1>1 DEF vars, store
  <1>2. CASE Next
    <2>1. /\ \A keep \in Keeps : ListForPrune(keep) => UNCHANGED <<job, files>>
          /\ \A p \in Pruners, n \in Names : Choose(p, n) => UNCHANGED <<job, files>>
          /\ \A p \in Pruners : RemovePart(p) => UNCHANGED job
          /\ StopPruning => UNCHANGED <<job, files>>
      BY DEF ListForPrune, Choose, RemovePart, StopPruning, store
    <2>2. \A t \in Targets : Pick(t[2]) => UNCHANGED <<job, files>>
      BY DEF Pick, InstallerUnchanged, store
    <2>3. VerifyCLI \/ CopyCLI \/ PickGUI \/ VerifyGUI \/ CopyGUI \/ SelfCheck \/ Leave
             => UNCHANGED <<job, files>>
      BY DEF VerifyCLI, CopyCLI, PickGUI, VerifyGUI, CopyGUI, SelfCheck, Leave,
             InstallerUnchanged, store
    <2> QED
      BY <1>2, <2>1, <2>2, <2>3 DEF Next, Later
  <1> QED
    BY <1>1, <1>2

\* A step of a stash writes its part and moves on; the other parts stay.
LEMMA StashKeeps ==
    ASSUME Typed, StashBinary \/ StashSignature \/ StashMetadata, NEW t \in Targets, Stashed(t)
    PROVE  Stashed(t)'
  <1> DEFINE v == job.tool.ver
             u == job.at
  <1>1. /\ u \in DOMAIN job.dist \ job.todo /\ u \in Targets /\ v \in Versions
        /\ job.half \in BOOLEAN
        /\ job.pc \in {"binary", "signature", "metadata"}
    BY StashStep DEF Typed, JobTyped, JobShape
  <1>2. /\ job'.at = u /\ job'.half = ~job.half /\ job'.tool = job.tool /\ job'.by = job.by
        /\ job'.dist = job.dist /\ job'.todo = job.todo
    BY StashStep, ZenonT(60) DEF Written, Typed, JobTyped, JobShape
  <1>3. CASE t # u
    <2>1. files'[t][v] = files[t][v]
      BY <1>1, <1>3, StashStep DEF Replaced
    <2> QED
      BY <1>1, <1>2, <1>3, <2>1 DEF Stashed, Past
  <1>4. CASE t = u /\ StashBinary
    <2>1. /\ job.pc = "binary" /\ job'.pc = IF job.half THEN "signature" ELSE "binary"
          /\ files'[u][v].bin = Becomes("bin", job.dist[u])
      BY <1>4, StashStep DEF Written, Typed, JobTyped, JobShape, Replaced
    <2>2. files'[u][v].bin = IF job.half THEN job.dist[u] ELSE Torn
      BY <1>1, <1>4, <2>1, Marks DEF Stashed, Becomes, Piece
    <2> QED
      BY <1>1, <1>2, <1>4, <2>1, <2>2 DEF Stashed, Past
  <1>5. CASE t = u /\ StashSignature
    <2> DEFINE sig == [of |-> job.dist[u], by |-> job.by]
    <2>1. /\ job.pc = "signature" /\ job'.pc = IF job.half THEN "metadata" ELSE "signature"
          /\ files'[u][v].sig = Becomes("sig", sig)
          /\ files'[u][v].bin = files[u][v].bin
      BY <1>5, StashStep DEF Written, Typed, JobTyped, JobShape, Replaced, Parts
    <2>2. files'[u][v].sig = IF job.half THEN sig ELSE Torn
      BY <1>1, <1>5, <2>1, Marks DEF Stashed, Becomes, Piece
    <2>3. files'[u][v].bin = job.dist[u]
      BY <1>1, <1>5, <2>1 DEF Stashed, Past
    <2> QED
      BY <1>1, <1>2, <1>5, <2>1, <2>2, <2>3 DEF Stashed, Past
  <1>6. CASE t = u /\ StashMetadata
    <2> DEFINE json == [ver |-> job.tool.ver, rev |-> job.tool.rev]
    <2>1. /\ job.pc = "metadata"
          /\ job'.pc = IF job.half THEN (IF job.todo = {} THEN "key" ELSE "stash") ELSE "metadata"
          /\ files'[u][v].json = Becomes("json", json)
          /\ files'[u][v].bin = files[u][v].bin /\ files'[u][v].sig = files[u][v].sig
      BY <1>6, StashStep DEF Written, Typed, JobTyped, JobShape, Replaced, Parts
    <2>2. files'[u][v].json = IF job.half THEN json ELSE Torn
      BY <1>1, <1>6, <2>1, Marks DEF Stashed, Becomes, Piece
    <2>3. /\ files'[u][v].bin = job.dist[u]
          /\ files'[u][v].sig = [of |-> job.dist[u], by |-> job.by]
      BY <1>1, <1>6, <2>1 DEF Stashed, Past
    <2> QED
      BY <1>1, <1>2, <1>6, <2>1, <2>2, <2>3 DEF Stashed, Past
  <1> QED
    BY <1>3, <1>4, <1>5, <1>6

\* Every step keeps what has been stashed, unless it has been outlived.
LEMMA NextStashed ==
    ASSUME Typed, Typed', ListedAreOutlived, StashedOrOutlived, [Next]_vars
    PROVE  StashedOrOutlived'
  <1> SUFFICES ASSUME job'.pc \notin {"none", "failed"}, NEW t \in Targets,
                      ~Newer(t, job.tool.ver)'
               PROVE  Stashed(t)'
    BY DEF StashedOrOutlived
  <1>1. ASSUME job.pc \notin {"none", "failed"}, job'.tool = job.tool
        PROVE  /\ Stashed(t) /\ ~Newer(t, job.tool.ver)
               /\ job.tool.ver \in Versions
               /\ \A p \in Pruners :
                     RemovePart(p) => files'[t][job.tool.ver] = files[t][job.tool.ver]
    <2> DEFINE v == job.tool.ver
    <2>1. v \in Versions /\ v \in Nat /\ v' = v
      BY <1>1, VersionsAreFinite DEF Typed, JobTyped
    <2>2. ~Newer(t, v)
      <3>1. \A x \in Nat : Newer(t, x) => Newer(t, x)'
        BY NewerStays
      <3>2. Newer(t, v) => \E w \in Present(t)' : w > v
        BY <2>1, <3>1 DEF Newer
      <3> QED
        BY <2>1, <3>2 DEF Newer
    <2>3. <<t, v>> \in Names
      BY <2>1 DEF Names
    <2>4. \A p \in Pruners : <<t, v>> # pruning[p].at
      BY <2>2, <2>3 DEF ListedAreOutlived
    <2>5. ASSUME NEW p \in Pruners, RemovePart(p)
          PROVE  files'[t][v] = files[t][v]
      <3> DEFINE n == pruning[p].at
      <3>1. n \in Names /\ Replaced(n[1], n[2], RemovalOrder[pruning[p].part], None)
        BY <2>5, RemoveEffect
      <3>2. t # n[1] \/ v # n[2]
        BY <2>4, <3>1 DEF Names
      <3> QED
        BY <2>1, <3>1, <3>2 DEF Replaced
    <2> QED
      BY <1>1, <2>1, <2>2, <2>4, <2>5 DEF StashedOrOutlived
  <1>2. ASSUME NEW tool \in Tools, NEW by \in Signers, NEW dist \in Dists, NEW keep \in Keeps,
               Begin(tool, by, dist, keep)
        PROVE  Stashed(t)'
    <2>1. job'.todo = DOMAIN job'.dist /\ ~job'.half
      BY <1>2 DEF Begin, NoJob
    <2> QED
      BY <2>1 DEF Stashed, Past
  <1>3. ASSUME NEW u \in Targets, Accept(u)
        PROVE  Stashed(t)'
    <2>1. /\ job' = [job EXCEPT !.pc = "binary", !.at = u, !.todo = @ \ {u}]
          /\ job.pc = "stash" /\ UNCHANGED files
      BY <1>3 DEF Accept, Failed, NoJob, store
    <2>2. /\ job'.pc = "binary" /\ job'.at = u /\ job'.half = job.half
          /\ job'.tool = job.tool /\ job'.by = job.by /\ job'.dist = job.dist
          /\ job'.todo = job.todo \ {u}
      BY <2>1 DEF Typed, JobTyped, JobShape
    <2>3. ~job.half
      BY <2>1 DEF Typed, JobTyped, Progress, Working
    <2> QED
      BY <1>1, <2>1, <2>2, <2>3 DEF Stashed, Past
  <1>4. ASSUME StashBinary \/ StashSignature \/ StashMetadata
        PROVE  Stashed(t)'
    <2>1. job.pc \notin {"none", "failed"} /\ job'.tool = job.tool
      BY <1>4, StashStep DEF Written, Typed, JobTyped, JobShape
    <2> QED
      BY <1>1, <1>4, <2>1, StashKeeps
  <1>5. ASSUME UNCHANGED files,
               job'.tool = job.tool, job'.by = job.by, job'.dist = job.dist, job'.todo = job.todo,
               job' = job \/ (job.pc \in Steps \ Working /\ job'.pc \notin Working)
        PROVE  Stashed(t)'
    <2>1. job.pc \notin {"none", "failed"} /\ Stashed(t)
      BY <1>1, <1>5 DEF Steps
    <2>2. CASE job' = job
      BY <1>5, <2>1, <2>2 DEF Stashed, Past
    <2>3. CASE job.pc \notin Working /\ job'.pc \notin Working
      BY <1>5, <2>1, <2>3 DEF Stashed, Past, Working
    <2> QED
      BY <1>5, <2>2, <2>3
  <1>6. ASSUME NEW p \in Pruners, RemovePart(p), UNCHANGED job
        PROVE  Stashed(t)'
    BY <1>1, <1>6 DEF Stashed, Past
  <1>7. ASSUME Later PROVE Stashed(t)'
    BY <1>5, <1>7, LaterStep
  <1>8. ~Fail
    BY DEF Fail, Failed, NoJob
  <1> QED
    BY <1>2, <1>3, <1>4, <1>5, <1>6, <1>7, <1>8, JobSteps

---------------------------------------------------------------------------
\* The key, the floor, the installers, and the names.

\* Only the release, after its stash, writes the key, the floor and the installers.
LEMMA StoreSteps ==
    ASSUME [Next]_vars
    PROVE  /\ Later \/ UNCHANGED <<key, script>>
           /\ RaiseFloor \/ UNCHANGED <<floor, carried>>
  <1>1. CASE UNCHANGED vars
    BY <1>1 DEF vars, store
  <1>2. CASE Next
    <2>1. /\ \A tool \in Tools, by \in Signers, dist \in Dists, keep \in Keeps :
                Begin(tool, by, dist, keep) => UNCHANGED <<key, script, floor, carried>>
          /\ \A t \in Targets : Accept(t) => UNCHANGED <<key, script, floor, carried>>
      BY DEF Begin, Accept, store
    <2>2. StashBinary \/ StashSignature \/ StashMetadata => UNCHANGED <<key, script, floor, carried>>
      BY DEF StashBinary, StashSignature, StashMetadata, Stash, Rest
    <2>3. /\ \A keep \in Keeps : ListForPrune(keep) => UNCHANGED <<key, script, floor, carried>>
          /\ \A p \in Pruners, n \in Names : Choose(p, n) => UNCHANGED <<key, script, floor, carried>>
          /\ \A p \in Pruners : RemovePart(p) => UNCHANGED <<key, script, floor, carried>>
          /\ StopPruning \/ Fail => UNCHANGED <<key, script, floor, carried>>
      BY DEF ListForPrune, Choose, RemovePart, StopPruning, Fail, store
    <2>4. \A t \in Targets : Pick(t[2]) => UNCHANGED <<key, script, floor, carried>>
      BY DEF Pick, InstallerUnchanged, store
    <2>5. VerifyCLI \/ CopyCLI \/ PickGUI \/ VerifyGUI \/ CopyGUI \/ SelfCheck \/ Leave
             => UNCHANGED <<key, script, floor, carried>>
      BY DEF VerifyCLI, CopyCLI, PickGUI, VerifyGUI, CopyGUI, SelfCheck, Leave,
             InstallerUnchanged, store
    <2>6. WriteKey \/ ListForRelease \/ Pruned \/ WriteScript \/ SignScript \/ RecordScript
             => UNCHANGED <<floor, carried>>
      BY DEF WriteKey, ListForRelease, Pruned, WriteScript, SignScript, RecordScript, Rest, store
    <2> QED
      BY <1>2, <2>1, <2>2, <2>3, <2>4, <2>5, <2>6 DEF Next, Later
  <1> QED
    BY <1>1, <1>2

\* Each step of a release writes what the next one counts on.
LEMMA NextPublished ==
    ASSUME Typed, Published, [Next]_vars
    PROVE  Published'
  <1> USE DEF Typed, JobTyped, JobShape
  <1>1. ASSUME NEW tool \in Tools, NEW by \in Signers, NEW dist \in Dists, NEW keep \in Keeps,
               Begin(tool, by, dist, keep)
        PROVE  Published'
    <2>1. job'.pc = "stash"
      BY <1>1 DEF Begin, NoJob
    <2> QED
      BY <2>1 DEF Published, Wrote, Signed, Noted
  <1>2. ASSUME NEW t \in Targets, Accept(t)
        PROVE  Published'
    <2>1. job'.pc \in {"binary", "failed"}
      BY <1>2 DEF Accept, Failed, NoJob
    <2> QED
      BY <2>1 DEF Published, Wrote, Signed, Noted
  <1>3. ASSUME StashBinary \/ StashSignature \/ StashMetadata
        PROVE  Published'
    <2>1. job'.pc \in Working \cup {"key"}
      BY <1>3, StashStep DEF Written, Working
    <2> QED
      BY <2>1 DEF Published, Wrote, Signed, Noted, Working
  <1>4. ASSUME WriteKey \/ RaiseFloor \/ ListForRelease \/ Pruned
        PROVE  Published'
    <2>1. CASE WriteKey
      <3>1. /\ job.pc = "key" /\ job'.pc = IF job.half THEN "floor" ELSE "key"
            /\ job'.by = job.by
            /\ key' = IF job.half THEN job.by ELSE Torn
        BY <2>1 DEF WriteKey, Written, Piece
      <3> QED
        BY <3>1 DEF Published, Wrote, Signed, Noted
    <2>2. CASE RaiseFloor
      <3>1. job.pc = "floor" /\ job'.pc = "list" /\ job'.by = job.by /\ UNCHANGED key
        BY <2>2 DEF RaiseFloor, Goto
      <3> QED
        BY <3>1 DEF Published, Wrote, Signed, Noted
    <2>3. CASE ListForRelease
      <3>1. /\ job.pc = "list" /\ UNCHANGED key
            /\ job'.pc = "failed" \/ (job'.pc = "remove" /\ job'.by = job.by)
        BY <2>3 DEF ListForRelease, Goto, Failed, NoJob, store
      <3> QED
        BY <3>1 DEF Published, Wrote, Signed, Noted
    <2>4. CASE Pruned
      <3>1. /\ job.pc = "remove" /\ UNCHANGED key
            /\ job'.pc = "script" /\ job'.at = "sh" /\ job'.by = job.by
        BY <2>4 DEF Pruned, store
      <3> QED
        BY <3>1 DEF Published, Wrote, Signed, Noted
    <2> QED
      BY <1>4, <2>1, <2>2, <2>3, <2>4
  <1>5. ASSUME WriteScript \/ SignScript \/ RecordScript
        PROVE  Published'
    <2> USE DEF Scripts
    <2>1. /\ job.pc \in {"script", "sign", "record"} /\ job.at \in Scripts
          /\ key = job.by /\ UNCHANGED key
          /\ job'.tool = job.tool /\ job'.by = job.by
          /\ "sh" # "ps1"
      BY <1>5, ZenonT(60) DEF WriteScript, SignScript, RecordScript, Staged, Progress, Published
    <2>2. CASE WriteScript
      <3>1. /\ job.pc = "script"
            /\ job'.pc = IF job.half /\ job.at = "ps1" THEN "sign" ELSE "script"
            /\ job'.at = IF job.half THEN (IF job.at = "sh" THEN "ps1" ELSE "sh") ELSE job.at
        BY <2>2 DEF WriteScript, Staged
      <3>2. /\ \A s \in Scripts : s # job.at => script'[s] = script[s]
            /\ script'[job.at].text = IF job.half THEN Installer ELSE Torn
        BY <2>1, <2>2 DEF WriteScript, Piece, RestTyped, Installer
      <3>3. \A s \in Scripts : Wrote(s)' => script'[s].text = Installer
        BY <2>1, <3>1, <3>2 DEF Published, Wrote
      <3> QED
        BY <2>1, <3>1, <3>3 DEF Published, Wrote, Signed, Noted, Installer
    <2>3. CASE SignScript
      <3>1. /\ job.pc = "sign"
            /\ job'.pc = IF job.half /\ job.at = "ps1" THEN "record" ELSE "sign"
            /\ job'.at = IF job.half THEN (IF job.at = "sh" THEN "ps1" ELSE "sh") ELSE job.at
        BY <2>3 DEF SignScript, Staged
      <3>2. \A s \in Scripts : script[s].text = Installer
        BY <3>1 DEF Published, Wrote
      <3>3. /\ \A s \in Scripts : s # job.at => script'[s] = script[s]
            /\ script'[job.at].text = Installer
            /\ script'[job.at].sig = IF job.half THEN [of |-> Installer, by |-> job.by] ELSE Torn
        BY <2>1, <2>3, <3>2 DEF SignScript, Piece, RestTyped
      <3>4. \A s \in Scripts : script'[s].text = Installer
        BY <3>2, <3>3
      <3>5. \A s \in Scripts : Signed(s)' => script'[s].sig = [of |-> Installer, by |-> job.by]
        BY <2>1, <3>1, <3>3 DEF Published, Signed
      <3> QED
        BY <2>1, <3>1, <3>4, <3>5 DEF Published, Noted, Installer
    <2>4. CASE RecordScript
      <3>1. /\ job.pc = "record"
            /\ job'.pc = IF job.at = "sh" THEN "record" ELSE "done"
            /\ job'.at = "ps1"
        BY <2>1, <2>4 DEF RecordScript
      <3>2. \A s \in Scripts : /\ script[s].text = Installer
                               /\ script[s].sig = [of |-> Installer, by |-> job.by]
        BY <3>1 DEF Published, Wrote, Signed
      <3>3. /\ \A s \in Scripts : s # job.at => script'[s] = script[s]
            /\ script'[job.at].text = Installer
            /\ script'[job.at].sig = [of |-> Installer, by |-> job.by]
            /\ script'[job.at].digest = Installer
        BY <2>1, <2>4, <3>2 DEF RecordScript, RestTyped
      <3>4. /\ \A s \in Scripts : script'[s].text = Installer
            /\ \A s \in Scripts : script'[s].sig = [of |-> Installer, by |-> job.by]
            /\ \A s \in Scripts : Noted(s)' => script'[s].digest = Installer
        BY <2>1, <3>1, <3>2, <3>3 DEF Published, Noted
      <3> QED
        BY <2>1, <3>1, <3>4 DEF Published, Installer
    <2> QED
      BY <1>5, <2>2, <2>3, <2>4
  <1>6. ASSUME Fail
        PROVE  Published'
    <2>1. job'.pc = "failed"
      BY <1>6 DEF Fail, Failed, NoJob
    <2> QED
      BY <2>1 DEF Published, Wrote, Signed, Noted
  <1>7. ASSUME UNCHANGED job, ~Later
        PROVE  Published'
    BY <1>7, StoreSteps DEF Published, Wrote, Signed, Noted, Installer
  <1> QED
    BY <1>1, <1>2, <1>3, <1>4, <1>5, <1>6, <1>7, JobSteps DEF Later

\* What a stash writes of a binary is a build that the tool took for its own.
LEMMA NextCommitsKept ==
    ASSUME Typed, CommitsKept, [Next]_vars
    PROVE  CommitsKept'
  <1> SUFFICES ASSUME NEW t \in Targets, NEW v \in Versions, files'[t][v].bin \in Build
               PROVE  OfVersion(files'[t][v].bin, v)
    BY DEF CommitsKept, OfVersion
  <1>1. CASE files'[t][v].bin = files[t][v].bin
    BY <1>1 DEF CommitsKept
  <1>2. CASE StashBinary
    <2>1. /\ job.tool \in Tools /\ job.tool.ver \in Versions /\ job.pc = "binary"
          /\ job.dist[job.at] \in Build
          /\ Replaced(job.at, job.tool.ver, "bin", Becomes("bin", job.dist[job.at]))
      BY <1>2, StashStep
    <2>2. CASE t # job.at \/ v # job.tool.ver
      BY <1>1, <2>1, <2>2 DEF Replaced
    <2>3. CASE t = job.at /\ v = job.tool.ver
      <3>1. files'[t][v].bin \in {None, Torn, job.dist[job.at]}
        BY <2>1, <2>3 DEF Replaced, Becomes, Piece
      <3>2. files'[t][v].bin = job.dist[job.at]
        BY <3>1, Marks
      <3>3. job.tool.rev \in {Unknown, job.dist[job.at].rev}
        BY <2>1 DEF Typed, JobTyped, Progress, Working, IsThisBuild
      <3> QED
        BY <2>1, <2>3, <3>2, <3>3 DEF OfVersion
    <2> QED
      BY <2>2, <2>3
  <1>3. CASE UNCHANGED files
    BY <1>1, <1>3
  <1>4. CASE StashSignature \/ StashMetadata
    BY <1>1, <1>4, StashStep DEF Replaced, Parts
  <1>5. ASSUME NEW p \in Pruners, RemovePart(p)
        PROVE  files'[t][v].bin = files[t][v].bin
    <2> DEFINE n == pruning[p].at
               part == RemovalOrder[pruning[p].part]
    <2>1. n \in Names /\ part \in Parts /\ Replaced(n[1], n[2], part, None)
      BY <1>5, RemoveEffect
    <2> QED
      BY <2>1, Marks DEF Replaced, Parts
  <1> QED
    BY <1>1, <1>2, <1>3, <1>4, <1>5, FilesStep

\* A floor is raised when everything it asks for is stashed or outlived.
LEMMA NextFloorIsCarried ==
    ASSUME Typed, ListedAreOutlived, StashedOrOutlived, FloorIsCarried, [Next]_vars
    PROVE  FloorIsCarried'
  <1>1. floor \in Nat /\ carried \subseteq Targets
    BY VersionsAreFinite DEF Typed, RestTyped
  <1>2. CASE UNCHANGED <<floor, carried>>
    <2> SUFFICES ASSUME NEW t \in carried
                 PROVE  \E v \in Present(t)' : v >= floor
      BY <1>2 DEF FloorIsCarried
    <2> QED
      BY <1>1, NewerStays DEF FloorIsCarried
  <1>3. CASE RaiseFloor /\ ~UNCHANGED <<floor, carried>>
    <2>1. /\ job.pc = "floor" /\ UNCHANGED files
          /\ floor' = job.tool.ver /\ carried' = DOMAIN job.dist
      BY <1>3 DEF RaiseFloor
    <2>2. /\ job.tool \in Tools /\ job.dist \in Dists /\ job.todo = {}
          /\ job.tool.ver \in Versions /\ job.tool.ver \in Nat
      BY <2>1, VersionsAreFinite DEF Typed, JobTyped, Progress, Working
    <2>3. ASSUME NEW t \in DOMAIN job.dist
          PROVE  \E v \in Present(t) : v >= job.tool.ver
      <3>1. t \in Targets /\ job.dist[t] \in Build
        BY <2>2, DistType
      <3>2. CASE Newer(t, job.tool.ver)
        <4>1. Present(t) \subseteq Nat
          BY VersionsAreFinite DEF Present
        <4> QED
          BY <2>2, <3>2, <4>1 DEF Newer
      <3>3. CASE Stashed(t)
        <4>1. files[t][job.tool.ver].bin = job.dist[t]
          BY <2>1, <2>2, <3>3 DEF Stashed, Past
        <4>2. job.tool.ver \in Present(t)
          BY <2>2, <3>1, <4>1, Marks DEF Present
        <4> QED
          BY <2>2, <4>2
      <3> QED
        BY <2>1, <3>1, <3>2, <3>3 DEF StashedOrOutlived
    <2> QED
      BY <2>1, <2>3 DEF FloorIsCarried, Present
  <1> QED
    BY <1>2, <1>3, StoreSteps

---------------------------------------------------------------------------
\* Signatures.

\* An interruption stays one; it falls into a stash, or a prune meets a stash.
LEMMA CutStep ==
    ASSUME [Next]_vars
    PROVE  \/ UNCHANGED cut
           \/ \E t \in Targets : Accept(t)
           \/ Fail
           \/ \E keep \in Keeps : ListForPrune(keep)
  <1>1. CASE UNCHANGED vars
    BY <1>1 DEF vars
  <1>2. CASE Next
    <2>1. \A tool \in Tools, by \in Signers, dist \in Dists, keep \in Keeps :
                Begin(tool, by, dist, keep) => UNCHANGED cut
      BY DEF Begin
    <2>2. StashBinary \/ StashSignature \/ StashMetadata => UNCHANGED cut
      BY DEF StashBinary, StashSignature, StashMetadata, Stash, Rest
    <2>3. WriteKey \/ RaiseFloor \/ ListForRelease \/ Pruned => UNCHANGED cut
      BY DEF WriteKey, RaiseFloor, ListForRelease, Pruned, Rest
    <2>4. WriteScript \/ SignScript \/ RecordScript => UNCHANGED cut
      BY DEF WriteScript, SignScript, RecordScript, Rest
    <2>5. /\ \A p \in Pruners, n \in Names : Choose(p, n) => UNCHANGED cut
          /\ \A p \in Pruners : RemovePart(p) => UNCHANGED cut
          /\ StopPruning => UNCHANGED cut
      BY DEF Choose, RemovePart, StopPruning
    <2>6. \A t \in Targets : Pick(t[2]) => UNCHANGED cut
      BY DEF Pick, InstallerUnchanged
    <2>7. VerifyCLI \/ CopyCLI \/ PickGUI \/ VerifyGUI \/ CopyGUI \/ SelfCheck \/ Leave
             => UNCHANGED cut
      BY DEF VerifyCLI, CopyCLI, PickGUI, VerifyGUI, CopyGUI, SelfCheck, Leave, InstallerUnchanged
    <2> QED
      BY <1>2, <2>1, <2>2, <2>3, <2>4, <2>5, <2>6, <2>7 DEF Next
  <1> QED
    BY <1>1, <1>2

\* An extension is cut once, and stays cut.
LEMMA CutStays ==
    ASSUME Typed, [Next]_vars, ~cut'
    PROVE  ~cut
  BY CutStep DEF Accept, Fail, ListForPrune, Typed, RestTyped

\* The prune of a release waits for nothing while a release stashes.
LEMMA NoReleasePrune ==
    ASSUME Typed, job.pc \in Working
    PROVE  /\ pruning["release"].at = None /\ pruning["release"].left = {}
           /\ pruning["release"].part = 1
  <1>1. pruning["release"] = NoPrune
    BY DEF Typed, PruningShape, Working
  <1> QED
    BY <1>1 DEF NoPrune

\* A prune that is at the name being stashed is not there: StashApart.
LEMMA NotAtStash ==
    ASSUME Typed, StashApart, NEW t \in Targets, NEW v \in Versions, Stashing(t, v), NEW p \in Pruners
    PROVE  pruning[p].at # <<t, v>>
  <1>1. CASE p = "release"
    <2>1. <<t, v>> \in Names
      BY DEF Names
    <2> QED
      BY <1>1, <2>1, NoReleasePrune, Marks DEF Stashing
  <1>2. CASE p = "prune"
    BY <1>2 DEF StashApart, Removing
  <1> QED
    BY <1>1, <1>2 DEF Pruners

\* A removal, whose first part is the binary, changes no name that is still listed.
LEMMA RemovalSparesThePresent ==
    ASSUME Typed, BinaryFirst, NEW p \in Pruners, RemovePart(p)
    PROVE  \A t \in Targets : \A v \in Present(t)' :
               v \in Present(t) /\ files'[t][v] = files[t][v]
  <1> DEFINE n == pruning[p].at
             k == pruning[p].part
             part == RemovalOrder[k]
  <1>1. /\ n \in Names /\ n[1] \in Targets /\ n[2] \in Versions
        /\ part \in Parts /\ Replaced(n[1], n[2], part, None)
    BY RemoveEffect DEF RemovePart, Names
  <1>2. /\ k \in 1..3
        /\ part = "bin" <=> k = 1
    BY DEF RemovalOrder, Typed, RestTyped
  <1>3. \A t \in Targets, v \in Versions :
           /\ t # n[1] \/ v # n[2] => files'[t][v] = files[t][v]
           /\ files'[t][v].bin \in {None, files[t][v].bin}
    BY <1>1 DEF Replaced, Parts
  <1>4. files'[n[1]][n[2]].bin = None
    <2>1. CASE k = 1
      BY <1>1, <1>2, <2>1 DEF Replaced
    <2>2. CASE k > 1
      BY <1>1, <1>3, <2>2 DEF BinaryFirst
    <2> QED
      BY <1>2, <2>1, <2>2
  <1> QED
    BY <1>1, <1>3, <1>4 DEF Present

\* Every step keeps the order of writing and of removing.
LEMMA NextUncut ==
    ASSUME Typed, Typed', Uncut, [Next]_vars
    PROVE  Uncut'
  <1> SUFFICES ASSUME ~cut'
               PROVE  /\ SignedOrStashing' /\ StashApart' /\ BinaryFirst'
                      /\ job'.pc \in Working \ {"stash"} => Stashed(job.at)'
    BY DEF Uncut
  <1>1. /\ ~cut
        /\ SignedOrStashing /\ StashApart /\ BinaryFirst
        /\ job.pc \in Working \ {"stash"} => Stashed(job.at)
    BY CutStays DEF Uncut
  <1> DEFINE Goal == /\ SignedOrStashing' /\ StashApart' /\ BinaryFirst'
                     /\ job'.pc \in Working \ {"stash"} => Stashed(job.at)'
  <1>2. ASSUME NEW tool \in Tools, NEW by \in Signers, NEW dist \in Dists, NEW keep \in Keeps,
               Begin(tool, by, dist, keep)
        PROVE  Goal
    <2>1. /\ job.pc \notin Working /\ job'.pc = "stash" /\ job'.at = None
          /\ UNCHANGED files /\ UNCHANGED pruning
      BY <1>2 DEF Begin, Busy, Steps, NoJob, store
    <2>2. SignedOrStashing'
      BY <1>1, <2>1 DEF SignedOrStashing, Stashing, Present
    <2>3. StashApart'
      BY <2>1, Marks DEF StashApart, Stashing
    <2>4. BinaryFirst'
      BY <1>1, <2>1 DEF BinaryFirst
    <2> QED
      BY <2>1, <2>2, <2>3, <2>4
  <1>3. ASSUME NEW t \in Targets, Accept(t)
        PROVE  Goal
    <2>1. /\ job.pc = "stash" /\ UNCHANGED files /\ UNCHANGED pruning
          /\ ~Removing(<<t, job.tool.ver>>)
      BY <1>3 DEF Accept, store
    <2>2. SignedOrStashing'
      BY <1>1, <2>1 DEF SignedOrStashing, Present
    <2>3. BinaryFirst'
      BY <1>1, <2>1 DEF BinaryFirst
    <2>4. CASE job' = Failed
      <3>1. job'.pc \notin Working
        BY <2>4 DEF Failed, NoJob, Working
      <3> QED
        BY <2>2, <2>3, <3>1 DEF StashApart, Stashing
    <2>5. CASE job' # Failed
      <3>1. job' = [job EXCEPT !.pc = "binary", !.at = t, !.todo = @ \ {t}]
        BY <1>3, <2>5 DEF Accept
      <3>2. /\ job'.pc = "binary" /\ job'.at = t /\ job'.half = job.half
            /\ job'.tool = job.tool /\ job'.todo = job.todo \ {t}
        BY <3>1 DEF Typed, JobTyped, JobShape
      <3>3. ~job.half
        BY <2>1 DEF Typed, JobTyped, Progress, Working
      <3>4. StashApart'
        BY <2>1, <3>2 DEF StashApart, Stashing, Removing
      <3>5. Stashed(job.at)'
        BY <3>2, <3>3 DEF Stashed, Past
      <3> QED
        BY <2>2, <2>3, <3>4, <3>5
    <2> QED
      BY <2>4, <2>5
  <1>4. ASSUME StashBinary \/ StashSignature \/ StashMetadata
        PROVE  Goal
    <2> DEFINE u == job.at
               v == job.tool.ver
    <2>1. /\ job.pc \in {"binary", "signature", "metadata"}
          /\ u \in Targets /\ v \in Versions /\ UNCHANGED pruning
      BY <1>4, StashStep DEF Rest
    <2>2. /\ job'.at = u /\ job'.tool = job.tool /\ job'.half = ~job.half
          /\ job.half \in BOOLEAN
      BY <1>4, StashStep DEF Written, Typed, JobTyped, JobShape
    <2>3. Stashed(job.at)'
      <3>1. PICK t \in Targets : t = job.at
        BY <2>1
      <3>2. Stashed(t)
        BY <1>1, <2>1, <3>1 DEF Working
      <3>3. Stashed(t)'
        BY <1>4, <3>2, StashKeeps
      <3>4. job'.at = t
        BY <2>2, <3>1
      <3> QED
        BY <3>3, <3>4 DEF Stashed, Past
    <2>4. Stashing(u, v)
      BY <2>1 DEF Stashing, Working
    <2>5. StashApart'
      BY <1>1, <2>1, <2>2, <2>4 DEF StashApart, Stashing, Removing
    <2>6. \A t \in Targets, w \in Versions : t # u \/ w # v => files'[t][w] = files[t][w]
      BY <1>4, StashStep DEF Replaced
    <2>7. BinaryFirst'
      <3> SUFFICES ASSUME NEW p \in Pruners, pruning[p].part > 1
                   PROVE  files'[pruning[p].at[1]][pruning[p].at[2]].bin = None
        BY <2>1 DEF BinaryFirst
      <3>1. pruning[p].at \in Names /\ pruning[p].at # <<u, v>>
        BY <1>1, <2>1, <2>4, NotAtStash DEF Typed, RestTyped, PruningShape
      <3>2. pruning[p].at[1] # u \/ pruning[p].at[2] # v
        BY <3>1 DEF Names
      <3> QED
        BY <1>1, <2>6, <3>1, <3>2 DEF BinaryFirst, Names
    <2>8. SignedOrStashing'
      <3> SUFFICES ASSUME NEW t \in Targets, NEW w \in Present(t)'
                   PROVE  \/ files'[t][w].sig \in Sig /\ files'[t][w].sig.of = files'[t][w].bin
                          \/ Stashing(t, w)' /\ job'.pc \in {"binary", "signature"}
        BY DEF SignedOrStashing
      <3>1. w \in Versions /\ files'[t][w].bin # None
        BY DEF Present
      <3>2. CASE t # u \/ w # v
        <4>1. files'[t][w] = files[t][w] /\ w \in Present(t)
          BY <2>6, <3>1, <3>2 DEF Present
        <4>2. ~Stashing(t, w)
          BY <3>2 DEF Stashing
        <4> QED
          BY <1>1, <4>1, <4>2 DEF SignedOrStashing
      <3>3. CASE t = u /\ w = v /\ job'.pc \in {"binary", "signature"}
        BY <2>2, <3>3 DEF Stashing, Working
      <3>4. CASE t = u /\ w = v /\ job'.pc \notin {"binary", "signature"}
        <4>1. CASE StashBinary
          BY <1>4, <3>4, <4>1, StashStep DEF Written, Typed, JobTyped, JobShape
        <4>2. CASE StashSignature
          <5>1. /\ job.pc = "signature" /\ job'.pc = "metadata"
                /\ [of |-> job.dist[u], by |-> job.by] \in Sig
                /\ job'.dist = job.dist /\ job'.by = job.by /\ job'.todo = job.todo
                /\ u \in DOMAIN job.dist \ job.todo
            BY <3>4, <4>2, StashStep DEF Written, Typed, JobTyped, JobShape
          <5>2. /\ files'[u][v].sig = [of |-> job.dist[u], by |-> job.by]
                /\ files'[u][v].bin = job.dist[u]
            BY <2>2, <2>3, <5>1 DEF Stashed, Past
          <5> QED
            BY <3>4, <5>1, <5>2
        <4>3. CASE StashMetadata
          <5>1. /\ job.pc = "metadata"
                /\ files'[u][v].sig = files[u][v].sig /\ files'[u][v].bin = files[u][v].bin
            BY <4>3, StashStep DEF Replaced, Parts
          <5>2. v \in Present(u)
            BY <2>1, <3>1, <3>4, <5>1 DEF Present
          <5> QED
            BY <1>1, <2>1, <3>4, <5>1, <5>2 DEF SignedOrStashing
        <4> QED
          BY <1>4, <4>1, <4>2, <4>3
      <3> QED
        BY <3>2, <3>3, <3>4
    <2> QED
      BY <2>2, <2>3, <2>5, <2>7, <2>8
  <1>5. ASSUME Later \/ Fail
        PROVE  Goal
    <2>1. /\ UNCHANGED files /\ job.pc \notin Working /\ job'.pc \notin Working
      BY <1>5, LaterStep DEF Fail, Failed, NoJob, Working, store
    <2>2. SignedOrStashing'
      BY <1>1, <2>1 DEF SignedOrStashing, Stashing, Present, Working
    <2>3. StashApart'
      BY <2>1 DEF StashApart, Stashing
    <2>4. \A p \in Pruners :
             \/ pruning'[p].at = pruning[p].at /\ pruning'[p].part = pruning[p].part
             \/ pruning'[p].part = 1
      <3>1. CASE Fail
        BY <3>1 DEF Fail, NoPrune, Typed, RestTyped
      <3>2. CASE ListForRelease
        BY <3>2 DEF ListForRelease, Typed, RestTyped
      <3>3. CASE Later /\ ~ListForRelease
        BY <3>3 DEF Later, WriteKey, RaiseFloor, Pruned, WriteScript, SignScript, RecordScript, Rest
      <3> QED
        BY <1>5, <3>1, <3>2, <3>3
    <2>5. BinaryFirst'
      BY <1>1, <2>1, <2>4 DEF BinaryFirst
    <2> QED
      BY <2>1, <2>2, <2>3, <2>5
  <1>6. ASSUME UNCHANGED job, UNCHANGED files
        PROVE  SignedOrStashing' /\ (job'.pc \in Working \ {"stash"} => Stashed(job.at)')
    BY <1>1, <1>6 DEF SignedOrStashing, Stashing, Present, Stashed, Past
  <1>7. ASSUME UNCHANGED job, UNCHANGED files, UNCHANGED pruning
        PROVE  Goal
    BY <1>1, <1>6, <1>7 DEF StashApart, Stashing, Removing, BinaryFirst
  <1>8. ASSUME NEW keep \in Keeps, ListForPrune(keep)
        PROVE  Goal
    <2>1. /\ UNCHANGED job /\ UNCHANGED files
          /\ pruning' = [pruning EXCEPT !["prune"].left = Superseded(keep)]
          /\ ~(job.pc \in Working /\ <<job.at, job.tool.ver>> \in Superseded(keep))
      BY <1>8 DEF ListForPrune, store
    <2>2. /\ \A p \in Pruners : pruning'[p].at = pruning[p].at /\ pruning'[p].part = pruning[p].part
          /\ pruning'["prune"].left = Superseded(keep)
      BY <2>1 DEF Typed, RestTyped, Pruners
    <2>3. StashApart'
      BY <1>1, <2>1, <2>2 DEF StashApart, Stashing, Removing, Pruners
    <2>4. BinaryFirst'
      BY <1>1, <2>1, <2>2 DEF BinaryFirst
    <2> QED
      BY <1>6, <2>1, <2>3, <2>4
  <1>9. ASSUME NEW p \in Pruners, NEW n \in Names, Choose(p, n)
        PROVE  Goal
    <2>1. /\ UNCHANGED job /\ UNCHANGED files
          /\ pruning[p].at = None /\ n \in pruning[p].left /\ pruning[p].part = 1
          /\ pruning' = [pruning EXCEPT ![p].at = n, ![p].left = @ \ {n}]
      BY <1>9 DEF Choose, store, Typed, PruningShape
    <2>2. /\ \A q \in Pruners : q # p => pruning'[q] = pruning[q]
          /\ pruning'[p].at = n /\ pruning'[p].left = pruning[p].left \ {n}
          /\ pruning'[p].part = 1
      BY <2>1 DEF Typed, RestTyped
    <2>3. StashApart'
      BY <1>1, <2>1, <2>2 DEF StashApart, Stashing, Removing, Pruners
    <2>4. BinaryFirst'
      <3> SUFFICES ASSUME NEW q \in Pruners, pruning'[q].part > 1
                   PROVE  files'[pruning'[q].at[1]][pruning'[q].at[2]].bin = None
        BY DEF BinaryFirst
      <3>1. q # p
        BY <2>2
      <3> QED
        BY <1>1, <2>1, <2>2, <3>1 DEF BinaryFirst
    <2> QED
      BY <1>6, <2>1, <2>3, <2>4
  <1>10. ASSUME StopPruning
         PROVE  Goal
    <2>1. /\ UNCHANGED job /\ UNCHANGED files
          /\ pruning' = [pruning EXCEPT !["prune"] = NoPrune]
      BY <1>10 DEF StopPruning, store
    <2>2. /\ pruning'["prune"].at = None /\ pruning'["prune"].left = {}
          /\ pruning'["prune"].part = 1
          /\ \A q \in Pruners : q # "prune" => pruning'[q] = pruning[q]
      BY <2>1 DEF Typed, RestTyped, Pruners, NoPrune
    <2>3. \A t \in Targets, v \in Versions : <<t, v>> # None
      BY Marks DEF Names
    <2>4. StashApart'
      BY <2>2, <2>3 DEF StashApart, Removing
    <2>5. BinaryFirst'
      BY <1>1, <2>1, <2>2 DEF BinaryFirst
    <2> QED
      BY <1>6, <2>1, <2>4, <2>5
  <1>11. ASSUME NEW p \in Pruners, RemovePart(p)
         PROVE  Goal
    <2> DEFINE n == pruning[p].at
               k == pruning[p].part
               part == RemovalOrder[k]
    <2>1. UNCHANGED job /\ n \in Names /\ n[1] \in Targets /\ n[2] \in Versions
          /\ part \in Parts /\ Replaced(n[1], n[2], part, None)
      BY <1>11, RemoveEffect DEF RemovePart, Names
    <2>2. /\ k \in 1..3
          /\ part = "bin" <=> k = 1
          /\ part = "sig" => k > 1
      BY DEF RemovalOrder, Typed, RestTyped
    <2>3. \A t \in Targets, v \in Versions :
             /\ t # n[1] \/ v # n[2] => files'[t][v] = files[t][v]
             /\ files'[t][v].bin \in {None, files[t][v].bin}
      BY <2>1 DEF Replaced, Parts
    <2>5. \A t \in Targets : \A v \in Present(t)' :
             v \in Present(t) /\ files'[t][v] = files[t][v]
      BY <1>1, <1>11, RemovalSparesThePresent
    <2>6. SignedOrStashing'
      BY <1>1, <2>1, <2>5 DEF SignedOrStashing, Stashing
    <2>7. /\ \A q \in Pruners : q # p => pruning'[q] = pruning[q]
          /\ pruning'[p].left = pruning[p].left
          /\ pruning'[p].at \in {n, None}
          /\ pruning'[p].part > 1 => pruning'[p].at = n
      BY <1>11, <2>2, SMTT(40) DEF RemovePart, Typed, RestTyped
    <2>8. \A t \in Targets, v \in Versions : <<t, v>> # None
      BY Marks DEF Names
    <2>9. StashApart'
      BY <1>1, <2>1, <2>7, <2>8 DEF StashApart, Stashing, Removing, Pruners
    <2>10. BinaryFirst'
      <3> SUFFICES ASSUME NEW q \in Pruners, pruning'[q].part > 1
                   PROVE  files'[pruning'[q].at[1]][pruning'[q].at[2]].bin = None
        BY DEF BinaryFirst
      <3>1. CASE q = p
        <4>1. pruning'[q].at = n
          BY <2>7, <3>1
        <4>2. files'[n[1]][n[2]].bin = None
          <5>1. CASE k = 1
            BY <2>1, <2>2, <5>1 DEF Replaced
          <5>2. CASE k > 1
            BY <1>1, <2>1, <2>3, <5>2 DEF BinaryFirst
          <5> QED
            BY <2>2, <5>1, <5>2
        <4> QED
          BY <4>1, <4>2
      <3>2. CASE q # p
        <4> DEFINE m == pruning[q].at
        <4>1. pruning'[q] = pruning[q] /\ files[m[1]][m[2]].bin = None
          BY <1>1, <2>7, <3>2 DEF BinaryFirst
        <4>2. m[1] \in Targets /\ m[2] \in Versions
          BY <4>1 DEF Typed, PruningShape, RestTyped, Names
        <4> QED
          BY <2>3, <4>1, <4>2
      <3> QED
        BY <3>1, <3>2
    <2>11. job'.pc \in Working \ {"stash"} => Stashed(job.at)'
      <3> SUFFICES ASSUME job.pc \in Working \ {"stash"}
                   PROVE  Stashed(job.at)'
        BY <2>1
      <3>1. job.at \in Targets /\ job.tool.ver \in Versions
        BY DistType, VersionsAreFinite DEF Typed, JobTyped, Progress, Working
      <3>2. n # <<job.at, job.tool.ver>>
        BY <1>1, <3>1, NotAtStash DEF Stashing
      <3>3. n[1] # job.at \/ n[2] # job.tool.ver
        BY <2>1, <3>2 DEF Names
      <3>4. files'[job.at][job.tool.ver] = files[job.at][job.tool.ver]
        BY <2>3, <3>1, <3>3
      <3> QED
        BY <1>1, <2>1, <3>4 DEF Stashed, Past
    <2> QED
      BY <2>6, <2>9, <2>10, <2>11
  <1> QED
    BY <1>2, <1>3, <1>4, <1>5, <1>7, <1>8, <1>9, <1>10, <1>11, JobSteps, PruningStep DEF Later

\* Every step keeps each listed name beside a record of its commit.
LEMMA NextDescribed ==
    ASSUME Typed, Typed', Uncut, DescribedOrStashing, [Next]_vars
    PROVE  DescribedOrStashing'
  <1> SUFFICES ASSUME ~cut'
               PROVE  \A t \in Targets : \A v \in Present(t)' :
                         \/ Described(t, v)'
                         \/ Stashing(t, v)' /\ job'.pc \in {"binary", "signature", "metadata"}
    BY DEF DescribedOrStashing
  <1> DEFINE Goal == \A t \in Targets : \A v \in Present(t)' :
                        \/ Described(t, v)'
                        \/ Stashing(t, v)' /\ job'.pc \in {"binary", "signature", "metadata"}
  <1>1. /\ ~cut
        /\ BinaryFirst
        /\ job.pc \in Working \ {"stash"} => Stashed(job.at)
        /\ \A t \in Targets : \A v \in Present(t) :
              Described(t, v) \/ (Stashing(t, v) /\ job.pc \in {"binary", "signature", "metadata"})
    <2>1. ~cut
      BY CutStays
    <2>2. BinaryFirst /\ (job.pc \in Working \ {"stash"} => Stashed(job.at))
      BY <2>1 DEF Uncut
    <2>3. \A t \in Targets : \A v \in Present(t) :
             Described(t, v) \/ (Stashing(t, v) /\ job.pc \in {"binary", "signature", "metadata"})
      BY <2>1, Zenon DEF DescribedOrStashing
    <2> QED
      BY <2>1, <2>2, <2>3
  <1>2. ASSUME UNCHANGED files, job.pc \notin {"binary", "signature", "metadata"} \/ UNCHANGED job
        PROVE  Goal
    BY <1>1, <1>2 DEF Described, Stashing, Present, Working
  <1>3. ASSUME NEW tool \in Tools, NEW by \in Signers, NEW dist \in Dists, NEW keep \in Keeps,
               Begin(tool, by, dist, keep)
        PROVE  Goal
    <2>1. job.pc \notin {"binary", "signature", "metadata"} /\ UNCHANGED files
      BY <1>3 DEF Begin, Busy, Steps, Working, store
    <2> QED
      BY <1>2, <2>1
  <1>4. ASSUME NEW t \in Targets, Accept(t)
        PROVE  Goal
    <2>1. job.pc = "stash" /\ UNCHANGED files
      BY <1>4 DEF Accept, store
    <2> QED
      BY <1>2, <2>1
  <1>5. ASSUME StashBinary \/ StashSignature \/ StashMetadata
        PROVE  Goal
    <2> DEFINE u == job.at
               v == job.tool.ver
    <2>1. /\ job.pc \in {"binary", "signature", "metadata"}
          /\ u \in Targets /\ v \in Versions
      BY <1>5, StashStep DEF Rest
    <2>2. /\ job'.at = u /\ job'.tool = job.tool /\ job'.half = ~job.half
          /\ job.half \in BOOLEAN /\ job'.dist = job.dist /\ job'.by = job.by
      BY <1>5, StashStep DEF Written, Typed, JobTyped, JobShape
    <2>3. \A t \in Targets, w \in Versions : t # u \/ w # v => files'[t][w] = files[t][w]
      BY <1>5, StashStep DEF Replaced
    <2> SUFFICES ASSUME NEW t \in Targets, NEW w \in Present(t)'
                 PROVE  \/ Described(t, w)'
                        \/ Stashing(t, w)' /\ job'.pc \in {"binary", "signature", "metadata"}
      OBVIOUS
    <2>4. w \in Versions /\ files'[t][w].bin # None
      BY DEF Present
    <2>5. CASE t # u \/ w # v
      <3>1. files'[t][w] = files[t][w] /\ w \in Present(t)
        BY <2>3, <2>4, <2>5 DEF Present
      <3>2. ~Stashing(t, w)
        BY <2>5 DEF Stashing
      <3>3. Described(t, w)
        BY <1>1, <3>1, <3>2
      <3> QED
        BY <3>1, <3>3 DEF Described
    <2>6. CASE t = u /\ w = v /\ job'.pc \in {"binary", "signature", "metadata"}
      BY <2>2, <2>6 DEF Stashing, Working
    <2>7. CASE t = u /\ w = v /\ job'.pc \notin {"binary", "signature", "metadata"}
      <3>1. StashMetadata /\ job.pc = "metadata" /\ job.half
        BY <1>5, <2>1, <2>7, StashStep DEF Written, Typed, JobTyped, JobShape
      <3>2. /\ u \in DOMAIN job.dist \ job.todo /\ IsThisBuild(job.dist[u])
            /\ job.dist \in Dists /\ job.tool \in Tools
        BY <3>1, StashStep DEF Typed, JobTyped, JobShape, Progress, Working
      <3>3. Stashed(u)
        BY <1>1, <3>1 DEF Working
      <3>4. Stashed(u)'
        <4>1. PICK x \in Targets : x = u
          BY <2>1
        <4>2. Stashed(x)
          BY <3>3, <4>1
        <4>3. Stashed(x)'
          BY <1>5, <4>2, StashKeeps
        <4> QED
          BY <2>2, <4>1, <4>3 DEF Stashed, Past
      <3>5. job'.todo = job.todo
        BY <3>1, StashStep DEF Written, Typed, JobTyped, JobShape
      <3>6. /\ files'[u][v].bin = job.dist[u]
            /\ files'[u][v].json = [ver |-> job.tool.ver, rev |-> job.tool.rev]
        BY <2>2, <2>7, <3>2, <3>4, <3>5 DEF Stashed, Past
      <3>7. job.dist[u] \in Build /\ [ver |-> job.tool.ver, rev |-> job.tool.rev] \in Build
        BY <3>2, DistType, ToolBuilds
      <3> QED
        BY <2>7, <3>2, <3>6, <3>7 DEF Described, IsThisBuild
    <2> QED
      BY <2>5, <2>6, <2>7
  <1>6. ASSUME Later \/ Fail
        PROVE  Goal
    <2>1. UNCHANGED files /\ job.pc \notin Working
      BY <1>6, LaterStep DEF Fail, Failed, NoJob, Working, store
    <2> QED
      BY <1>2, <2>1 DEF Working
  <1>7. ASSUME NEW p \in Pruners, RemovePart(p)
        PROVE  Goal
    <2>1. UNCHANGED job
      BY <1>7 DEF RemovePart
    <2>2. \A t \in Targets : \A v \in Present(t)' :
             v \in Present(t) /\ files'[t][v] = files[t][v]
      BY <1>1, <1>7, RemovalSparesThePresent
    <2> QED
      BY <1>1, <2>1, <2>2 DEF Described, Stashing
  <1>8. CASE UNCHANGED job /\ UNCHANGED files
    BY <1>2, <1>8
  <1> QED
    BY <1>3, <1>4, <1>5, <1>6, <1>7, <1>8, JobSteps

---------------------------------------------------------------------------
\* The newest binary, and installer runs.

\* A removal takes nothing of the newest binary of any target, and adds nothing.
LEMMA RemovalSparesNewest ==
    ASSUME Typed, ListedAreOutlived, NEW p \in Pruners, RemovePart(p), NEW t \in Targets
    PROVE  /\ Present(t)' \subseteq Present(t)
           /\ \A v \in Versions : ~Newer(t, v) => files'[t][v] = files[t][v]
           /\ \A v \in Versions : files'[t][v].bin \in {files[t][v].bin, None}
  <1> DEFINE n == pruning[p].at
             part == RemovalOrder[pruning[p].part]
  <1>1. n \in Names /\ part \in Parts /\ Replaced(n[1], n[2], part, None)
    BY RemoveEffect
  <1>2. \A v \in Versions : files'[t][v].bin \in {files[t][v].bin, None}
    BY <1>1 DEF Replaced, Parts
  <1>3. Present(t)' \subseteq Present(t)
    BY <1>2 DEF Present
  <1>4. ASSUME NEW v \in Versions, ~Newer(t, v)
        PROVE  files'[t][v] = files[t][v]
    <2>1. t # n[1] \/ v # n[2]
      BY <1>1, <1>4 DEF ListedAreOutlived
    <2> QED
      BY <1>1, <2>1 DEF Replaced
  <1> QED
    BY <1>2, <1>3, <1>4

\* A step changes an installer run, or leaves it alone.
LEMMA InstallerSteps ==
    ASSUME [Next]_vars
    PROVE  \/ \E t \in Targets : Pick(t[2])
           \/ VerifyCLI \/ CopyCLI \/ PickGUI \/ VerifyGUI \/ CopyGUI \/ SelfCheck \/ Leave
           \/ UNCHANGED <<inst, installed>>
  <1>1. CASE UNCHANGED vars
    BY <1>1 DEF vars
  <1>2. CASE Next
    <2>1. /\ \A tool \in Tools, by \in Signers, dist \in Dists, keep \in Keeps :
                Begin(tool, by, dist, keep) => UNCHANGED <<inst, installed>>
          /\ \A t \in Targets : Accept(t) => UNCHANGED <<inst, installed>>
      BY DEF Begin, Accept
    <2>2. StashBinary \/ StashSignature \/ StashMetadata => UNCHANGED <<inst, installed>>
      BY DEF StashBinary, StashSignature, StashMetadata, Stash, Rest
    <2>3. WriteKey \/ RaiseFloor \/ ListForRelease \/ Pruned => UNCHANGED <<inst, installed>>
      BY DEF WriteKey, RaiseFloor, ListForRelease, Pruned, Rest
    <2>4. WriteScript \/ SignScript \/ RecordScript => UNCHANGED <<inst, installed>>
      BY DEF WriteScript, SignScript, RecordScript, Rest
    <2>5. /\ \A keep \in Keeps : ListForPrune(keep) => UNCHANGED <<inst, installed>>
          /\ \A p \in Pruners, n \in Names : Choose(p, n) => UNCHANGED <<inst, installed>>
          /\ \A p \in Pruners : RemovePart(p) => UNCHANGED <<inst, installed>>
          /\ StopPruning \/ Fail => UNCHANGED <<inst, installed>>
      BY DEF ListForPrune, Choose, RemovePart, StopPruning, Fail
    <2> QED
      BY <1>2, <2>1, <2>2, <2>3, <2>4, <2>5 DEF Next
  <1> QED
    BY <1>1, <1>2

\* While an installer runs and no release may, a step is a prune's or the
\* installer's.
LEMMA QuietStep ==
    ASSUME Quiet, Running, ~Busy, Typed, [Next]_vars
    PROVE  /\ UNCHANGED job /\ UNCHANGED <<key, script, floor, carried>>
           /\ UNCHANGED files \/ \E p \in Pruners : RemovePart(p)
  <1>1. \A tool \in Tools, by \in Signers, dist \in Dists, keep \in Keeps :
            ~Begin(tool, by, dist, keep)
    BY DEF Begin, Running
  <1>2. \A t \in Targets : ~Accept(t)
    BY DEF Accept, Busy, Steps, Working
  <1>3. ~StashBinary /\ ~StashSignature /\ ~StashMetadata
    BY DEF StashBinary, StashSignature, StashMetadata, Busy, Steps, Working
  <1>4. ~Later
    BY LaterStep DEF Busy
  <1>5. ~Fail
    BY DEF Fail
  <1> QED
    BY <1>1, <1>2, <1>3, <1>4, <1>5, JobSteps, StoreSteps DEF Later

\* What a completed release stashed of a target that nothing newer hides verifies.
LEMMA DoneVerifies ==
    ASSUME Typed, StashedOrOutlived, Published, job.pc = "done",
           NEW t \in DOMAIN job.dist, ~Newer(t, job.tool.ver)
    PROVE  /\ t \in Targets /\ job.dist[t] \in Build
           /\ files[t][job.tool.ver].bin = job.dist[t]
           /\ files[t][job.tool.ver].json = [ver |-> job.tool.ver, rev |-> job.tool.rev]
           /\ Verified(t, job.tool.ver, job.by)
  <1>1. job.dist \in Dists /\ job.todo = {}
    BY DEF Typed, JobTyped, Progress, Working
  <1>2. t \in Targets /\ job.dist[t] \in Build
    BY <1>1, DistType
  <1>3. Stashed(t)
    BY <1>2 DEF StashedOrOutlived
  <1> QED
    BY <1>1, <1>2, <1>3 DEF Stashed, Past, Verified, Published

\* The newest of a target is what Top says.
LEMMA TopIsNewest ==
    ASSUME Typed, NEW t \in Targets, Present(t) # {}, job.tool.ver \in Versions
    PROVE  Newest(t) = job.tool.ver <=> Top(t)
  <1>1. /\ Newest(t) \in Present(t) /\ \A w \in Present(t) : w <= Newest(t)
        /\ Present(t) \subseteq Nat /\ job.tool.ver \in Nat
    BY NewestIsLargest, VersionsAreFinite DEF Present
  <1> QED
    BY <1>1 DEF Top, Newer

\* A signature that verifies is of a build.
LEMMA VerifiedIsBuild ==
    ASSUME Typed, NEW t \in Targets, NEW v \in Versions, NEW pin \in Signers, Verified(t, v, pin)
    PROVE  files[t][v].bin \in Build
  <1>1. files[t][v].bin \in Build \cup {None, Torn} /\ files[t][v].sig \in Sig \cup {None, Torn}
    BY DEF Typed, RestTyped, Artifact
  <1>2. files[t][v].sig \in AnySig
    BY <1>1 DEF Verified, AnySig
  <1>3. files[t][v].sig \in Sig
    BY <1>1, <1>2, Marks
  <1> QED
    BY <1>3 DEF Verified, Sig


\* The newest binary of a target the floor was raised for is one the floor accepts.
LEMMA PickedIsDue ==
    ASSUME Typed, FloorIsCarried, NEW t \in Targets, Present(t) # {}, t \in carried
    PROVE  Newest(t) >= floor
  <1>1. PICK v \in Present(t) : v >= floor
    BY DEF FloorIsCarried
  <1>2. /\ Newest(t) \in Present(t) /\ v <= Newest(t)
        /\ Present(t) \subseteq Nat /\ floor \in Nat
    BY NewestIsLargest, VersionsAreFinite DEF Present, Typed, RestTyped
  <1> QED
    BY <1>1, <1>2

\* What a sound run over this platform, with this key, these picks and at this
\* step, may count on.
Sure(plat, pin, ver, gui, pc) ==
    LET cli == <<"angou", plat>>
        win == <<"angou-gui", plat>>
    IN  /\ pc \notin {"died", "warned"}
        /\ job.pc = "done" /\ pin = job.by
        /\ cli \in DOMAIN job.dist /\ ver = job.tool.ver /\ Top(cli)
        /\ win \in Targets /\ Present(win) # {} => win \in DOMAIN job.dist /\ Top(win)
        /\ pc \in {"verifyGui", "copyGui"} =>
              win \in DOMAIN job.dist /\ Top(win) /\ gui = job.tool.ver

\* SoundInv says it of the run under way.
LEMMA SoundIsSure ==
    SoundInv <=> (Quiet /\ Running /\ inst.sound =>
                     Sure(inst.plat, inst.pin, inst.ver, inst.gui, inst.pc))
  BY DEF SoundInv, Sure, CLI, GUI

\* While an installer runs, the store changes under it only by removals, which
\* leave what a sound run counts on.
LEMMA UnderARun ==
    ASSUME Typed, ListedAreOutlived, InstallerInv, Quiet, Running, [Next]_vars
    PROVE  /\ ~Busy /\ ~Busy' /\ UNCHANGED job /\ UNCHANGED <<key, script, floor, carried>>
           /\ \A t \in Targets, v \in Versions :
                 files'[t][v].bin \in {files[t][v].bin, None}
           /\ \A plat, pin, ver, gui, pc :
                 Sure(plat, pin, ver, gui, pc) => Sure(plat, pin, ver, gui, pc)'
  <1>1. ~Busy
    BY DEF InstallerInv
  <1>2. /\ UNCHANGED job /\ UNCHANGED <<key, script, floor, carried>>
        /\ UNCHANGED files \/ \E p \in Pruners : RemovePart(p)
    BY <1>1, QuietStep
  <1>3. ~Busy'
    BY <1>1, <1>2 DEF Busy
  <1>4. \A t \in Targets :
           /\ Present(t)' \subseteq Present(t)
           /\ \A v \in Versions : ~Newer(t, v) => files'[t][v] = files[t][v]
           /\ \A v \in Versions : files'[t][v].bin \in {files[t][v].bin, None}
    <2>1. CASE UNCHANGED files
      BY <2>1 DEF Present
    <2>2. CASE \E p \in Pruners : RemovePart(p)
      BY <2>2, RemovalSparesNewest
    <2> QED
      BY <1>2, <2>1, <2>2
  <1>5. ASSUME NEW t \in Targets, Top(t)
        PROVE  Top(t)'
    <2>1. job.tool.ver \in Present(t) /\ job.tool.ver \in Versions /\ ~Newer(t, job.tool.ver)
      BY <1>5 DEF Top, Present
    <2>2. job.tool.ver \in Present(t)'
      BY <1>4, <2>1 DEF Present
    <2>3. ~Newer(t, job.tool.ver)'
      BY <1>2, <1>4, <2>1 DEF Newer
    <2> QED
      BY <1>2, <2>2, <2>3 DEF Top
  <1>6. ASSUME NEW plat, NEW pin, NEW ver, NEW gui, NEW pc, Sure(plat, pin, ver, gui, pc)
        PROVE  Sure(plat, pin, ver, gui, pc)'
    <2>1. job.dist \in Dists
      BY <1>6 DEF Sure, Typed, JobTyped
    <2>2. DOMAIN job.dist \subseteq Targets
      BY <2>1, DistType
    <2> DEFINE win == <<"angou-gui", plat>>
    <2>3. win \in Targets /\ Present(win)' # {} => win \in DOMAIN job.dist /\ Top(win)
      BY <1>4, <1>6 DEF Sure
    <2> QED
      BY <1>2, <1>5, <1>6, <2>2, <2>3 DEF Sure
  <1> QED
    BY <1>1, <1>2, <1>3, <1>4, <1>6

\* A run begins with what the inductive invariant says of it.
LEMMA PickStarts ==
    ASSUME Typed, Published, FloorIsCarried, InstallerInv, Quiet, NEW plat, Pick(plat)
    PROVE  InstallerInv' /\ SoundInv'
  <1> DEFINE cli == <<"angou", plat>>
             gui == <<"angou-gui", plat>>
             pin == script["sh"].text.pin
  <1>1. /\ ~Busy /\ script["sh"].text \in Text /\ cli \in Targets /\ Present(cli) # {}
        /\ UNCHANGED installed /\ UNCHANGED job /\ UNCHANGED <<files, floor, carried>>
        /\ inst.pc = "idle"
        /\ inst' = [NoRun EXCEPT
              !.pc = "verify", !.plat = plat, !.pin = pin,
              !.ver = Newest(cli), !.floor = floor, !.due = cli \in carried,
              !.sound = Settled(cli) /\ (gui \in Targets /\ Present(gui) # {} => Settled(gui))]
    BY DEF Pick, InstallerUnchanged, store
  <1>2. /\ inst'.pc = "verify" /\ inst'.plat = plat /\ inst'.pin = pin
        /\ inst'.ver = Newest(cli) /\ inst'.floor = floor
        /\ inst'.due = (cli \in carried)
        /\ inst'.sound = (Settled(cli) /\ (gui \in Targets /\ Present(gui) # {} => Settled(gui)))
    BY <1>1 DEF NoRun
  <1>3. pin \in Signers
    BY <1>1 DEF Text
  <1>4. ~Busy' /\ installed'["angou"] = None
    BY <1>1 DEF Busy, InstallerInv
  <1>5. inst'.due => inst'.ver >= inst'.floor
    BY <1>1, <1>2, PickedIsDue
  <1>6. InstallerInv'
    BY <1>2, <1>3, <1>4, <1>5 DEF InstallerInv
  <1>7. ASSUME NEW t \in Targets, Settled(t)
        PROVE  Top(t) /\ Newest(t) = job.tool.ver /\ t \in DOMAIN job.dist /\ job.pc = "done"
    <2>1. job.tool.ver \in Versions
      BY <1>7, VersionsAreFinite DEF Settled, Typed, JobTyped
    <2> QED
      BY <1>7, <2>1, TopIsNewest DEF Settled
  <1>8. job.pc = "done" => pin = job.by
    BY DEF Published, Wrote, Installer, Scripts
  <1>9. inst'.sound => Sure(plat, pin, Newest(cli), 0, "verify")
    BY <1>1, <1>2, <1>7, <1>8 DEF Sure
  <1>10. SoundInv'
    <2>1. /\ inst'.sound => Top(cli)' /\ (gui \in Targets /\ Present(gui)' # {} => Top(gui)')
      BY <1>1, <1>9 DEF Sure, Top, Present, Newer
    <2>2. Present(gui)' = Present(gui)
      BY <1>1 DEF Present
    <2> QED
      BY <1>1, <1>2, <1>9, <2>1, <2>2 DEF SoundInv, Sure, CLI, GUI
  <1> QED
    BY <1>6, <1>10

\* The steps of a run change its step and its pick of the GUI only.
LEMMA RunSteps ==
    ASSUME Typed
    PROVE  \A pc, gui : inst' \in {[inst EXCEPT !.pc = pc], [inst EXCEPT !.pc = pc, !.gui = gui]} =>
               /\ inst'.pc = pc
               /\ inst'.plat = inst.plat /\ inst'.pin = inst.pin /\ inst'.ver = inst.ver
               /\ inst'.floor = inst.floor /\ inst'.due = inst.due /\ inst'.sound = inst.sound
  BY DEF Typed, InstShape

\* A run that is sound stays so, if the step it takes is one Sure allows.
LEMMA StaysSure ==
    ASSUME Typed, ListedAreOutlived, InstallerInv, SoundInv, Quiet, Running, [Next]_vars,
           /\ inst'.plat = inst.plat /\ inst'.pin = inst.pin /\ inst'.ver = inst.ver
           /\ inst'.sound = inst.sound,
           inst.sound => inst'.pc \notin {"died", "warned"},
           inst.sound /\ inst'.pc \in {"verifyGui", "copyGui"} =>
               GUI \in DOMAIN job.dist /\ Top(GUI) /\ inst'.gui = job.tool.ver
    PROVE  SoundInv'
  <1> SUFFICES ASSUME inst.sound
               PROVE  SoundInv'
    BY DEF SoundInv
  <1>1. Sure(inst.plat, inst.pin, inst.ver, inst.gui, inst.pc)
    BY SoundIsSure
  <1> DEFINE gui == <<"angou-gui", inst.plat>>
  <1>2. PICK plat, pin, ver, new, pc :
            /\ plat = inst.plat /\ pin = inst.pin /\ ver = inst.ver
            /\ new = inst'.gui /\ pc = inst'.pc
    OBVIOUS
  <1>3. Sure(plat, pin, ver, new, pc)
    BY <1>1, <1>2 DEF Sure, GUI
  <1>4. Sure(plat, pin, ver, new, pc)'
    BY <1>3, UnderARun
  <1> QED
    BY <1>2, <1>4 DEF Sure, SoundInv, CLI, GUI

\* What a step of a run that installs nothing, and moves on from the verification
\* of the CLI, keeps.
LEMMA MovesOn ==
    ASSUME Typed, ListedAreOutlived, InstallerInv, Quiet, Running, [Next]_vars,
           /\ inst'.plat = inst.plat /\ inst'.pin = inst.pin /\ inst'.ver = inst.ver
           /\ inst'.floor = inst.floor /\ inst'.due = inst.due,
           UNCHANGED installed,
           inst'.pc \notin {"idle", "verify", "copy"}
    PROVE  InstallerInv'
  BY UnderARun DEF InstallerInv, Running

\* The steps of a run keep what is true of it.
LEMMA RunKeeps ==
    ASSUME Typed, Typed', ListedAreOutlived, StashedOrOutlived, Published, CommitsKept,
           InstallerInv, SoundInv, Quiet, Running, [Next]_vars
    PROVE  InstallerInv' /\ SoundInv'
  <1>0. /\ ~Busy /\ ~Busy' /\ UNCHANGED job /\ UNCHANGED <<key, script, floor, carried>>
        /\ \A t \in Targets, v \in Versions : files'[t][v].bin \in {files[t][v].bin, None}
    BY UnderARun
  <1>1. /\ CLI \in Targets /\ inst.ver \in Versions /\ inst.pin \in Signers
        /\ inst.due => inst.ver >= inst.floor
    BY DEF Typed, InstShape, InstallerInv, Running
  <1>2. inst.sound => Sure(inst.plat, inst.pin, inst.ver, inst.gui, inst.pc)
    BY SoundIsSure
  <1>3. inst.sound => /\ Verified(CLI, inst.ver, inst.pin)
                      /\ files[CLI][inst.ver].bin \in Build
    BY <1>2, DoneVerifies DEF Sure, Top, CLI
  <1>4. inst.sound /\ inst.pc \in {"verifyGui", "copyGui"} =>
            /\ Verified(GUI, inst.gui, inst.pin)
            /\ files[GUI][inst.gui].bin \in Build
            /\ GUI \in DOMAIN job.dist /\ Top(GUI) /\ inst.gui = job.tool.ver
    BY <1>2, DoneVerifies DEF Sure, Top, GUI
  <1>5. CASE VerifyCLI
    <2>1. /\ inst.pc = "verify"
          /\ inst' = [inst EXCEPT !.pc = IF Verified(CLI, inst.ver, inst.pin) THEN "copy" ELSE "died"]
          /\ UNCHANGED installed /\ UNCHANGED files
      BY <1>5 DEF VerifyCLI, End, InstallerUnchanged, store
    <2>2. inst'.pc = IF Verified(CLI, inst.ver, inst.pin) THEN "copy" ELSE "died"
      BY <2>1, RunSteps
    <2>3. /\ inst'.plat = inst.plat /\ inst'.pin = inst.pin /\ inst'.ver = inst.ver
          /\ inst'.floor = inst.floor /\ inst'.due = inst.due /\ inst'.sound = inst.sound
      BY <2>1, RunSteps
    <2>4. inst'.pc = "copy" => files[CLI][inst.ver].bin \in Build
      BY <1>1, <2>2, VerifiedIsBuild
    <2>5. InstallerInv'
      BY <1>0, <1>1, <2>1, <2>2, <2>3, <2>4 DEF InstallerInv, CLI, Running
    <2>6. inst.sound => inst'.pc = "copy"
      BY <1>3, <2>2
    <2>7. SoundInv'
      BY <2>2, <2>3, <2>6, StaysSure
    <2> QED
      BY <2>5, <2>7
  <1>6. CASE CopyCLI
    <2>1. /\ inst.pc = "copy" /\ UNCHANGED files
          /\ inst' = [inst EXCEPT !.pc = IF files[CLI][inst.ver].bin = None THEN "died" ELSE "pickGui"]
          /\ installed' = IF files[CLI][inst.ver].bin = None THEN installed
                          ELSE [installed EXCEPT !["angou"] = files[CLI][inst.ver].bin]
      BY <1>6 DEF CopyCLI, End, InstallerUnchanged, store
    <2>2. /\ inst'.plat = inst.plat /\ inst'.pin = inst.pin /\ inst'.ver = inst.ver
          /\ inst'.floor = inst.floor /\ inst'.due = inst.due /\ inst'.sound = inst.sound
          /\ inst'.pc = IF files[CLI][inst.ver].bin = None THEN "died" ELSE "pickGui"
      BY <2>1, RunSteps
    <2>3. files[CLI][inst.ver].bin \in Build \cup {None} /\ installed["angou"] = None
      BY <2>1 DEF InstallerInv
    <2>4. installed' # installed => /\ installed'["angou"] = files[CLI][inst.ver].bin
                                    /\ installed'["angou"] \in Build
      BY <2>1, <2>3 DEF Typed, RestTyped
    <2>5. installed'["angou"] # None =>
             /\ installed'["angou"] \in Build
             /\ OfVersion(installed'["angou"], inst.ver)
      BY <1>1, <2>3, <2>4 DEF CommitsKept
    <2>6. InstallerInv'
      BY <1>0, <1>1, <2>2, <2>5 DEF InstallerInv, Running
    <2>7. inst.sound => inst'.pc = "pickGui"
      BY <1>3, <2>2, Marks
    <2>8. SoundInv'
      BY <2>2, <2>7, StaysSure
    <2> QED
      BY <2>6, <2>8
  <1>7. CASE PickGUI
    <2> DEFINE none == GUI \notin Targets \/ Present(GUI) = {}
    <2>1. /\ inst.pc = "pickGui" /\ UNCHANGED installed
          /\ inst' = IF none THEN [inst EXCEPT !.pc = "check"]
                     ELSE [inst EXCEPT !.pc = "verifyGui", !.gui = Newest(GUI)]
      BY <1>7 DEF PickGUI
    <2> HIDE DEF none
    <2>2. inst'.pc = IF none THEN "check" ELSE "verifyGui"
      BY <2>1 DEF Typed, InstShape
    <2>3. /\ inst'.plat = inst.plat /\ inst'.pin = inst.pin /\ inst'.ver = inst.ver
          /\ inst'.floor = inst.floor /\ inst'.due = inst.due /\ inst'.sound = inst.sound
      BY <2>1 DEF Typed, InstShape
    <2>4. ~none => inst'.gui = Newest(GUI)
      BY <2>1 DEF Typed, InstShape
    <2>5. InstallerInv'
      BY <2>1, <2>2, <2>3, MovesOn
    <2>6. inst.sound /\ ~none => GUI \in DOMAIN job.dist /\ Top(GUI) /\ Newest(GUI) = job.tool.ver
      <3>1. inst.sound /\ ~none => GUI \in DOMAIN job.dist /\ Top(GUI) /\ job.tool.ver \in Versions
        BY <1>2 DEF Sure, GUI, Top, Present, none
      <3> QED
        BY <3>1, TopIsNewest DEF none
    <2>7. SoundInv'
      BY <2>2, <2>3, <2>4, <2>6, StaysSure
    <2> QED
      BY <2>5, <2>7
  <1>8. CASE VerifyGUI
    <2>1. /\ inst.pc = "verifyGui" /\ UNCHANGED installed
          /\ inst' = [inst EXCEPT !.pc = IF Verified(GUI, inst.gui, inst.pin) THEN "copyGui" ELSE "died"]
      BY <1>8 DEF VerifyGUI, End
    <2>2. /\ inst'.plat = inst.plat /\ inst'.pin = inst.pin /\ inst'.ver = inst.ver
          /\ inst'.floor = inst.floor /\ inst'.due = inst.due /\ inst'.sound = inst.sound
          /\ inst'.pc = IF Verified(GUI, inst.gui, inst.pin) THEN "copyGui" ELSE "died"
      BY <2>1, RunSteps
    <2>3. inst'.gui = inst.gui
      BY <2>1 DEF Typed, InstShape
    <2>4. InstallerInv'
      BY <2>1, <2>2, MovesOn
    <2>5. SoundInv'
      BY <1>4, <2>1, <2>2, <2>3, StaysSure
    <2> QED
      BY <2>4, <2>5
  <1>9. CASE CopyGUI
    <2>1. /\ inst.pc = "copyGui"
          /\ inst' = [inst EXCEPT !.pc = IF files[GUI][inst.gui].bin = None THEN "died" ELSE "check"]
          /\ installed' = IF files[GUI][inst.gui].bin = None THEN installed
                          ELSE [installed EXCEPT !["angou-gui"] = files[GUI][inst.gui].bin]
      BY <1>9 DEF CopyGUI, End
    <2>2. /\ inst'.plat = inst.plat /\ inst'.pin = inst.pin /\ inst'.ver = inst.ver
          /\ inst'.floor = inst.floor /\ inst'.due = inst.due /\ inst'.sound = inst.sound
          /\ inst'.pc = IF files[GUI][inst.gui].bin = None THEN "died" ELSE "check"
      BY <2>1, RunSteps
    <2>3. installed'["angou"] = installed["angou"]
      BY <2>1 DEF Typed, RestTyped
    <2>4. InstallerInv'
      BY <1>0, <2>1, <2>2, <2>3 DEF InstallerInv, Running
    <2>5. inst.sound => inst'.pc = "check"
      BY <1>4, <2>1, <2>2, Marks
    <2>6. SoundInv'
      BY <2>2, <2>5, StaysSure
    <2> QED
      BY <2>4, <2>6
  <1>10. CASE SelfCheck
    <2> DEFINE good == \/ script["sh"].sig = None
                       \/ /\ script["sh"].sig = [of |-> script["sh"].text, by |-> inst.pin]
                          /\ key = inst.pin
    <2>1. /\ inst.pc = "check" /\ UNCHANGED installed
          /\ inst' = [inst EXCEPT !.pc = IF good THEN "ended" ELSE "warned"]
      BY <1>10 DEF SelfCheck, End
    <2>2. /\ inst'.plat = inst.plat /\ inst'.pin = inst.pin /\ inst'.ver = inst.ver
          /\ inst'.floor = inst.floor /\ inst'.due = inst.due /\ inst'.sound = inst.sound
          /\ inst'.pc = IF good THEN "ended" ELSE "warned"
      BY <2>1, RunSteps
    <2>3. InstallerInv'
      BY <2>1, <2>2, MovesOn
    <2>4. inst.sound => good
      BY <1>2 DEF Sure, Published, Wrote, Signed, Scripts
    <2>5. SoundInv'
      BY <2>2, <2>4, StaysSure
    <2> QED
      BY <2>3, <2>5
  <1>11. CASE Leave
    <2>1. inst'.pc = "idle" /\ installed'["angou"] = None
      BY <1>11 DEF Leave, NoRun
    <2> QED
      BY <2>1 DEF InstallerInv, SoundInv, Running
  <1>12. CASE UNCHANGED <<inst, installed>>
    <2>1. SoundInv'
      BY <1>4, <1>12, StaysSure DEF Typed, InstShape, SoundInv
    <2>2. inst'.pc = "copy" => files'[CLI][inst.ver].bin \in Build \cup {None}
      BY <1>0, <1>1, <1>12 DEF InstallerInv
    <2>3. InstallerInv'
      BY <1>0, <1>12, <2>2 DEF InstallerInv, Running, CLI
    <2> QED
      BY <2>1, <2>3
  <1> QED
    BY <1>5, <1>6, <1>7, <1>8, <1>9, <1>10, <1>11, <1>12, InstallerSteps DEF Pick, Running

\* Every step keeps what is true of installer runs.
LEMMA NextInstaller ==
    ASSUME Typed, Typed', ListedAreOutlived, StashedOrOutlived, Published, FloorIsCarried,
           CommitsKept, InstallerInv, SoundInv, [Next]_vars
    PROVE  InstallerInv' /\ SoundInv'
  <1>1. CASE ~Quiet
    BY <1>1 DEF InstallerInv, SoundInv
  <1>2. CASE Quiet /\ Running
    BY <1>2, RunKeeps
  <1>3. CASE Quiet /\ ~Running
    <2>1. CASE \E t \in Targets : Pick(t[2])
      BY <1>3, <2>1, PickStarts
    <2>2. CASE UNCHANGED <<inst, installed>>
      BY <1>3, <2>2 DEF InstallerInv, SoundInv, Running
    <2> QED
      BY <1>3, <2>1, <2>2, InstallerSteps
         DEF Running, VerifyCLI, CopyCLI, PickGUI, VerifyGUI, CopyGUI, SelfCheck, Leave
  <1> QED
    BY <1>1, <1>2, <1>3

---------------------------------------------------------------------------
\* The inductive invariant.

\* It holds of an empty store.
LEMMA InitIInv == Init => IInv
  <1> SUFFICES ASSUME Init PROVE IInv
    OBVIOUS
  <1>1. Typed
    BY InitTyped
  <1>2. /\ job.pc = "none" /\ inst.pc = "idle" /\ carried = {}
        /\ installed["angou"] = None
        /\ \A t \in Targets, v \in Versions : files[t][v].bin = None
        /\ \A p \in Pruners : /\ pruning[p].left = {} /\ pruning[p].at = None
                              /\ pruning[p].part = 1
    BY DEF Init, NoJob, NoRun, NoArtifact, NoPrune
  <1>3. ListedAreOutlived
    BY <1>2, Marks DEF ListedAreOutlived
  <1>4. StashedOrOutlived /\ Published
    BY <1>2 DEF StashedOrOutlived, Published, Wrote, Signed, Noted
  <1>5. FloorIsCarried /\ CommitsKept
    BY <1>2, Marks DEF FloorIsCarried, CommitsKept
  <1>6. SignedOrStashing /\ StashApart /\ BinaryFirst
    BY <1>2 DEF SignedOrStashing, StashApart, BinaryFirst, Present, Stashing, Working
  <1>7. Uncut
    BY <1>2, <1>6 DEF Uncut, Working
  <1>9. DescribedOrStashing
    BY <1>2 DEF DescribedOrStashing, Present
  <1>8. InstallerInv /\ SoundInv
    BY <1>2 DEF InstallerInv, SoundInv, Running
  <1> QED
    BY <1>1, <1>3, <1>4, <1>5, <1>7, <1>8, <1>9, TypedParts DEF IInv

\* Every step keeps it.
LEMMA NextIInv == IInv /\ [Next]_vars => IInv'
  <1> SUFFICES ASSUME IInv, [Next]_vars PROVE IInv'
    OBVIOUS
  <1>1. /\ Typed
        /\ ListedAreOutlived /\ StashedOrOutlived /\ Published /\ FloorIsCarried /\ CommitsKept
        /\ Uncut /\ DescribedOrStashing /\ InstallerInv /\ SoundInv
    BY TypedParts DEF IInv
  <1>2. Typed'
    BY <1>1, NextTyped
  <1>3. TypeOK' /\ JobShape' /\ InstShape' /\ PruningShape' /\ Progress'
    BY <1>2 DEF Typed, JobTyped, RestTyped, TypeOK, JobShape
  <1>4. ListedAreOutlived'
    BY <1>1, <1>2, NextOutlived
  <1>5. StashedOrOutlived'
    BY <1>1, <1>2, NextStashed
  <1>6. Published'
    BY <1>1, NextPublished
  <1>7. FloorIsCarried'
    BY <1>1, NextFloorIsCarried
  <1>8. CommitsKept'
    BY <1>1, NextCommitsKept
  <1>9. Uncut'
    BY <1>1, <1>2, NextUncut
  <1>10. InstallerInv' /\ SoundInv'
    BY <1>1, <1>2, NextInstaller
  <1>11. DescribedOrStashing'
    BY <1>1, <1>2, NextDescribed
  <1> QED
    BY <1>3, <1>4, <1>5, <1>6, <1>7, <1>8, <1>9, <1>10, <1>11 DEF IInv

\* So it holds of every reachable state.
LEMMA IInvAlways == Spec => []IInv
  <1>1. Init => IInv
    BY InitIInv
  <1>2. IInv /\ [Next]_vars => IInv'
    BY NextIInv
  <1> QED
    BY <1>1, <1>2, PTL DEF Spec

---------------------------------------------------------------------------
\* What it says of the program.

\* Publishing, pruning and installing, at any point of each, leave the store's
\* bootstrap/ directory and the machine in a state of the declared types.
THEOREM TypeCorrect == Spec => []TypeOK
  <1>1. IInv => TypeOK
    BY DEF IInv
  <1> QED
    BY <1>1, IInvAlways, PTL

\* A prune, a release's own or the command's, never takes the newest binary of a
\* kind and platform nor what is beside it (release.Prune), however many releases
\* have published since it made its list and wherever they are.
THEOREM RetentionSparesTheNewest == Spec => NewestStays
  <1>1. ASSUME IInv, [Next]_vars
        PROVE  [\A p \in Pruners : RemovePart(p) =>
                  \A t \in Targets : \A v \in Present(t) :
                     (\A w \in Present(t) : w <= v) => files'[t][v] = files[t][v]]_vars
    <2>1. Typed /\ ListedAreOutlived
      BY <1>1, TypedParts DEF IInv
    <2> SUFFICES ASSUME NEW p \in Pruners, RemovePart(p), NEW t \in Targets,
                        NEW v \in Present(t), \A w \in Present(t) : w <= v
                 PROVE  files'[t][v] = files[t][v]
      OBVIOUS
    <2>2. v \in Versions /\ Present(t) \subseteq Nat /\ v \in Nat
      BY VersionsAreFinite DEF Present
    <2>3. ~Newer(t, v)
      BY <2>2 DEF Newer
    <2> QED
      BY <2>1, <2>2, <2>3, RemovalSparesNewest
  <1> QED
    BY <1>1, IInvAlways, PTL DEF Spec, NewestStays

\* Wherever a store's floor locks older binaries out (core.StashRelease raises it
\* before it prunes), the store carries, for each target of the release that
\* raised it, a binary the floor accepts.
THEOREM FloorAlwaysCarried == Spec => []FloorIsCarried
  <1>1. IInv => FloorIsCarried
    BY DEF IInv
  <1> QED
    BY <1>1, IInvAlways, PTL

\* Where no release was killed while it stashed, and none stashed a name a prune
\* was taking away, each binary in the store has beside it a record of its own
\* name and of the commit it was built from (stashOne), over whatever releases of
\* the same version, refusals and prunes came before; a tool that carries no
\* commit records none.
THEOREM RecordsAreTrue == Spec => []RecordIsTrue
  <1>1. IInv => RecordIsTrue
    BY DEF IInv, DescribedOrStashing, Described, Stashing, Working, RecordIsTrue
  <1> QED
    BY <1>1, IInvAlways, PTL

\* When StashRelease reports success, both installers are the ones it made, signed
\* and recorded, and the key beside the binaries is the one it signed with.
THEOREM ReleasesAreConsistent == Spec => []CompletedReleaseIsConsistent
  <1>1. ASSUME IInv, job.pc = "done"
        PROVE  /\ key = job.by
               /\ \A s \in Scripts :
                     /\ script[s].text.pin = key
                     /\ script[s].sig = [of |-> script[s].text, by |-> key]
                     /\ Digested(s)
    BY <1>1 DEF IInv, Published, Wrote, Signed, Noted, Installer, Digested
  <1>2. IInv => CompletedReleaseIsConsistent
    BY <1>1 DEF CompletedReleaseIsConsistent
  <1> QED
    BY <1>2, IInvAlways, PTL

\* When StashRelease reports success, each of its binaries that nothing newer hides
\* verifies under its key and is described by its record (stashOne), whatever
\* earlier releases left half done and whatever has been pruned.
THEOREM ReleasesVerify == Spec => []CompletedReleaseVerifies
  <1>1. ASSUME IInv, job.pc = "done", NEW t \in DOMAIN job.dist, Settled(t)
        PROVE  /\ Verified(t, job.tool.ver, job.by)
               /\ files[t][job.tool.ver].bin = job.dist[t]
               /\ files[t][job.tool.ver].json = [ver |-> job.tool.ver, rev |-> job.tool.rev]
    <2>1. Typed /\ StashedOrOutlived /\ Published
      BY <1>1, TypedParts DEF IInv
    <2>2. t \in Targets /\ job.tool.ver \in Versions
      BY <1>1, <2>1, DistType, VersionsAreFinite DEF Typed, JobTyped
    <2>3. ~Newer(t, job.tool.ver)
      BY <1>1, <2>1, <2>2, TopIsNewest DEF Settled, Top
    <2> QED
      BY <1>1, <2>1, <2>3, DoneVerifies
  <1>2. IInv => CompletedReleaseVerifies
    BY <1>1 DEF CompletedReleaseVerifies
  <1> QED
    BY <1>2, IInvAlways, PTL

\* Where no release was killed while it stashed, and none stashed a name a prune
\* was taking away, no binary lacks its signature once the stash is over: neither
\* a release that is refused nor a prune that stops half way leaves one.
THEOREM UnsignedMeansInterrupted == Spec => []OnlyInterruptionsUnsign
  <1>1. IInv => OnlyInterruptionsUnsign
    BY DEF IInv, Uncut, SignedOrStashing, Stashing, OnlyInterruptionsUnsign
  <1> QED
    BY <1>1, IInvAlways, PTL

\* On a machine that bootstraps while no release runs, the CLI that bootstrap.sh
\* copies is whole, was stored by a tool of the version in its name that took its
\* commit for its own, and has a name that the floor the run started under
\* accepts, whatever a prune takes away between its pick, its verification and
\* its copy.  What version the binary reports is not checked by anyone.
THEOREM InstalledIsAlwaysAdmitted ==
    ASSUME Quiet
    PROVE  Spec => []InstalledIsAdmitted
  <1>1. ASSUME IInv
        PROVE  InstalledIsAdmitted
    BY <1>1 DEF IInv, InstallerInv, Running, InstalledIsAdmitted
  <1>2. IInv => InstalledIsAdmitted
    BY <1>1
  <1> QED
    BY <1>2, IInvAlways, PTL

\* On a machine that bootstraps over a completed release while no other runs, and
\* where nothing newer was left behind, bootstrap.sh neither dies nor warns, even
\* with a prune at work beside it.
THEOREM SoundRunsAlwaysEndWell ==
    ASSUME Quiet
    PROVE  Spec => []SoundRunsEndWell
  <1>1. ASSUME IInv
        PROVE  SoundRunsEndWell
    <2>1. inst.sound /\ inst.pc # "idle" => inst.pc \notin {"died", "warned"}
      BY <1>1 DEF IInv, SoundInv, Running
    <2> QED
      BY <2>1 DEF SoundRunsEndWell
  <1>2. IInv => SoundRunsEndWell
    BY <1>1
  <1> QED
    BY <1>2, IInvAlways, PTL
=============================================================================
