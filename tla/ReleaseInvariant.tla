-------------------------- MODULE ReleaseInvariant --------------------------
(***************************************************************************)
(* The inductive invariant of Release: what is true at each step of a      *)
(* release, of a prune and of an installer run, however they overlap.      *)
(***************************************************************************)
EXTENDS Release

\* The release and the installer run are records of these.
InstPcs == {"idle", "verify", "copy", "pickGui", "verifyGui", "copyGui", "check",
            "ended", "died", "warned"}

JobShape ==
    job \in [pc : Steps \cup {"none", "done", "failed"}, tool : Tools \cup {None},
             by : Signers \cup {None}, dist : Dists \cup {None}, keep : Nat,
             todo : SUBSET Targets, at : Targets \cup Scripts \cup {None}, half : BOOLEAN]

InstShape ==
    /\ inst \in [pc : InstPcs, plat : {t[2] : t \in Targets} \cup {None},
                 pin : Signers \cup {None}, ver : Versions, gui : Versions,
                 floor : Versions, due : BOOLEAN, sound : BOOLEAN]
    /\ inst.pc # "idle" => CLI \in Targets
    /\ inst.pc \in {"verifyGui", "copyGui"} => GUI \in Targets

\* A pruner between two names is at the first part of the next; a release prunes
\* at one step only.
PruningShape ==
    /\ \A p \in Pruners : pruning[p].at = None => pruning[p].part = 1
    /\ pruning["release"] # NoPrune => job.pc = "remove"

\* Where a release is says what it has left to stash and what it is writing.
Progress ==
    /\ job.half => job.pc \in (Working \ {"stash"}) \cup {"key", "script", "sign"}
    /\ job.pc \notin {"none", "failed"} => job.todo \subseteq DOMAIN job.dist
    /\ job.pc \notin Working => job.todo = {}
    /\ job.pc = "stash" => job.at \in Targets \cup {None}
    /\ job.pc \in Working \ {"stash"} =>
          /\ job.at \in DOMAIN job.dist \ job.todo
          /\ IsThisBuild(job.dist[job.at])
    /\ job.pc \in {"script", "sign", "record"} => job.at \in Scripts

\* Some binary of the target is newer than v.
Newer(t, v) == \E w \in Present(t) : w > v

\* A name that a prune is to remove, or is removing, is not the newest of its
\* target: whatever was newer when it was listed has only been outlived since.
ListedAreOutlived ==
    \A p \in Pruners, n \in Names :
        n \in pruning[p].left \/ n = pruning[p].at => Newer(n[1], n[2])

\* The release under way is past these steps for target t.
Past(t, steps) == t \in DOMAIN job.dist \ job.todo /\ (job.pc \in steps => t # job.at)

\* What the release has written of target t is there, and what it is writing is
\* a truncated file.
Stashed(t) ==
    LET now == files[t][job.tool.ver]
    IN  /\ Past(t, {"binary"}) => now.bin = job.dist[t]
        /\ Past(t, {"binary", "signature"}) => now.sig = [of |-> job.dist[t], by |-> job.by]
        /\ Past(t, {"binary", "signature", "metadata"}) =>
              now.json = [ver |-> job.tool.ver, rev |-> job.tool.rev]
        /\ job.half /\ t = job.at =>
              /\ job.pc = "binary" => now.bin = Torn
              /\ job.pc = "signature" => now.sig = Torn
              /\ job.pc = "metadata" => now.json = Torn

\* Only a target that has something newer by now can lack what was stashed.
StashedOrOutlived ==
    job.pc \notin {"none", "failed"} =>
        \A t \in Targets : Newer(t, job.tool.ver) \/ Stashed(t)

\* What a release has written of the key and the installers.
Installer == [tool |-> job.tool, pin |-> job.by]
Wrote(s)  == job.pc \in {"sign", "record", "done"} \/ (job.pc = "script" /\ job.at = "ps1" /\ s = "sh")
Signed(s) == job.pc \in {"record", "done"} \/ (job.pc = "sign" /\ job.at = "ps1" /\ s = "sh")
Noted(s)  == job.pc = "done" \/ (job.pc = "record" /\ job.at = "ps1" /\ s = "sh")

Published ==
    /\ job.pc \in {"floor", "list", "remove", "script", "sign", "record", "done"} => key = job.by
    /\ \A s \in Scripts :
          /\ Wrote(s)  => script[s].text = Installer
          /\ Signed(s) => script[s].sig = [of |-> Installer, by |-> job.by]
          /\ Noted(s)  => script[s].digest = Installer

\* A binary has a commit of the version it is stored under.
CommitsKept ==
    \A t \in Targets : \A v \in Versions :
        files[t][v].bin \in Build => OfVersion(files[t][v].bin, v)

\* The name that the release is stashing, once it has begun to.
Stashing(t, v) == job.pc \in Working /\ t = job.at /\ v = job.tool.ver

\* While no interruption fell into a stash, only the name being stashed can lack
\* its signature, what was written of that name is there, no prune is at it, and
\* a prune that has begun on a name has removed its binary.
SignedOrStashing ==
    \A t \in Targets : \A v \in Present(t) :
        \/ files[t][v].sig \in Sig /\ files[t][v].sig.of = files[t][v].bin
        \/ Stashing(t, v) /\ job.pc \in {"binary", "signature"}

StashApart ==
    \A t \in Targets, v \in Versions : Stashing(t, v) => ~Removing(<<t, v>>)

BinaryFirst ==
    \A p \in Pruners : pruning[p].part > 1 =>
        files[pruning[p].at[1]][pruning[p].at[2]].bin = None

Uncut ==
    ~cut => /\ SignedOrStashing /\ StashApart /\ BinaryFirst
            /\ job.pc \in Working \ {"stash"} => Stashed(job.at)

\* Nor can another name lack a record of the commit its binary has.
Described(t, v) ==
    /\ files[t][v].json \in Build
    /\ files[t][v].json.ver = v
    /\ files[t][v].bin \in Build
    /\ files[t][v].json.rev \in {Unknown, files[t][v].bin.rev}

DescribedOrStashing ==
    ~cut =>
        \A t \in Targets : \A v \in Present(t) :
            \/ Described(t, v)
            \/ Stashing(t, v) /\ job.pc \in {"binary", "signature", "metadata"}

\* What an installer run knows of the binary it picked.
Running == inst.pc # "idle"

InstallerInv ==
    Quiet =>
        /\ Running => ~Busy
        /\ Running => inst.pin \in Signers
        /\ Running /\ inst.due => inst.ver >= inst.floor
        /\ inst.pc \in {"idle", "verify", "copy"} => installed["angou"] = None
        /\ inst.pc = "copy" => files[CLI][inst.ver].bin \in Build \cup {None}
        /\ Running /\ installed["angou"] # None =>
              /\ installed["angou"] \in Build
              /\ OfVersion(installed["angou"], inst.ver)

\* The newest binary of a target is this release's.
Top(t) == job.tool.ver \in Present(t) /\ ~Newer(t, job.tool.ver)

\* While an installer run is sound, the newest binaries stay those of the
\* release it started over.
SoundInv ==
    (Quiet /\ Running /\ inst.sound) =>
        /\ inst.pc \notin {"died", "warned"}
        /\ job.pc = "done" /\ inst.pin = job.by
        /\ CLI \in DOMAIN job.dist /\ inst.ver = job.tool.ver /\ Top(CLI)
        /\ GUI \in Targets /\ Present(GUI) # {} => GUI \in DOMAIN job.dist /\ Top(GUI)
        /\ inst.pc \in {"verifyGui", "copyGui"} =>
              GUI \in DOMAIN job.dist /\ Top(GUI) /\ inst.gui = job.tool.ver

IInv ==
    /\ TypeOK /\ JobShape /\ InstShape /\ PruningShape /\ Progress
    /\ ListedAreOutlived
    /\ StashedOrOutlived
    /\ Published
    /\ FloorIsCarried
    /\ CommitsKept
    /\ Uncut
    /\ DescribedOrStashing
    /\ InstallerInv
    /\ SoundInv
=============================================================================
