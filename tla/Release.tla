------------------------------ MODULE Release ------------------------------
(***************************************************************************)
(* Publishing through a store (internal/release, core.StashRelease and     *)
(* PruneBinaries, the installers, and assets/bootstrap.sh).                *)
(*                                                                         *)
(* A release copies the built binaries into the store's bootstrap/         *)
(* directory, each with a signature and a metadata record beside it, then  *)
(* writes the public key, raises the version floor, prunes, and writes,    *)
(* signs and records the installers.  None of these files is replaced by a *)
(* rename: os.WriteFile truncates the file and then fills it, and a        *)
(* release that is killed, or fails, leaves whatever it has got to.        *)
(* Another process may prune the directory meanwhile, and a bare machine   *)
(* may run the installer, which picks the newest name it sees, verifies    *)
(* that file, and then copies it.                                          *)
(*                                                                         *)
(* A version is a number, 0 the version "dev" of an unstamped build, which *)
(* every release outranks; Formats.tla compares the version strings.  A    *)
(* signing key is its fingerprint.  A build is the version it reports and  *)
(* the commit it was built from; the two are stamped apart, so one commit  *)
(* has builds of several versions: a plain go build, VERSION on make's     *)
(* command line, a VERSION file edited and not committed.                  *)
(***************************************************************************)
EXTENDS Integers, FiniteSets

CONSTANTS
    Targets,      \* <<kind, platform>> pairs binaries are built for
    Tools,        \* angou builds that publish: [ver, rev, pin]
    Signers,      \* release-signing keys
    Dists,        \* contents of dist/, one build for each of some targets
    Keeps,        \* values of --keep
    Unknown,      \* the commit of a build that was stamped with none
    MaxReleases,  \* bound: releases begun
    MaxFaults,    \* bound: kills and failed writes
    Quiet,        \* TRUE: no release runs while the installer does
    None,         \* no file
    Torn          \* a file that was truncated and not filled

Versions == {k.ver : k \in Tools} \cup {0}
Revs     == {k.rev : k \in Tools}
Build    == [ver : Versions, rev : Revs]
Dist     == UNION {[T -> Build] : T \in (SUBSET Targets) \ {{}}}
Sig      == [of : Build, by : Signers]
Artifact == [bin : Build \cup {None, Torn}, sig : Sig \cup {None, Torn},
             json : Build \cup {None, Torn}]
AnySig   == [of : Build \cup {None, Torn}, by : Signers]
Names    == Targets \X Versions
Text     == [tool : Tools, pin : Signers]   \* an installer: whose template, which key
Scripts  == {"sh", "ps1"}
Pruners  == {"release", "prune"}

\* Only finitely many builds exist, so a directory lists finitely many versions.
\* A missing or truncated file is not a signature, whatever it would be of.
ASSUME ReleaseConstants ==
    /\ IsFiniteSet(Tools)
    /\ Targets \subseteq {"angou", "angou-gui"} \X STRING
    /\ \A k \in Tools : k.ver \in Nat /\ k.pin \in Signers \cup {None}
    /\ Dists \subseteq Dist
    /\ Keeps \subseteq Nat
    /\ MaxReleases \in Nat /\ MaxFaults \in Nat
    /\ Quiet \in BOOLEAN
    /\ None \notin Signers \cup Build \cup AnySig \cup Text \cup Names \cup Targets
    /\ Torn \notin Signers \cup Build \cup AnySig \cup Text \cup {None}

VARIABLES
    files,      \* files[t][v]: the binary of target t at version v, with its companions
    key,        \* release-key.asc
    script,     \* script[s]: the installer, its signature, and the digest recorded
    floor,      \* the version floor in the store's metadata, 0 when there is none
    job,        \* the release under way, or the last one
    pruning,    \* pruning[p]: what p still has to remove
    inst,       \* the run of bootstrap.sh
    installed,  \* what it copied into the machine's bin directory
    carried,    \* history: the targets of the release that raised the floor
    cut,        \* history: a release was cut short while it stashed, or it stashed
                \* a name that another process was removing
    releases, faults

store == <<files, key, script, floor>>
vars  == <<store, job, pruning, inst, installed, carried, cut, releases, faults>>

---------------------------------------------------------------------------
\* The namespace.

NoArtifact == [bin |-> None, sig |-> None, json |-> None]

\* List: a name counts when its binary is there, whatever is beside it.
Present(t) == {v \in Versions : files[t][v].bin # None}

\* Mutant: the first name of the listing, which the shell sorts upwards.
First(t) == CHOOSE v \in Present(t) : \A w \in Present(t) : w >= v

\* newest_binary and newest_gui: the highest version wins.
Newest(t) == CHOOSE v \in Present(t) : \A w \in Present(t) : w <= v

\* verify_signature: the signature is of these bytes, by the pinned key, and the
\* key file beside the binaries holds that key.
Verified(t, v, pin) ==
    /\ files[t][v].sig = [of |-> files[t][v].bin, by |-> pin]
    /\ key = pin

\* Mutant: retention counts the binaries of a platform, not of a kind.
SupersededByPlatform(keep) ==
    {n \in Names :
        /\ n[2] \in Present(n[1])
        /\ Cardinality({m \in Names :
              m[1][2] = n[1][2] /\ m[2] \in Present(m[1]) /\ (m[2] > n[2]
              \/ (m[2] = n[2] /\ m[1][1] = "angou" /\ n[1][1] # "angou"))}) >= keep}

\* Mutant: the listing is sorted the other way.
SupersededByOlder(keep) ==
    {n \in Names :
        /\ n[2] \in Present(n[1])
        /\ Cardinality({w \in Present(n[1]) : w < n[2]}) >= keep}

\* The binaries beyond the newest keep of their kind and platform.
Superseded(keep) ==
    {n \in Names :
        /\ n[2] \in Present(n[1])
        /\ Cardinality({w \in Present(n[1]) : w > n[2]}) >= keep}

Digested(s) == script[s].digest = script[s].text    \* VerifyBootstraps: Matches

---------------------------------------------------------------------------
Working == {"stash", "binary", "signature", "metadata"}
Steps   == Working \cup {"key", "floor", "list", "remove", "script", "sign", "record"}
Busy    == job.pc \in Steps

NoJob   == [pc |-> "none", tool |-> None, by |-> None, dist |-> None, keep |-> 0,
            todo |-> {}, at |-> None, half |-> FALSE]
Failed  == [NoJob EXCEPT !.pc = "failed"]
NoPrune == [left |-> {}, at |-> None, part |-> 1]
NoRun   == [pc |-> "idle", plat |-> None, pin |-> None, ver |-> 0, gui |-> 0,
            floor |-> 0, due |-> FALSE, sound |-> FALSE]

TypeOK ==
    /\ files \in [Targets -> [Versions -> Artifact]]
    /\ key \in Signers \cup {None, Torn}
    /\ script \in [Scripts -> [text : Text \cup {None, Torn},
                               sig : [of : Text \cup {Torn}, by : Signers] \cup {None, Torn},
                               digest : Text \cup {None, Torn}]]
    /\ floor \in Versions
    /\ job.pc \in Steps \cup {"none", "done", "failed"}
    /\ job.pc \notin {"none", "failed"} =>
                          /\ job.tool \in Tools /\ job.by \in Signers
                          /\ job.dist \in Dists /\ job.keep \in Keeps
    /\ job.todo \subseteq Targets
    /\ job.half \in BOOLEAN
    /\ pruning \in [Pruners -> [left : SUBSET Names, at : Names \cup {None},
                                part : 1..3]]
    /\ installed \in [{"angou", "angou-gui"} -> Build \cup {None, Torn}]
    /\ carried \subseteq Targets
    /\ cut \in BOOLEAN
    /\ releases \in 0..MaxReleases /\ faults \in 0..MaxFaults

Init ==
    /\ files = [t \in Targets |-> [v \in Versions |-> NoArtifact]]
    /\ key = None
    /\ script = [s \in Scripts |-> [text |-> None, sig |-> None, digest |-> None]]
    /\ floor = 0
    /\ job = NoJob
    /\ pruning = [p \in Pruners |-> NoPrune]
    /\ inst = NoRun
    /\ installed = [k \in {"angou", "angou-gui"} |-> None]
    /\ carried = {}
    /\ cut = FALSE
    /\ releases = 0 /\ faults = 0

Goto(label) == job' = [job EXCEPT !.pc = label]

\* One os.WriteFile: first the truncated file, then its content.
Piece(content) == IF job.half THEN content ELSE Torn
Written(label) ==
    job' = [job EXCEPT !.half = ~@, !.pc = IF job.half THEN label ELSE @]

Rest == <<pruning, inst, installed, carried, cut, releases, faults>>

---------------------------------------------------------------------------
\* StashRelease.

\* The store opens for a binary that is not below its floor; a tool with a key
\* compiled in signs with no other.
Begin(tool, by, dist, keep) ==
    /\ ~Busy /\ releases < MaxReleases
    /\ Quiet => inst.pc = "idle"
    /\ tool.ver >= floor
    /\ tool.pin \in {None, by}
    /\ job' = [NoJob EXCEPT !.pc = "stash", !.tool = tool, !.by = by, !.dist = dist,
                            !.keep = keep, !.todo = DOMAIN dist]
    /\ releases' = releases + 1
    /\ UNCHANGED <<store, pruning, inst, installed, carried, cut, faults>>

\* A prune has this name on its list.
Removing(n) == n = pruning["prune"].at \/ n \in pruning["prune"].left

\* verifyArtifactIsThisBuild compares commits, not versions, and a tool that
\* carries no commit cannot tell.
IsThisBuild(build) == job.tool.rev \in {Unknown, build.rev}

\* stashOne; binaries already stashed stay when a later one is refused.
Accept(t) ==
    /\ job.pc = "stash" /\ t \in job.todo
    /\ job' = IF IsThisBuild(job.dist[t])
              THEN [job EXCEPT !.pc = "binary", !.at = t, !.todo = @ \ {t}]
              ELSE Failed
    /\ cut' = (cut \/ Removing(<<t, job.tool.ver>>))
    /\ UNCHANGED <<store, pruning, inst, installed, carried, releases, faults>>

\* A file that was removed while it was open stays removed.
Stash(part, content, label) ==
    /\ files' = [files EXCEPT ![job.at][job.tool.ver][part] =
          IF job.half /\ @ = None THEN None ELSE Piece(content)]
    /\ Written(label)
    /\ UNCHANGED <<key, script, floor, Rest>>

StashBinary ==
    job.pc = "binary" /\ Stash("bin", job.dist[job.at], "signature")

\* Mutant: a signature that is there already is kept.
StashSignatureOnce ==
    /\ job.pc = "signature"
    /\ IF files[job.at][job.tool.ver].sig \in Sig
       THEN Goto("metadata") /\ UNCHANGED <<store, Rest>>
       ELSE Stash("sig", [of |-> job.dist[job.at], by |-> job.by], "metadata")

StashSignature ==
    /\ job.pc = "signature"
    /\ Stash("sig", [of |-> job.dist[job.at], by |-> job.by], "metadata")

\* Mutant: a record that is there already is kept.
StashMetadataOnce ==
    /\ job.pc = "metadata"
    /\ IF files[job.at][job.tool.ver].json \in Build
       THEN Goto(IF job.todo = {} THEN "key" ELSE "stash") /\ UNCHANGED <<store, Rest>>
       ELSE Stash("json", [ver |-> job.tool.ver, rev |-> job.tool.rev],
                  IF job.todo = {} THEN "key" ELSE "stash")

\* The record describes the tool; IsThisBuild made sure that the binary has its
\* commit, and nothing that it reports its version.
StashMetadata ==
    /\ job.pc = "metadata"
    /\ Stash("json", [ver |-> job.tool.ver, rev |-> job.tool.rev],
             IF job.todo = {} THEN "key" ELSE "stash")

WriteKey ==
    /\ job.pc = "key"
    /\ key' = Piece(job.by)
    /\ Written("floor")
    /\ UNCHANGED <<files, script, floor, Rest>>

\* The metadata blob is replaced by a rename, so this is one step.
RaiseFloor ==
    /\ job.pc = "floor"
    /\ Goto("list")
    /\ IF job.tool.ver > floor
       THEN floor' = job.tool.ver /\ carried' = DOMAIN job.dist
       ELSE UNCHANGED <<floor, carried>>
    /\ UNCHANGED <<files, key, script, pruning, inst, installed, cut, releases, faults>>

\* Prune refuses a retention of nothing, this late.
ListForRelease ==
    /\ job.pc = "list"
    /\ IF job.keep < 1
       THEN job' = Failed /\ UNCHANGED pruning
       ELSE /\ Goto("remove")
            /\ pruning' = [pruning EXCEPT !["release"].left = Superseded(job.keep)]
    /\ UNCHANGED <<store, inst, installed, carried, cut, releases, faults>>

Idle(p) == pruning[p].left = {} /\ pruning[p].at = None

Pruned ==
    /\ job.pc = "remove" /\ Idle("release")
    /\ job' = [job EXCEPT !.pc = "script", !.at = "sh"]
    /\ UNCHANGED <<store, Rest>>

\* The installers are written, then signed, then recorded, both at each stage.
Staged(label) ==
    job' = [job EXCEPT !.half = ~@,
                       !.pc = IF job.half /\ job.at = "ps1" THEN label ELSE @,
                       !.at = IF job.half THEN (IF @ = "sh" THEN "ps1" ELSE "sh") ELSE @]

WriteScript ==
    /\ job.pc = "script"
    /\ script' = [script EXCEPT ![job.at].text = Piece([tool |-> job.tool, pin |-> job.by])]
    /\ Staged("sign")
    /\ UNCHANGED <<files, key, floor, Rest>>

\* Mutant: what is signed is the template.
SignTemplate ==
    /\ job.pc = "sign"
    /\ script' = [script EXCEPT ![job.at].sig =
                     Piece([of |-> [tool |-> job.tool, pin |-> None], by |-> job.by])]
    /\ Staged("record")
    /\ UNCHANGED <<files, key, floor, Rest>>

\* signBootstrapScripts signs what it reads back from the disk.
SignScript ==
    /\ job.pc = "sign"
    /\ script' = [script EXCEPT ![job.at].sig = Piece([of |-> script[job.at].text, by |-> job.by])]
    /\ Staged("record")
    /\ UNCHANGED <<files, key, floor, Rest>>

\* Mutant: only bootstrap.sh is recorded.
RecordFirstScript ==
    /\ job.pc = "record"
    /\ script' = [script EXCEPT !["sh"].digest = script["sh"].text]
    /\ Goto("done")
    /\ UNCHANGED <<files, key, floor, Rest>>

RecordScript ==
    /\ job.pc = "record"
    /\ script' = [script EXCEPT ![job.at].digest = script[job.at].text]
    /\ job' = IF job.at = "sh" THEN [job EXCEPT !.at = "ps1"]
                               ELSE [job EXCEPT !.pc = "done"]
    /\ UNCHANGED <<files, key, floor, Rest>>

\* The release is killed, or a read or a write of it fails.
Fail ==
    /\ Busy /\ faults < MaxFaults
    /\ faults' = faults + 1
    /\ cut' = (cut \/ job.pc \in Working)
    /\ job' = Failed
    /\ pruning' = [pruning EXCEPT !["release"] = NoPrune]
    /\ UNCHANGED <<store, inst, installed, carried, releases>>

---------------------------------------------------------------------------
\* release.Prune, by a release or by angou prune --bootstrap.

ListForPrune(keep) ==
    /\ keep >= 1 /\ Idle("prune")
    /\ Superseded(keep) # {}
    /\ pruning' = [pruning EXCEPT !["prune"].left = Superseded(keep)]
    /\ cut' = (cut \/ (job.pc \in Working /\ <<job.at, job.tool.ver>> \in Superseded(keep)))
    /\ UNCHANGED <<store, job, inst, installed, carried, releases, faults>>

Choose(p, n) ==
    /\ pruning[p].at = None /\ n \in pruning[p].left
    /\ pruning' = [pruning EXCEPT ![p].at = n, ![p].left = @ \ {n}]
    /\ UNCHANGED <<store, job, inst, installed, carried, cut, releases, faults>>

\* Mutant: the signature goes first.
SignatureFirst == <<"sig", "bin", "json">>

\* The binary goes first, then what describes it.
RemovalOrder == <<"bin", "sig", "json">>

\* os.Remove does not mind a file that has gone.
RemovePart(p) ==
    /\ pruning[p].at # None
    /\ LET n == pruning[p].at
           part == RemovalOrder[pruning[p].part]
       IN  files' = [files EXCEPT ![n[1]][n[2]][part] = None]
    /\ pruning' = [pruning EXCEPT ![p].part = 1 + (@ % 3),
                                  ![p].at = IF pruning[p].part = 3 THEN None ELSE @]
    /\ UNCHANGED <<key, script, floor, job, inst, installed, carried, cut, releases, faults>>

\* The prune command is killed, or a removal fails: Prune stops there.
StopPruning ==
    /\ ~Idle("prune") /\ faults < MaxFaults
    /\ faults' = faults + 1
    /\ pruning' = [pruning EXCEPT !["prune"] = NoPrune]
    /\ UNCHANGED <<store, job, inst, installed, carried, cut, releases>>

---------------------------------------------------------------------------
\* bootstrap.sh on a bare machine.

CLI == <<"angou", inst.plat>>
GUI == <<"angou-gui", inst.plat>>

InstallerUnchanged ==
    UNCHANGED <<store, job, pruning, carried, cut, releases, faults>>

\* The last release completed, and nothing newer was left behind for this target.
Settled(t) ==
    /\ job.pc = "done" /\ t \in DOMAIN job.dist
    /\ Present(t) # {} /\ Newest(t) = job.tool.ver

Pick(plat) ==
    /\ inst.pc = "idle"
    /\ Quiet => ~Busy
    /\ script["sh"].text \in Text
    /\ LET cli == <<"angou", plat>>
           gui == <<"angou-gui", plat>>
       IN  /\ cli \in Targets /\ Present(cli) # {}
           /\ inst' = [NoRun EXCEPT
                 !.pc = "verify", !.plat = plat, !.pin = script["sh"].text.pin,
                 !.ver = Newest(cli), !.floor = floor, !.due = cli \in carried,
                 !.sound = Settled(cli) /\ (gui \in Targets /\ Present(gui) # {} => Settled(gui))]
    /\ UNCHANGED installed /\ InstallerUnchanged

End(outcome) == inst' = [inst EXCEPT !.pc = outcome]

VerifyCLI ==
    /\ inst.pc = "verify"
    /\ End(IF Verified(CLI, inst.ver, inst.pin) THEN "copy" ELSE "died")
    /\ UNCHANGED installed /\ InstallerUnchanged

\* install fails when the file has gone since.
CopyCLI ==
    /\ inst.pc = "copy"
    /\ IF files[CLI][inst.ver].bin = None
       THEN End("died") /\ UNCHANGED installed
       ELSE /\ End("pickGui")
            /\ installed' = [installed EXCEPT !["angou"] = files[CLI][inst.ver].bin]
    /\ InstallerUnchanged

PickGUI ==
    /\ inst.pc = "pickGui"
    /\ inst' = IF GUI \notin Targets \/ Present(GUI) = {}
               THEN [inst EXCEPT !.pc = "check"]
               ELSE [inst EXCEPT !.pc = "verifyGui", !.gui = Newest(GUI)]
    /\ UNCHANGED installed /\ InstallerUnchanged

\* verify_binary dies, so an unverifiable GUI ends the whole run.
VerifyGUI ==
    /\ inst.pc = "verifyGui"
    /\ End(IF Verified(GUI, inst.gui, inst.pin) THEN "copyGui" ELSE "died")
    /\ UNCHANGED installed /\ InstallerUnchanged

CopyGUI ==
    /\ inst.pc = "copyGui"
    /\ IF files[GUI][inst.gui].bin = None
       THEN End("died") /\ UNCHANGED installed
       ELSE /\ End("check")
            /\ installed' = [installed EXCEPT !["angou-gui"] = files[GUI][inst.gui].bin]
    /\ InstallerUnchanged

\* The script checks its own file against the signature beside it; without one
\* it says so and ends well.
SelfCheck ==
    /\ inst.pc = "check"
    /\ LET sh == script["sh"]
       IN  End(IF sh.sig = None \/ (sh.sig = [of |-> sh.text, by |-> inst.pin] /\ key = inst.pin)
               THEN "ended" ELSE "warned")
    /\ UNCHANGED installed /\ InstallerUnchanged

Leave ==
    /\ inst.pc \in {"ended", "died", "warned"}
    /\ inst' = NoRun
    /\ installed' = [k \in {"angou", "angou-gui"} |-> None]
    /\ InstallerUnchanged

---------------------------------------------------------------------------
Next ==
    \/ \E tool \in Tools, by \in Signers, dist \in Dists, keep \in Keeps :
          Begin(tool, by, dist, keep)
    \/ \E t \in Targets : Accept(t)
    \/ StashBinary \/ StashSignature \/ StashMetadata
    \/ WriteKey \/ RaiseFloor \/ ListForRelease \/ Pruned
    \/ WriteScript \/ SignScript \/ RecordScript
    \/ Fail
    \/ \E keep \in Keeps : ListForPrune(keep)
    \/ \E p \in Pruners, n \in Names : Choose(p, n)
    \/ \E p \in Pruners : RemovePart(p)
    \/ StopPruning
    \/ \E t \in Targets : Pick(t[2])
    \/ VerifyCLI \/ CopyCLI \/ PickGUI \/ VerifyGUI \/ CopyGUI \/ SelfCheck \/ Leave

Spec == Init /\ [][Next]_vars

---------------------------------------------------------------------------
\* Properties.

\* Retention never takes the newest binary of a kind and platform, nor what is
\* beside it, however two prunes and a release overlap: the list a prune works
\* from may be old, but whatever was newer then has only been outlived since.
NewestStays ==
    [][\A p \in Pruners : RemovePart(p) =>
          \A t \in Targets : \A v \in Present(t) :
             (\A w \in Present(t) : w <= v) => files'[t][v] = files[t][v]]_vars

\* The floor locks old binaries out, so the store must carry what it asks for:
\* each target of the release that raised it has a binary of a name that new.
FloorIsCarried ==
    \A t \in carried : \E v \in Present(t) : v >= floor

\* A release that reports success leaves each of its binaries verifiable by the
\* key it signed with and described by its own record, over whatever earlier
\* releases left half done, unless a newer leftover still hides it.
CompletedReleaseVerifies ==
    job.pc = "done" =>
        \A t \in DOMAIN job.dist : Settled(t) =>
            /\ Verified(t, job.tool.ver, job.by)
            /\ files[t][job.tool.ver].bin = job.dist[t]
            /\ files[t][job.tool.ver].json = [ver |-> job.tool.ver, rev |-> job.tool.rev]

\* A release that reports success leaves both installers agreeing with their
\* signature, their recorded digest and the key beside the binaries, so neither
\* verify-bootstrap nor the installer's own check raises a false alarm.
CompletedReleaseIsConsistent ==
    job.pc = "done" =>
        /\ key = job.by
        /\ \A s \in Scripts :
              /\ script[s].text.pin = key
              /\ script[s].sig = [of |-> script[s].text, by |-> key]
              /\ Digested(s)

\* A record is never left describing another commit's binary, or another name:
\* over the records of earlier releases under the same name, with stashes refused
\* half way and prunes at work, and unless one was cut short while it stashed,
\* what lies beside a binary is what the tool that stashed it knew of it.
RecordIsTrue ==
    (~cut /\ job.pc \notin Working) =>
        \A t \in Targets : \A v \in Present(t) :
            /\ files[t][v].json \in Build
            /\ files[t][v].json.ver = v
            /\ files[t][v].bin \in Build
            /\ files[t][v].json.rev \in {Unknown, files[t][v].bin.rev}

\* A binary without its signature is the mark of a release that was cut short;
\* neither a release that fails by itself nor a prune that stops half way makes one.
OnlyInterruptionsUnsign ==
    (~cut /\ job.pc \notin Working) =>
        \A t \in Targets : \A v \in Present(t) :
            files[t][v].sig \in Sig /\ files[t][v].sig.of = files[t][v].bin

\* Some tool of version v takes the build for its own.
OfVersion(build, v) == \E k \in Tools : k.ver = v /\ k.rev \in {Unknown, build.rev}

\* What an installer run copies is a whole binary, of a commit of the version in
\* its name, and the floor the run started under accepts that version, where the
\* release that raised the floor covered this platform: a binary that reports
\* the version it is stored under is one the store opens for.
InstalledIsAdmitted ==
    (inst.due /\ installed["angou"] # None /\ inst.pc # "idle") =>
        /\ installed["angou"] \in Build
        /\ OfVersion(installed["angou"], inst.ver)
        /\ inst.ver >= inst.floor

\* An installer run that starts over a completed release, with nothing newer left
\* behind, ends well, even with a prune at work at the same time.
SoundRunsEndWell == inst.sound => inst.pc \notin {"died", "warned"}
=============================================================================
