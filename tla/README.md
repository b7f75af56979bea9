# A verification of angou

angou keeps files as end-to-end encrypted secrets in a plain directory that is
synced between machines by something else (a share, a cloud folder).  This
directory holds TLA+ models of the parts of it where order, interruption and
stale state decide whether a secret survives and who can read it; TLC
configurations that check them; and TLAPS proofs of what matters most.

Paths below are relative to the repository (`src/`).  `store.go:413` means
`src/internal/store/store.go`, line 413, and so on for the other packages.

    Vault             what a store promises (abstract)
    Store             internal/store: files, sessions, every command step by step
    StoreProperties   what makes Store correct, and that it implements Vault
    StoreInvariant    the inductive invariant of Store
    StoreProofs       theorems about Store
    StoreBlobs        the inductive invariant of Store's blobs and index
    VaultProofs       that Store implements Vault, and what goes with it
    MCStore           definitions TLC needs
    Clone, MCClone    a copy of a store made while Store's processes work in it
    Machine           a machine's local key, keyring entry and the routes into a store
    MachineInvariant  the inductive invariant of Machine
    MachineProofs     theorems about Machine
    Agent             the session cache behind its socket
    AgentProofs       theorems about Agent
    Window            the desktop window's loads, operations and choice of store
    WindowProofs      theorems about Window
    Release, MCRelease   publishing binaries through a store, and installing from it
    ReleaseInvariant  the inductive invariant of Release
    ReleaseProofs     theorems about Release
    Files, MCFiles    the machine's own files: encrypted, scanned, decrypted, extracted
    FilesProofs       theorems about Files
    Formats, MCFormats   versions, lifetimes, logical names, containers: pure functions
    FormatsProofs     theorems about Formats

    tlc -workers 2 -config store_solo.cfg MCStore      # and the other .cfg files
    tlapm StoreProofs.tla


## 1. The system

### Components, their state and operations

| component | state | operations | what is hard |
|---|---|---|---|
| **store**: blobs, metadata, index (`store/store.go`, `blobid.go`) | one blob per secret named by HMAC(naming key, path); `store.angou` (naming key, version floor, installer digests); `index.angou`, a cache; in memory: the identity, the metadata and the index as read at open | init, open, put, get, rm, mv, reindex, raise the floor, record digests | no lock; every session writes back what it read at open; commands are several renames long |
| **store**: rotation, pruning (`store/rekey.go`) | `.angou-rekey/`, the retained bundles | rekey --identity, prune, prune orphans, rewrap | replaces every file of a live directory in place; a kill at any point |
| **store**: bundles (`store/bundles.go`) | `bootstrap/keybundle.json`, `keybundle-<fpr>.json` | open tries each until one opens the metadata | which bundles exist at which step |
| **core**: sessions (`core/session.go`, `ops.go`) | a session: store, route it was opened by | open by agent, local key or passphrase; put, get, extract, remove, move | three routes with different failures |
| **core**: machine set-up (`core/bootstrap.go`, `localkey/`) | `identity.local`, `identity.local.staged`, the keyring's entry | bootstrap, --force, --forget, rekey --local | two places changed one after the other, the keyring holds the only copy of a passphrase |
| **keyring** (`keyring/`) | one entry per identity | get, set, remove, available | platform I/O; may be down |
| **agent** (`agent/`, `core/agent.go`) | key in memory, socket file, timer | start, stop, status, identity | a path shared by every agent of a store; timer beside requests |
| **release namespace** (`release/`, `core/release.go`) | `bootstrap/<kind>-<os>-<arch>-<version>` with a signature and a record beside it, `release-key.asc` | stash, prune, rank versions, refuse old binaries | three files per binary, written in place; one comparison decides retention and refusal |
| **bootstrap scripts** (`core/bootstrapscript.go`, `assets/`) | two installers with signatures, digests in the metadata | write, sign, record, verify; run on a bare machine | script, signature, digest and key are four places; the installer looks at a namespace that changes |
| **clone** (`core/clone.go`, `cli/clone.go`) | a copy | clone | a copy of a store that is being written |
| **files of the machine** (`core/ops.go`, `scan.go`, `store/extract.go`) | the user's files | enc, scan and encrypt, dec, restore, get | looked at, asked about, then acted on by name |
| **remembered store** (`core/config.go`) | one small file | use, remember | the window's choice of store rests on it |
| **window** (`gui/`) | the shown store, entries, what is loading | loads, operations in the background, applied on the UI thread | results applied to a window that has moved on |
| **pure code** (`container/`, `envelope/`, `store/path.go`, `store/extract.go`, `cli/duration.go`, `passphrase/`) | none | pad, frame, parse, normalise | boundaries, overflow |
| **cryptography** (`pgpcrypto/`, `keybundle/`) | none | seal, open | assumed ideal |
| **command line** (`cli/`) | none | parse flags, prompt, call core | order of calls, refusals |

### How they interact

A command (`cli`) or the window (`gui`) calls `core`.  `core.open` asks the
**agent** through its socket for an identity; failing that, if there is a **local
key**, it reads the entry of the **keyring** and opens the local key, and then
nothing else; failing that it unwraps a **bundle** with the recovery passphrase.
The session then holds the store's identity, metadata and index in memory and
works on the directory.  Sessions of other processes, and of other machines
through the sync, work on the same directory; they share nothing else, and
nothing locks it.

    cli, gui --> core.Session --> store.Store --> files <-- another process
                   |  |  |
                   |  |  +-- bundle + recovery passphrase
                   |  +----- localkey + keyring
                   +-------- agent (socket)

### What makes each part correct

* store: no command, and no interruption of one, changes or loses a secret
  nobody asked to change; whenever there is metadata, a bundle opens it; the
  floor never falls; a rotation that succeeds leaves nothing of the old key; a
  listing that claims to be trusted is exact.  (An orphan prune beside other
  processes, sessions that write back an older floor and an index that was lost
  break three of these: sections 3 and 6.)
* machine set-up: a local key left behind opens the store; a set-up nothing
  disturbs ends with one that works; it breaks only in known windows.
* agent: one agent per store, reachable at its path; no key sent after it was
  wiped, none sent after the agent has said stop; every key given up in the end.
* release: what the floor asks for, the store carries; a release that says it
  succeeded leaves binaries, installers, signatures, digests and key that agree,
  over whatever earlier ones left half done; retention never takes the newest; the
  installer copies nothing the floor refuses.
* clone: a copy that was made without an error opens and holds the secrets.
* files: a decrypted file is the stored one, a stored one is the file; nothing is
  replaced without consent; extraction stays inside its directory.
* pure functions: the comparison is an order all its implementations agree on;
  what is written is read back; what is accepted as a lifetime is one.
* window: what is shown, and what an operation acts on, is the store the window
  works with; it comes to rest, showing what the store holds.


## 2. The models and the code

### Vault.tla — what a store promises

`holds` maps a path to a secret or `None`; `asked[p]` is what p's running command
may still do.  The only change of `holds` is an effect somebody asked for, and a
move writes the copy before it removes the original.  Rotation, passphrase
changes, pruning, reindexing, kills and failures do not exist here: Store has to
show that they are invisible.

### Store.tla — `internal/store`

State: `blobs` (by name), `meta`, `index`, `current` and `retained` bundles are
the files; `stage` is `.angou-rekey/`; `id[p]` and `cache[p]` are the fields of
p's `Store` value (identity, naming key, metadata; index); `pc[p]` and `job[p]`
are where p's command is and its local variables.  Each file is replaced by a
rename of a finished temporary file (`fsx`), so **one file write is one action**,
and other processes, kills and failures happen between them.

| action(s) | code |
|---|---|
| `InitStore`, `InitBundle`, `InitMeta`, then `WriteIndex` | `store.Init` |
| `Open` | `openIdentityFor`, `openWithIdentity`, `readIndex`, and `core`'s floor check |
| `Put`: `WriteBlob`, `WriteIndex` | `Put` |
| `Remove`: `Unlink`, `WriteIndex` | `Remove` |
| `Move`: `WriteBlob`, `WriteIndex`, `Unlink`, `WriteIndex` | `Move` |
| `Reindex`, `WriteIndex` | `Reindex` |
| `RaiseFloor` / `RecordDigest`, `WriteMeta` | `RaiseVersionFloor`, `SetBootstrapSHA256` |
| `Rekey`, `StageBlob`*, `StageMeta`, `Verify` | `RekeyIdentity` up to the commit |
| `LandBlob`*, `RetainBundle`, `WriteBundle`, `SwapMeta`, `SwapIndex` | `commitRekey` |
| `SweepBlob`*, `RekeyDone` | the sweep of the old blobs and the return |
| `Passwd`: `Rewrap`, then the prune's steps | `RewrapRecovery` |
| `PruneBundles`: `ChooseBundle`, `DropBundle`, `PromoteBundle`, `DiscardBundle`*, `BundlesDone` | `PruneSupersededBundles` |
| `PruneOrphans`: (`LookAtBlob` or `LookFails`, `UnlinkOrphan`)*, `OrphansDone` | `PruneOrphans`: the read of one file, and the removal of its name |
| `Kill`, `Fail`, `LoseIndex`, `Misplace` | SIGKILL or power loss; an error return and its clean-up; a cache the sync has not delivered; a blob copied to a wrong name |

Abstractions.  A key is its generation: an identity and its naming key are
generated together and never reused.  The name of a blob is `<<naming key, path>>`,
an injective hash.  A blob records the key that seals it, its envelope's path and
its content; whether it decrypts is equality of keys.  Sizes, times, tags, padding
and logging are left out.  A command is started only from an open session and
runs to its return; a rotation's session is gone after an error, as the command
line's process is.  How the session learned its key (agent, local key,
passphrase) adds no behaviour to the store and is Machine's subject; only the
passphrase route, with right and wrong passphrases, is here.  `mv` of a path onto
itself, which removes the secret (section 6), is the one command the runs leave out
(`SaneCommands`).  The self-test's
round trip is a put and a removal.  When `store.Init` fails at its last step
(the index) the model leaves the session open; the process has nothing more to
do with it but close.  Walks of the directory take any order.

### Clone.tla — `core/clone.go`, `cli/clone.go`

Extends Store with `copy`, the files at the destination, and `walk`, the clone.
`CloneBegin` lists the root, `EnterBootstrap` lists `bootstrap/` when the walk gets
there, `CopyBlob`, `CopyBundle`, `CopyIndex`, `CopyMeta` copy one file each, in the
order of names: retained bundles before the current one, bundles before the index,
index before `store.angou`, blobs anywhere.  A file that has gone ends the clone with
an error; `CloneStops` is a kill or a failure.  `walk` also notes what each path has
held meanwhile, for the property.  The processes of Store go on between any two files.

### Machine.tla — `core/bootstrap.go`, `localkey/`, `core/session.go`, and their commands

State: the store's identity (a number that a rotation increases), the keyring
(`ring`, by identity; `ringUp`), `local` and `staged` (the two files of
`localkey`), the identity an agent holds, and each process's step.

`Bootstrap` → `BootstrapWithoutKeyring` or `Export`, `BootSet`, `BootStage`,
`Commit`, then the self-test (`GetSucceeds`/`GetFails`, `ReadSucceeds`/`ReadFails`)
is `SetUpMachine` with `localkey.Write`; `RekeyLocal` → `Unlock`, (`OpenLocal`),
`Stage`, `Set`, `Commit`, self-test is `RotateLocalPassword` with
`StageRotation`/`CommitStaged`/`DiscardStaged`; `RekeyIdentity` → `Unlock`,
`Rotate`, `ForgetRing`, `ForgetFile` is the rotation command's forgetting of the
local key.  The window's Machine section calls the same core functions otherwise
(`gui/views.go`): `WindowBootstrap` opens the store first and asks nothing about a
local key that is there; its `rekey --local` button does not ask whether there is
one, so `RekeyLocal` has no such guard; `windowRotate` forgets nothing, which
`leftBehind` records.
 `Forget` is `bootstrap --forget`; `Use` stands for every command that
only opens the store; `StartAgent`, `HoldInAgent` and `AgentEnds` are Agent.tla
seen from here.  `localkey.Read` reads the file a second time after the keyring
was asked, so the two reads are two steps.  Outside the commands, `RingStartsOrStops`,
`LoseEntry`, `DamageLocalKey` and `RotateElsewhere` may happen.  Recovery
passphrases are always right here.

### Agent.tla — `internal/agent`, `core/agent.go`, `cli/agent.go`

State: the file at the socket path (`socket`, whose it is), and for each agent process
its step, whether its memory has the key, whether its lifetime has ended, whether its
listener is open, its unaccepted connections, the connection at hand and what it has
decided to answer on it.  `AskState`, `Decide`, `Unlocked`, `ClearPath`, `Bind`,
`Restrict` are `agent start` with `NewServer` and `Listen`; `Timer`, `Accept`, `Judge`,
`Answer`, `StopAfterAnswer`, `Cleanup` are `Serve`, `handle` and `Stop`; `AcceptFails`
is Serve's return when the accept fails, `Refuse` what `handle` turns away before it
looks at the key.  `Judge` is the part of `handle` under the lock and `Answer` what
follows it: the timer may fire between the two.  A closed Unix listener unlinks its path
without looking at it, as `net.UnixListener.Close` does, and so do `Listen` and
`cleanup`.  The backlog is a set: the order of waiting connections is not a promise.  A
client that connects and sends nothing holds an agent up to five seconds by its read
deadline; this is left out.


### Window.tla — `internal/gui`

State: `ui`'s fields (`entries`, `releases` and the three loaded flags, the session's
store and route), the section on screen, the listing an open dialog is about, the
configuration file (`remembered`), `$ANGOU_STORE` (`env`), the goroutines and the
closures they have posted.  What the UI thread does in one go (a click, one posted
closure with the rebuild it ends in) is one action; a goroutine takes the store's
directory when it starts and its result is applied to the window as it is later.
Goroutines under way are a bag, since two of a kind may run and none has a turn before
another; closures are a sequence, since the UI thread runs them in order.

`Build` is what drawing a section starts; `Invalidate` is `onInvalidate` with the
rebuild, `Switch` is `setStoreDir`; `OpenExistingStore` and `CreateStore` are
first-run set-up; `LoadReads`/`LoadDone`, `OperationDone`, `SetUpDone`,
`CreateDone`, `AgentDone`, `OpenFails`, `WorkFails` are the goroutines of
`withSession`, `createStore`, `loadReleases` and `loadAgent`; `ApplyLoaded` and the
other `Apply` actions are the closures.  Three sections stand for seven: Store, which
loads the listing, Machine, which loads the agent, and Release, which loads the
stashed binaries and, unlike the others, neither asks again after an operation nor
counts a declined open as a load; the doctor's load has the agent's shape, and the
scan is started by its button, as operations are.  The shell library is external and
modelled by how `gui` uses it: it calls `onInvalidate` and `arrive` and draws the
section again.  It covers the window with a progress popup 300 ms into a task, so
what the model lets the user do while goroutines run is what he does before that.
The layout, the sort order, the selection and prompts (an open takes as long as it
takes) are left out; a listing is the store it was read from and how often this
window's operations had changed it.

### Release.tla — `internal/release`, `core/release.go`, `bootstrapscript.go`, `bootstrap.sh`

State: for each target (a kind and a platform) and version the binary, its signature
and its record (`files`); the key beside them (`key`); each installer with its
signature and recorded digest (`script`); the metadata's `floor`; the release under
way (`job`); what each prune still has to remove (`pruning`); one run of the
installer (`inst`, `installed`).

| actions | code |
|---|---|
| `Begin`, `Accept`, `StashBinary`, `StashSignature`, `StashMetadata` | `StashRelease`, `stashOne`, `verifyArtifactIsThisBuild` |
| `WriteKey`, `RaiseFloor`, `ListForRelease`, `Pruned` | the rest of `StashRelease`: key, floor, `release.Prune` |
| `WriteScript`, `SignScript`, `RecordScript` | `writeBootstrapScripts`, `signBootstrapScripts`, `recordBootstrapScripts` |
| `ListForPrune`, `Choose`, `RemovePart`, `StopPruning` | `release.Prune`, by a release or by `Session.PruneBinaries` (`prune --bootstrap`) |
| `Pick`, `VerifyCLI`, `CopyCLI`, `PickGUI`, `VerifyGUI`, `CopyGUI`, `SelfCheck`, `Leave` | `bootstrap.sh` |
| `Fail` | a kill or a failed write of the release |

These files are written by `os.WriteFile`, which truncates first: each is two steps,
`Torn` and then the content.  A version is a number here, 0 for the unstamped `dev`;
the strings are Formats' subject.  A build is the version it reports and the commit
it is from, stamped apart: one commit may have builds of several versions (a plain
`go build`, `VERSION` on make's command line, a `VERSION` file edited and not
committed).  `IsThisBuild` compares commits and nothing else, and a tool without one
cannot compare; the record describes the tool (`StashMetadata`).  A build from a
modified tree is noticed and stashed, so the model does not tell it apart.
Checksums and sizes in the record, the modes of files, `install.sh` and the Windows
installer's run (same choice, same checks) are left out.

### Files.tla — `core/ops.go`, `core/scan.go`, `store/extract.go`, `cli/{enc,dec,get}.go`

State: `file[x]`, a regular file (content and mode), a link to another place, or
nothing; `blob[n]`, what the store holds; `run`, the command.  `Encrypt` →
`ReadSource`, `StatSource`, `Put`; `ScanAll` → `Scan`*, `Scanned`, then for each
candidate `Consider` and the same three; `Restore` → `Look`, `AskRestore`,
`AskReplace`, then `Truncate`, `Fill`, `Chmod` as for `DecryptTo`; `DecryptOther` is the
window's dialog; `Get` → `Check`, `Truncate`, `Fill`, `Chmod`, `Times`.  `Get` works
beneath an `os.Root`, which is taken as documented: what it opens or changes by name
lies in `--dest` (`Inside`), on every platform.  Within it a link is refused at the
open where there is O_NOFOLLOW (`NoFollow`) and followed on Windows, where
`fsx.NoFollow` is 0 and only `Check` looks (`nofollow_windows.go:6-11`); `Times`
resolves the name again everywhere, and `timed` says whose times it set.  Modes are
POSIX's; of a mode Windows keeps only the write bit.
`Edit` is anyone else, between any two steps; `Fail` a kill or a failed call.  What
looks like a credential is a constant (`Secret`); directories on the way to a file,
the walk's depth and its ignore rules are left out; a link points to a place that is
none.

### Formats.tla — pure functions

`CompareVersions` with `splitVersion`, and the two installers' comparisons as shell
and PowerShell compute them: their numbers part by part (`ShellPart`, `WindowsPart`),
their suffixes each by an order of its own, bytes in Go (`PreGreater`), ordinals in
PowerShell (`WindowsPreGreater`: ASCII suffixes, whose ordinals are their bytes),
and in the shell `sort` under the user's locale (`SortsAfter`, of which `Collate` is
a constant); `BinaryName` and `ParseBinaryName`; `ParseDuration` in a
machine word of any width; `DefaultLogicalPath` and `NormalizePath`; `Marshal` and
`Unmarshal` of a container.  A text is a sequence of the tokens its reader tells
apart ("nothing" is what stands between two slashes in a row, "none" the unit of a
bare number).  The module asks one question and stops, so that TLC tries every input
up to the bounds.


## 3. What is checked

| run | instance | states, time | what it shows |
|---|---|---|---|
| `store_solo` | 1 process, 2 paths, 1 content, 2 passphrases, 3 identities, 2 faults, every command | 1,280,000, 1 min | **Openable**: a bundle always opens the metadata; **ImplementsVault**; **FloorNeverFalls** with one process; **RotationIsComplete**; **OneBundleLeft** |
| `store_clone` | 1 process, 2 paths, 2 identities, no faults, a clone at any time | 700,000, 30 s | **CloneIsWhole**: a clone that succeeds opens and has the secrets; **ListingExact**: a trusted listing is exact |
| `store_pair` | 2 processes, 2 paths, 2 contents, 2 identities, 1 release | 890,000, 2 min | the inductive invariant; **ImplementsVault** and **OnlyRemovalDeletes** with interleaved puts, moves, removals, reindexes and orphan prunes; **FloorFallsOnlyToAnOlderCopy** with releases and recorded digests of two sessions |
| `machine` | 2 processes (one writer at a time), command line and window, 2 identities, 3 unlock passphrases, 2 events | 1,740,000, 30 s | **UndisturbedKeyOpens**, **SetUpHeals**, **BreaksOnlyInAWindow**, and the inductive invariant |
| `agent` | 2 agents, 2 clients, 1 kill, passed deadline or failure, fairness | 270,000, 2 min | **ReachableUnlessOverlap**, **AnswersWithTheKey**, **SilentAfterStop**, **KeyIsReleased** |
| `window` | 2 stores, one not made yet, `$ANGOU_STORE` set or not, 2 user actions each begun with at most 1 goroutine or closure under way, 1 failure, fairness | 1,340,000, 90 s | **WindowIsOfOneStore**, **LoadingEnds**, **SettlesOnTheStore** |
| `release` | 2 kinds on 1 platform, 4 tools (unstamped, two commits of one version, the next version), 7 contents of `dist/`, among them a stale one and a build without a version of a release's commit, 2 keys, 2 releases, 1 fault, prunes and installers | 3,880,000, 2 min | **NewestStays**, **FloorIsCarried**, **CompletedReleaseVerifies**, **CompletedReleaseIsConsistent**, **RecordIsTrue**, **OnlyInterruptionsUnsign**, **InstalledIsAdmitted**, **SoundRunsEndWell** |
| `files` | 3 places, two of them beneath `--dest`, 2 names, 2 contents, 2 modes, 2 commands, 2 edits by others, 1 fault, no O_NOFOLLOW | 7,120,000, 2 min | **StoresTheFile**, **LandsAsStored**, **CandidatesAccounted**, **ReplacesWithConsent**, **GetStaysInside** |
| `formats` | versions of 3 parts (compared in threes: 2), 3 suffixes a locale sorts otherwise than their bytes, a word of 8 bits, payloads of 4, paths of 3 segments of 7 kinds | 1,620,000, 20 s | **VersionsAreOrdered**, **InstallersAgree**, **LifetimeExact**, **NamesKeepDirectories**, **RoundTrips** |
| `store_two_interruptions`, `store_prune_race`, `machine_window` | see section 6 | | statements of the documentation or the window the code does not keep |

The properties are stated in `StoreProperties`, and at the end of the other
modules, each with the code it is about.

**Why the bounds are enough.**  Three identities are needed for a rotation over an
interrupted rotation, and two faults interrupt both; a third interruption finds
the store in a state the first two already reach (an old, a half-landed and a live
key).  Two paths are needed for a move and for a sweep that takes one blob and
leaves another.  One content suffices with one process (a secret is present or
not); two processes need two contents to tell whose write won.  The pair run has
no faults: a killed process differs from one that is never scheduled again only in
that its memory is gone, and no property of that run reads memory that no step
will use; kills *and* two processes are covered by the proofs for the properties
they share.  In `machine`, two identities (current, superseded), a third
passphrase for a set-up over a rotated one, and two events let any step fail after
something else changed.  In `agent`, two agents make an overlap and a takeover,
two clients make one wait while the other is answered.  In `window`, a store
made while another is shown needs two stores, and an operation, or a choice of
store, that overtakes a load needs one load under way and one or two actions; each
action starts up to three goroutines, so that several run at once all the same.
In `store_clone`, a clone beside one process meets every file of that process's
commands at any stage; faults are `store_solo`'s subject, and one content suffices
because a path's history is noted.  In `release`, a second release over what a first
left half done needs two releases and a fault; two commits of one version are what a
stale `dist/` holds, an unstamped build what `go run` gives; retention tells kinds
apart only with two of them.  In `files`, two commands store a file and bring it
back, one edit can come between any two steps of either, and two put a link there
and change what it leads to; a platform that can refuse a link at the open does less,
and is in the theorems.  In `formats`, three
parts reach past the parts two versions share and into the fourth-part default of
the installers, and a word of 8 bits wraps as 64 bits do; 2-part versions in threes
suffice for an order that compares part by part.
`CHECK_DEADLOCK FALSE` appears where the system may rest: agents that have all gone,
a window whose user is done, releases and commands that have been run as often as
the bound allows, the question of `formats` once it is put, violation runs whose
small command sets end.  Symmetry is used for safety only, over values no
action or property names.

**Assumptions**, constants of the model so that each is visible:

* `Exclusive`: a rotation, a passphrase change, a prune of bundles and `init` run
  while no other process has the store open.  The code has no lock and does not
  enforce this; without it, a put during a rotation is lost with the old key's blobs.
  Releases, recorded digests, puts, moves, removals, reindexes and orphan prunes of
  several processes run beside each other.
* `TidyFirst`: a rotation starts only when the current bundle carries the live
  key, that is, `prune` or `passwd` ran after an interrupted one.  Without it two
  interruptions lock the store (`store_two_interruptions`).
* In Machine, one command at a time changes the machine's state: two concurrent
  `rekey --local` share one staged path, nothing in the code prevents them.
* `Quiet` in Release: no installer runs while a release writes; it may run beside
  prunes, and over what an interrupted release left.  Without it the installer finds
  torn files and stops at the signature, as it should.
* One release at a time.  Two machines that release into one synced store at once
  are not modelled.

**Fairness.**  `Agent`: the agent's own goroutines run and its timer fires; nothing is
assumed of clients, of `Accept` (nobody need call) or of `unlock` (a prompt may
wait for ever).  `Window`: some goroutine and the UI thread go on, each as a whole
(no goroutine is promised its turn before another), and prompts are answered, if
only by closing them; the user need do nothing.  The other modules state no liveness
and assume no fairness.

**Exceptions.**  Some properties name a case they say nothing of, because the code
does what they would forbid; each is stated so that nothing *but* that case breaks it,
and what the case leads to is in section 6.

`ImplementsVault` and `OnlyRemovalDeletes` except `UnlinksUnseen`, the unlink of an
orphan prune when the file is not what its look read, since another process changed
it or the read failed; `store_prune_race` shows that step taking a secret.
`FloorFallsOnlyToAnOlderCopy` is what remains of "the floor only ever rises" when
several sessions are open; `FloorNeverFalls` is about one.  `ListingExact` is for one
process and no fault: after a lost index the next put writes one of a single entry,
and later sessions trust it.  `ReachableUnlessOverlap` excepts starts that overlapped,
in which the later agent takes the socket from the earlier; that the one cut off
still gives up its key is `KeyIsReleased`, which excepts nothing.

`WindowIsOfOneStore` and `SettlesOnTheStore` hold as long as nothing was *overtaken*
(`crossed`): the window moved to another store, or an operation changed the store,
while a listing or a row's dialog was under way.  That is no assumption of the model
but the edge of what the code ensures: `loadEntries` applies its result without
looking which store it came from (see section 6).  `CloneIsWhole` excepts a clone
during which a rotation committed, and TLC shows why: a clone that lists
`bootstrap/` before the old bundle is retained copies the new bundle, and may copy
`store.angou` before it is replaced; nothing opens that copy, and the command reports
success.  `StoresTheFile` and `LandsAsStored` except an edit by others between the
first look and the act (`raced`): an edit between read and stat does store one file's
content with another's mode, and nothing in the code could tell.  `LandsAsStored` also
excepts the files behind links.  `ReplacesWithConsent` covers a file that is replaced
while the questions are open; it excepts one that comes there meanwhile where none
was, which is replaced unasked.  `GetStaysInside` excepts nothing, and claims less
for a platform without O_NOFOLLOW: there it may change another file, but none outside
`--dest`.  `CompletedReleaseVerifies` is about the newest binary of a target
(`Settled`): a killed newer release hides it.  `OnlyInterruptionsUnsign` and
`RecordIsTrue` except a release that was cut short while it stashed, and a name that
was being pruned meanwhile (`cut`).  `InstalledIsAdmitted` speaks of the version in the
name: the version a binary reports is checked by nobody, so a build of a release's
commit that reports another may be installed under its name and then be refused by
the floor (section 6).  `InstallersAgree` excepts, for `bootstrap.sh`, two suffixes
the user's locale does not sort as their bytes.  `LifetimeExact` excepts wrapped
products, `NamesKeepDirectories` files on two sides of the home directory.


## 4. What is proved

TLAPS proves these for every value of the constants, that is for any number of
processes, paths, passphrases, identities, releases, prunes, stores, goroutines and
faults, and for texts of any length.  Every safety property a passing run checks is a
theorem but two, `CloneIsWhole` and, for one process, `FloorNeverFalls`.

* **Store** (`StoreProofs`).  `TypeCorrect` needs no assumption on who runs when. Under
  `Exclusive /\ TidyFirst`: `StoreInvariant`, `StoreOpenable`, `FloorHolds`,
  `OneBundleIsLeft`.  *Openable* is not inductive: a rotation removes the current bundle
  while the old metadata stands.  `StoreInvariant!IInv` adds what each step counts on: a
  running process's identity is the one on disk until it swaps the metadata (`InSync`,
  which needs `RunsAlone`); which bundle opens the store at each step of a rotation
  (`RekeyPhase`: not half-swapped until the bundle is retained; from then on a retained
  bundle opens it; the new bundle is in place before the metadata) and of a prune
  (`BundlePhase`).  `FloorHolds` is about sessions that raise the floor beside each
  other: it shows which of them can lower it, and that a rotation, which is alone,
  carries the floor on disk.  One lemma, `StepOf`, turns "p takes a step" into "no other
  process is affected", so that `NextIInv` has one step per action and only that
  process's phase to show.
* **Store and Vault** (`VaultProofs`, under `Exclusive /\ TidyFirst`).  `BlobInvariant`
  follows every blob.  `StoreBlobs!BlobInv` says that no file and no process knows a key
  that is yet to be generated (`Generations`: without it a new key could read old
  files), and for a process that rotates: the secrets under the old key stay until the
  metadata is swapped (`OriginalsStay`); what is staged are copies of them, one of each
  (`Staging`); and which of the copies have landed and which originals the sweep has yet
  to take (`Landing`).  From it follow `RotationsComplete`, `OnlyRemovalsDelete` and the
  refinement `StoreImplementsVault`: each action of Store is a step of Vault or leaves
  its variables alone.  Only three kinds of steps are no stutter: a put's, a move's or a
  removal's file write, the start of a command that asks for one, and its end.  The
  unlink of an orphan prune is a stutter where it takes what its look read, which the
  key did not decrypt (`LooksFirst`), and the excepted step otherwise.  The swap of the
  metadata, at which every secret changes its key, its name and its file at once, is a
  stutter because `BlobInv` has the copies in place.  The refinement leaves out `mv a a`
  (section 6), which does not implement a move. `ListingsExact` is proved for one
  process and no fault (`Single`): the index is a cache that two sessions, or a kill
  before its write, leave behind the blobs, and a trusted listing is then wrong until
  the next reindex.  With one process a prune unlinks what it read (`LooksTrue`). 
  `IndexInv` says where between the steps of a command the index on disk and the one in
  memory are exact.
* **Machine** (`MachineProofs`).  `MachineInvariant`, `TypeCorrect`,
  `KeyOpensUndisturbed`, `SetUpPasses`, `KeyBreaksInAWindow`, with no assumption
  beyond the model's.  The
  invariant separates what holds whatever happens (`OneWriter`, `Flow`, `Drawing`,
  `Installing`) from what holds as long as no event came since the command began
  (`Undisturbed`) or ever (`KeyOpens`).  It covers the window's commands as well:
  `KeyOpens` is stated for a machine the window has not rotated (`leftBehind`), and a
  set-up from the window repairs the rest.  `Alone` says that what one writer changes
  disturbs no other process, `Ends` that a command's end leaves the invariant.
* **Agent** (`AgentProofs`).  `TypeCorrect`, `AgentInvariant`, `Reachable`, `KeySent`,
  `SilentOnceOver`.  The last is a property of behaviours (*once stop is decided,
  never the key again*): it is proved from a state predicate, `Over(a)`, that every
  step preserves.
* **Release** (`ReleaseProofs`).  All eight properties of its run, and `TypeCorrect`. A
  prune works from a list made before releases that overlap with it, so that *the newest
  stays* needs `ListedAreOutlived`: a name on a prune's list has something newer than it
  in the store, and keeps it for as long as it is on the list.  The floor and a
  release's success need `StashedOrOutlived` (what a release has stashed is there or has
  been outlived) and `Published` (which of key, installers, signatures and digests agree
  at which step); `OnlyInterruptionsUnsign` needs `Uncut`, and `RecordsAreTrue` that
  what is stored under a name was of the tool's commit when it was accepted and that its
  record follows it (`CommitsKept`, `DescribedOrStashing`). `InstalledIsAlwaysAdmitted`
  and `SoundRunsAlwaysEndWell` assume `Quiet` and rest on `InstallerInv` and `SoundInv`,
  which say what the installer has seen stays true of the store while prunes run.
* **Files** (`FilesProofs`).  All five properties of its run, and `TypeCorrect`, with
  no assumption.  The invariant says what the command has reason to believe of the
  files at each step: what it has read while nobody changed it (`Read`), what it was
  told when it asked (`Asked`) and for which file it was allowed to go on
  (`Consented`), what it has written (`Landed`), and where each candidate of a scan is
  (`Accounted`).  `GetAlwaysStaysInside` is for platforms with and without O_NOFOLLOW.
  `PutStoresTheFile` is proved with its exception, an edit during the put, and says no
  more than that the steps fit together.
* **Window** (`WindowProofs`).  `TypeCorrect` and `WindowKeepsToOneStore`, with no
  assumption.  The property says nothing of what is on its way, so the invariant adds
  it: unless the window was overtaken (`crossed`), a load under way (`TaskFits`) and a
  listing a closure will show (`ClosureFits`) are of the window's store, and an
  operation acts on the store of the row it was confirmed on.
* **Formats** (`FormatsProofs`).  The five properties of its run for texts of any
  length: `SortingByVersionsIsSound`, `InstallersChooseAlike`, `LifetimesAreExact`,
  `NamesAreKept`, `WhatIsWrittenIsReadBack`.  Two versions are ordered by the first part
  in which they differ (`Below`), a missing part counting as 0, and this order of
  infinite sequences is transitive (`BelowIsAnOrder`); `Comparing` says that
  `CompareVersions` is that order and then that of the suffixes.  Releases' versions
  have four parts at most, which is why the installers' four suffice
  (`FourPartsSuffice`); suffixes are alike to PowerShell as they stand, and to the shell
  where its locale sorts them as bytes (`SuffixesAlike`).  A blob is read back because
  the first empty line is the header's and the last closing line the writer's, whatever
  the payload holds (`ReadBack`).  Names need what a recursive definition computes: that
  a cleaned path holds no "..", "." or empty segment (`CleanIsClean`).  No theorem on
  induction can be used (each takes an operator as a parameter), so the two inductions,
  that the recursive function exists and what it yields, are by the least
  counterexample, which `Least` takes from the well-foundedness of the numbers.

The assumptions on the constants (`ConstantsAssumption`, `NoneAssumption`,
`MachineConstants`, `AgentConstants`, `ReleaseConstants`, `FilesConstants`,
`WindowConstants`, `FormatsConstants`) say that bounds are numbers, that there are
finitely many builds, and that markers are not values.  TLC evaluates them in every run.

`TypeCorrect` of each is proved although no run lists the type invariant of its own:
`IInv` holds it in `store_pair` and `machine`.  The invariants of Release, Files,
Window and of Store's blobs and index were checked by TLC on the instances of their
runs while they were found; the runs list the properties, which the theorems derive
from them.

**Model-checked only.**  Liveness (`KeyIsReleased`, `LoadingEnds`,
`SettlesOnTheStore`) is out of the prover's reach.  `CloneIsWhole` is not proved: it
needs, beyond `BlobInv`, what each path has held since the clone listed the root.

Operators marked *Mutant:* in the modules are not used by any specification.  Each is
a definition changed as a plausible bug would change it, kept to confirm that the
run of a property finds that bug.


## 5. Hazards, and what watches them

PROJECT.json lists them by source line.  The main ones: the five windows of a
rotation's commit (`Openable`, `ImplementsVault`, `RotationIsComplete`); a prune
beside a put (`PrunesOnlyUnreadable`, `OnlyRemovalDeletes`); a copy of a store in use
(`CloneIsWhole`); what a session read when it opened
(`FloorFallsOnlyToAnOlderCopy`); the keyring and the file (`BreaksOnlyInAWindow`,
`SetUpHeals`); the timer beside a request (`AnswersWithTheKey`, `SilentAfterStop`); an
agent nobody can reach (`KeyIsReleased`); loads that call for loads (`LoadingEnds`); a
release cut short, and one over its leftovers (`FloorIsCarried`,
`CompletedReleaseVerifies`, `CompletedReleaseIsConsistent`, `OnlyInterruptionsUnsign`,
`RecordIsTrue`); a prune working from an old list beside a release and an installer
(`NewestStays`, `SoundRunsEndWell`); files that change between a look and an act
(`ReplacesWithConsent`, `GetStaysInside`); one order of versions in three languages
(`VersionsAreOrdered`, `InstallersAgree`).

Some have no property, each with its reason there: those an assumption excludes (a put
beside a rotation, two `rekey --local` at once), and those where the code does what a
property would forbid, so that the property of that part excepts it (index entries
lost between two sessions or after a lost index, a listing that arrives late in the
window, a file edited between read and stat, a kill in the middle of a decryption,
lifetimes that wrap, a build that reports another version than its commit's release,
the unticked box, the Release section's listing, which is not reloaded after a stash).


## 6. Where code and documentation part

Three have a run TLC finds violated.

1. `store_two_interruptions`: two rotations killed between bundle and metadata,
   with no prune in between, leave no bundle of the live key (`rekey.go:164`;
   `bundles.go:19-22` calls the window "recoverable instead of fatal").
2. `machine_window`: the window's rotation does not forget this machine's local key
   (`gui/views.go:562`), as the command line's does (`cli/rekey.go:114-126`); the
   window says that "every other machine loses access" (`views.go:549-550`), but the
   superseded local key is then the only route this machine takes, too.
3. `store_prune_race`: `PruneOrphans` reads a file (`rekey.go:353`) and removes its
   name (`rekey.go:361`).  If another process removes the blob before the read and a
   put files it again before the removal, the prune takes the new secret, though it
   "removes blob-shaped files this store's key cannot read" (`rekey.go:338`).  A read
   that fails for any other reason sends a live blob the same way.

Noticed in the store, the machine and the agent, without a run in this project: rotating
an empty store fails at the missing staged index after the key was replaced
(`rekey.go:175`; README 885-886); `mv a a` removes a (`store.go:413`, against
`cli/mutate.go:30`); of two sessions opened at the same floor the lower may write last,
and a session opened before a release writes the old floor back with the next digest it
records (`store.go:277-282`, against "the floor only ever rises", `store.go:272`); a put
over a lost or foreign index writes an index of its one entry (`store.go:342`), which
the next session trusts (`store.go:530`), so that `ls` hides the rest until a reindex;
of two sessions that put, the index of the later loses the other's entry; `bootstrap
--force` with the keyring down says the recovery passphrase is the way in, and the local
key left in place is the only route tried (`bootstrap.go:65`, `cli/bootstrap.go:30-31`);
an agent that ends removes another's socket, and `agent stop` then reports that none
runs (`server.go:117`, `cli/agent.go:106-108`).

Further: a stale socket makes `agent stop` print
"Stopped" (`core/agent.go:60`) and `agent status` fail; `bootstrap --force` whose
`localkey.Write` fails has already replaced the entry the old key needs;
`bootstrap --forget` with an agent running leaves the store open without a
passphrase until the agent ends; a damaged local key cannot be forgotten, since
the file names the entry; entries of superseded identities stay in the keyring
when it was down at the rotation; a put during a rotation is lost.

In the clone: one made while a rotation commits may open with nothing (section 3),
against "the copy opens with the same recovery passphrase" (`cli/clone.go:24`).  What
an unfinished clone leaves stays at the destination, may already open, with secrets
missing, and a second clone refuses that directory.  The window's clone
(`gui/dialogs.go:422-442`) checks neither that the destination does not exist, as its
placeholder says, nor that it lies outside the source (README 693-694), and merges
into an existing directory until a name collides.  `IsInside` compares names
(`clone.go:75-91`): a destination inside the source through a link passes.

In a release: one built for some platforms raises the floor for all, and locks the
others out, while `session.go:310` tells them of an installer.  A GUI-only release
raises the floor.  A newer stash that was killed hides an older complete release from
the installer, and `prune --bootstrap` cannot remove the newest.  An unverifiable GUI
binary ends the installer, of which `bootstrap.sh:255-257` says "nothing below may fail
the install". After a change of the signing key, platforms that were not rebuilt can be
installed from no longer.  The record beside a binary carries no signature of its own,
which `core/release.go:217` says it does.  `verifyArtifactIsThisBuild` compares commits:
a build of the same commit that reports `dev` or another version (a plain `go build`,
`VERSION=` on make's command line), or one of a modified tree, passes and is recorded
under the tool's version, so the case its comment tells of (`release.go:214-223`, a
binary the floor then refuses) remains for one commit.  The window's listing calls every
binary signed (`gui/state.go:525-529`) and is not read again after a stash
(`state.go:533`); a declined open in that section is asked again at the next drawing,
against `state.go:157-159`.

In the files: an edit between `EncryptFile`'s read and its stat stores one file's
content with another's mode (`ops.go:248-257`); a file that comes to the recorded place
while the questions are open is replaced unasked, and where a link comes there it is
followed (`ops.go:193`, `126`).  On Windows a link put into `--dest` between check and
open is followed within it, as `nofollow_windows.go:6-11` says, and `Chtimes` may set
the times of another file there, as `extract.go:74-78` says.  The window's decrypt
dialog reads its box "Replace an existing file at that path" (`gui/dialogs.go:46`) only
for the recorded place; another path is truncated with the box unticked
(`dialogs.go:76`): `DecryptOther` never looks at `ticked`.

In the pure functions: `bootstrap.sh` orders pre-release suffixes by `sort` under the
user's locale (`bootstrap.sh:108-109`, no `LC_ALL`), where Go and PowerShell compare
bytes: in most locales "0.2.0-Beta" and "0.2.0-alpha" come out the other way, against
`bootstrap.sh:75`.  A bare number of seconds, days or weeks is multiplied in 64
bits before it is checked to be positive (`duration.go:29`, `69`), so that a huge one
may pass as a short lifetime; `describeTTL` may print "1 day 24h0m0s".  To
`bootstrap.sh`, whose `cut` gives a text without a dot for every part, "3" is newer
than "3.2", against `bootstrap.ps1:82`; a version of `git describe` sorts below its
tag.  Releases' own version numbers have neither shape.  Two files, one below the home
directory and one elsewhere, may get one logical path when candidates are encrypted
from `/`, against `logicalpath.go:23-25`: the later replaces the earlier, which
`CandidatesAccounted` and `NamesKeepDirectories` make room for.

In the window: a set-up asks nothing about a local key that is there, and a rotation
asks for the recovery passphrase once, without the confirmation and the check the
command line makes.  Without the exception for `crossed`, TLC finds in seven steps an
operation confirmed on a row of one store that acts on another (choose a store while the
first listing loads, let the listing arrive, act on a row); only the library's progress
popup, after 300 ms, stands in the way.  When the choice of a store cannot be
remembered, the status bar names it and the banner says "This window is using it"
(`state.go:80-81`), but `storeDir()` reads the configuration file and goes on with the
previous one.  First-run set-up of an existing store opens it three times or more
(`state.go:90`, `dialogs.go:242` and `264`); the comment says "rather than by opening a
second time".  An open that is declined for any operation marks the listing as loaded
(`state.go:160`), and the section says "This store holds nothing yet" at its next
drawing.  An agent's answer that arrives during a load draws the section again and
starts a second load, with a second prompt.  The raw toggle sorts the rows without
clearing the selection (`views.go:191-196`), which the header's click does clear, with
the reason (`views.go:149-152`).


## 7. Plan

Done: Vault, Store, Machine, Agent, Window, Release, Files, Formats with their runs
and proofs; Clone with its run.  Next, in this order:

1. **Clone's proof**: an invariant on `BlobInv` that relates the copy to what each path
   has held since the clone began, and which bundle was copied before which metadata.
2. **Listings of several processes**: what a trusted listing still promises when two
   sessions write the index (the paths it names were there when the session opened).
3. **Replicas**: two copies of a store synced file by file while commands run: which
   mixtures of old and new files open.

Not to be modelled: the cryptography (assumed ideal), prompts and word lists,
output, the platform keyrings' protocols, installation and packaging scripts other
than the installers a release writes, `doctor` (reads only), what `scan` takes for a
credential (heuristics over names and contents).
