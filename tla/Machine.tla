------------------------------ MODULE Machine ------------------------------
(***************************************************************************)
(* One machine's way into one store (internal/localkey, the core functions *)
(* SetUpMachine, RotateLocalPassword, ForgetMachine and Open, and the      *)
(* commands that call them).                                               *)
(*                                                                         *)
(* The machine may hold a local key: a file with the store's identity,     *)
(* sealed by an unlock passphrase whose only copy is an entry of the       *)
(* platform keyring.  File and entry are two places, changed one after the *)
(* other; the store's identity may meanwhile be rotated, here or on        *)
(* another machine.  A command opens the store from a running agent, else  *)
(* from the local key if there is one, else with the recovery passphrase;  *)
(* a local key that does not open is an error and no reason to fall back.  *)
(*                                                                         *)
(* Identities are numbers, and a keyring entry is named by its identity    *)
(* (the fingerprint).  Unlock passphrases are numbers drawn once each.     *)
(* Recovery passphrases are always the right ones here; Store.tla has the  *)
(* wrong ones, and what a rotation does to the store.                      *)
(***************************************************************************)
EXTENDS Naturals

CONSTANTS
    Procs,       \* processes: one command at a time each
    MaxKey,      \* bound: identities the store ever has
    MaxSecret,   \* bound: unlock passphrases ever drawn
    MaxEvents,   \* bound: kills, failed steps, and outside changes
    Commands,    \* the commands this instance runs
    None,        \* no file
    Damaged      \* a local key file that does not parse

\* Commands that change the machine's state.  "bootstrap" is bootstrap without
\* --force, "force" is bootstrap --force; the last two are the desktop window's
\* buttons, where they do otherwise than the command line.
Writers == {"bootstrap", "force", "forget", "rekeyLocal", "rekeyIdentity",
            "windowBootstrap", "windowRotate"}

Keys     == 1..MaxKey
Secrets  == 1..MaxSecret
LocalKey == [key : Keys, secret : Secrets]

ASSUME MachineConstants ==
    /\ MaxKey \in Nat \ {0}
    /\ MaxSecret \in Nat
    /\ MaxEvents \in Nat
    /\ Commands \subseteq Writers \cup {"use", "agent"}
    /\ None \notin LocalKey
    /\ Damaged \notin LocalKey
    /\ None # Damaged
    /\ None \notin Writers \cup {"use", "agent"}

VARIABLES
    storeKey,    \* the identity that opens the store
    ring,        \* ring[k]: the keyring entry for identity k, 0 when absent
    ringUp,      \* a keyring is reachable
    local,       \* identity.local
    staged,      \* identity.local.staged
    agent,       \* the identity a running agent holds, 0 when none runs
    nextSecret,  \* the next unlock passphrase to draw
    leftBehind,  \* history: the window rotated and left a superseded local key
    events,      \* kills, failures and outside changes so far
    pc,          \* pc[p]: "idle", or the next step of p's command
    job          \* job[p]: p's command and its local variables

vars == <<storeKey, ring, ringUp, local, staged, agent, nextSecret, leftBehind, events, pc, job>>

NoJob == [cmd |-> None, key |-> 0, secret |-> 0, test |-> FALSE, since |-> 0]

Pcs == {"idle", "unlock", "get", "read", "hold", "export", "bootSet", "bootStage",
        "stage", "set", "commit", "rotate", "forgetRing", "forgetFile"}

Job == [cmd : Commands \cup {None}, key : Keys \cup {0}, secret : Secrets \cup {0},
        test : BOOLEAN, since : 0..MaxEvents]

TypeOK ==
    /\ storeKey \in Keys
    /\ ring \in [Keys -> Secrets \cup {0}]
    /\ ringUp \in BOOLEAN
    /\ local \in LocalKey \cup {None, Damaged}
    /\ staged \in LocalKey \cup {None}
    /\ agent \in Keys \cup {0}
    /\ nextSecret \in 1..(MaxSecret + 1)
    /\ leftBehind \in BOOLEAN
    /\ events \in 0..MaxEvents
    /\ pc \in [Procs -> Pcs]
    /\ job \in [Procs -> Job]

Init ==
    /\ storeKey = 1
    /\ ring = [k \in Keys |-> 0]
    /\ ringUp = TRUE
    /\ local = None
    /\ staged = None
    /\ agent = 0
    /\ nextSecret = 1
    /\ leftBehind = FALSE
    /\ events = 0
    /\ pc = [p \in Procs |-> "idle"]
    /\ job = [p \in Procs |-> NoJob]

Goto(p, label) == pc' = [pc EXCEPT ![p] = label]

\* The command is over, whether it reports success or an error.
End(p) == Goto(p, "idle") /\ job' = [job EXCEPT ![p] = NoJob]

\* localkey.Exists: there is a file; whether it is any good is not asked.
HasLocalKey == local # None

Opens(file) == file \in LocalKey /\ ring[file.key] = file.secret

\* The local key opens the store as it is now.
Usable == Opens(local) /\ local.key = storeKey

---------------------------------------------------------------------------
\* Starting a command.

\* One command at a time changes the machine's state (there is no lock: two
\* writers at once are excluded by assumption); any number may read it.
MayStart(p, cmd) ==
    /\ pc[p] = "idle"
    /\ cmd \in Commands
    /\ cmd \in Writers => \A q \in Procs : job[q].cmd \notin Writers

Begin(p, cmd, key, label) ==
    /\ job' = [job EXCEPT ![p] = [NoJob EXCEPT !.cmd = cmd, !.key = key, !.since = events]]
    /\ Goto(p, label)
    /\ UNCHANGED <<storeKey, ring, ringUp, local, staged, agent, nextSecret, leftBehind, events>>

\* Bound: there is an unlock passphrase left to draw.
CanDraw == nextSecret <= MaxSecret

\* bootstrap refuses a machine that holds a local key, unless forced.
Bootstrap(p) ==
    /\ CanDraw
    /\ \/ MayStart(p, "bootstrap") /\ ~HasLocalKey /\ Begin(p, "bootstrap", 0, "export")
       \/ MayStart(p, "force") /\ Begin(p, "force", 0, "export")

\* forget has nothing to do without a local key, and fails on a damaged one:
\* the file says which keyring entry to remove.
Forget(p) ==
    /\ MayStart(p, "forget")
    /\ local \in LocalKey
    /\ Begin(p, "forget", local.key, "forgetRing")

\* The command line refuses a machine without a local key; the window's button does
\* not ask, and sets such a machine up.
RekeyLocal(p) ==
    /\ MayStart(p, "rekeyLocal") /\ CanDraw
    /\ Begin(p, "rekeyLocal", 0, "unlock")

RekeyIdentity(p) ==
    \E cmd \in {"rekeyIdentity", "windowRotate"} :
        MayStart(p, cmd) /\ Begin(p, cmd, 0, "unlock")

\* The window opens the store first, by whatever route, and asks for nothing else.
WindowBootstrap(p) ==
    /\ MayStart(p, "windowBootstrap") /\ CanDraw
    /\ Begin(p, "windowBootstrap", 0, "unlock")

\* Any command that only opens the store.
Use(p) == MayStart(p, "use") /\ Begin(p, "use", 0, "unlock")

\* agent start refuses while another agent holds the store.
StartAgent(p) == MayStart(p, "agent") /\ agent = 0 /\ Begin(p, "agent", 0, "unlock")

---------------------------------------------------------------------------
\* Opening the store: agent, local key, recovery passphrase (core.open).

\* Where a command goes once the store is open with job[p].key.
FirstStep(cmd) ==
    CASE cmd = "rekeyLocal" -> "stage"
      [] cmd \in {"rekeyIdentity", "windowRotate"} -> "rotate"
      [] cmd = "windowBootstrap" -> "export"
      [] cmd = "agent" -> "hold"
      [] OTHER -> "idle"

\* A self-test ends the command, and so does a plain use.
Opened(p, key) ==
    IF job[p].test \/ job[p].cmd = "use"
    THEN End(p)
    ELSE /\ job' = [job EXCEPT ![p].key = key, ![p].secret = 0]
         /\ Goto(p, FirstStep(job[p].cmd))

\* An agent whose identity no longer opens the store is passed over.
Unlock(p) ==
    /\ pc[p] = "unlock"
    /\ \/ agent = storeKey /\ Opened(p, agent)
       \/ agent # storeKey /\ HasLocalKey /\ Goto(p, "get") /\ UNCHANGED job
       \/ agent # storeKey /\ ~HasLocalKey /\ Opened(p, storeKey)
    /\ UNCHANGED <<storeKey, ring, ringUp, local, staged, agent, nextSecret, leftBehind, events>>

\* OpenLocal: which entry to read comes from the file, the entry from the keyring.
GetSucceeds(p) ==
    /\ pc[p] = "get"
    /\ ringUp /\ local \in LocalKey /\ ring[local.key] # 0
    /\ job' = [job EXCEPT ![p].key = local.key, ![p].secret = ring[local.key]]
    /\ Goto(p, "read")

GetFails(p) ==
    /\ pc[p] = "get"
    /\ ~(ringUp /\ local \in LocalKey /\ ring[local.key] # 0)
    /\ End(p)

\* localkey.Read loads the file again; what it holds must open with the entry,
\* and its identity must open the store.
ReadSucceeds(p) ==
    /\ pc[p] = "read"
    /\ local \in LocalKey /\ local.secret = job[p].secret /\ local.key = storeKey
    /\ Opened(p, local.key)

ReadFails(p) ==
    /\ pc[p] = "read"
    /\ ~(local \in LocalKey /\ local.secret = job[p].secret /\ local.key = storeKey)
    /\ End(p)

OpenLocal(p) ==
    /\ GetSucceeds(p) \/ GetFails(p) \/ ReadSucceeds(p) \/ ReadFails(p)
    /\ UNCHANGED <<storeKey, ring, ringUp, local, staged, agent, nextSecret, leftBehind, events>>

HoldInAgent(p) ==
    /\ pc[p] = "hold"
    /\ agent' = job[p].key
    /\ End(p)
    /\ UNCHANGED <<storeKey, ring, ringUp, local, staged, nextSecret, leftBehind, events>>

---------------------------------------------------------------------------
\* Setting the machine up: bootstrap, with or without --force (SetUpMachine).

\* Without a keyring nothing is written and the command succeeds.
BootstrapWithoutKeyring(p) ==
    /\ pc[p] = "export" /\ ~ringUp
    /\ End(p)
    /\ UNCHANGED <<storeKey, ring, ringUp, local, staged, agent, nextSecret, leftBehind, events>>

\* Draw a fresh unlock passphrase for an identity.
Draw(p, key) ==
    /\ nextSecret' = nextSecret + 1
    /\ job' = [job EXCEPT ![p].key = key, ![p].secret = nextSecret]

\* The identity comes from the store's key bundle, or from the window's session.
Exported(p) == IF job[p].cmd = "windowBootstrap" THEN job[p].key ELSE storeKey

Export(p) ==
    /\ pc[p] = "export" /\ ringUp
    /\ Draw(p, Exported(p))
    /\ Goto(p, "bootSet")
    /\ UNCHANGED <<storeKey, ring, ringUp, local, staged, agent, leftBehind, events>>

\* Mutant: an entry that exists already is kept.
SetEntryOnce(p) ==
    ring' = [ring EXCEPT ![job[p].key] = IF @ = 0 THEN job[p].secret ELSE @]

\* ring.Set replaces the entry of this identity.
SetEntry(p) == ring' = [ring EXCEPT ![job[p].key] = job[p].secret]

\* Keyring first.
BootSet(p) ==
    /\ pc[p] = "bootSet"
    /\ \/ ringUp /\ SetEntry(p) /\ Goto(p, "bootStage") /\ UNCHANGED job
       \/ ~ringUp /\ End(p) /\ UNCHANGED ring
    /\ UNCHANGED <<storeKey, ringUp, local, staged, agent, nextSecret, leftBehind, events>>

\* localkey.Write: the staged file, then its rename.
BootStage(p) ==
    /\ pc[p] = "bootStage"
    /\ staged' = [key |-> job[p].key, secret |-> job[p].secret]
    /\ Goto(p, "commit")
    /\ UNCHANGED <<storeKey, ring, ringUp, local, agent, nextSecret, leftBehind, events, job>>

\* CommitStaged, and then the self-test opens the store the new way.
Commit(p) ==
    /\ pc[p] = "commit"
    /\ local' = staged
    /\ staged' = None
    /\ job' = [job EXCEPT ![p].test = TRUE]
    /\ leftBehind' = FALSE
    /\ Goto(p, "get")
    /\ UNCHANGED <<storeKey, ring, ringUp, agent, nextSecret, events>>

---------------------------------------------------------------------------
\* rekey --local: a fresh unlock passphrase (RotateLocalPassword).

\* Mutant: the replacement is held in memory until the keyring has the new
\* passphrase.
StageLater(p) ==
    /\ pc[p] = "stage"
    /\ \/ ringUp /\ Draw(p, job[p].key) /\ Goto(p, "set")
       \/ ~ringUp /\ End(p) /\ UNCHANGED nextSecret
    /\ UNCHANGED <<storeKey, ring, ringUp, local, staged, agent, leftBehind, events>>

\* The replacement is on disk before the keyring entry is overwritten.
Stage(p) ==
    /\ pc[p] = "stage"
    /\ \/ /\ ringUp
          /\ Draw(p, job[p].key)
          /\ staged' = [key |-> job[p].key, secret |-> nextSecret]
          /\ Goto(p, "set")
       \/ /\ ~ringUp
          /\ End(p)
          /\ UNCHANGED <<staged, nextSecret>>
    /\ UNCHANGED <<storeKey, ring, ringUp, local, agent, leftBehind, events>>

\* A keyring that refuses the new passphrase leaves the old key in place.
Set(p) ==
    /\ pc[p] = "set"
    /\ \/ ringUp /\ SetEntry(p) /\ Goto(p, "commit") /\ UNCHANGED <<job, staged>>
       \/ ~ringUp /\ staged' = None /\ End(p) /\ UNCHANGED ring
    /\ UNCHANGED <<storeKey, ringUp, local, agent, nextSecret, leftBehind, events>>

---------------------------------------------------------------------------
\* rekey --identity on this machine, and forgetting the local key.

\* Mutant: the command line leaves the superseded local key in place, too.
RotateKeepingLocalKey(p) ==
    /\ pc[p] = "rotate"
    /\ job[p].key = storeKey /\ storeKey < MaxKey
    /\ storeKey' = storeKey + 1
    /\ End(p)
    /\ UNCHANGED <<ring, ringUp, local, staged, agent, nextSecret, leftBehind, events>>

\* The rotation itself is Store.tla's; a session of a superseded identity cannot
\* rotate (and none rotates past the bound).  The local key still wraps the old
\* identity; the command line forgets it, the window does not.
Rotate(p) ==
    /\ pc[p] = "rotate"
    /\ \/ /\ job[p].key = storeKey /\ storeKey < MaxKey
          /\ storeKey' = storeKey + 1
          /\ \/ /\ job[p].cmd = "rekeyIdentity" /\ local \in LocalKey
                /\ job' = [job EXCEPT ![p].key = local.key]
                /\ Goto(p, "forgetRing")
                /\ UNCHANGED leftBehind
             \/ /\ job[p].cmd = "rekeyIdentity" => local \notin LocalKey
                /\ End(p)
                /\ leftBehind' = (leftBehind \/ local \in LocalKey)
       \/ /\ job[p].key # storeKey \/ storeKey = MaxKey
          /\ End(p)
          /\ UNCHANGED <<storeKey, leftBehind>>
    /\ UNCHANGED <<ring, ringUp, local, staged, agent, nextSecret, events>>

\* An unreachable keyring keeps its entry, and the forgetting goes on.
ForgetRing(p) ==
    /\ pc[p] = "forgetRing"
    /\ ring' = IF ringUp THEN [ring EXCEPT ![job[p].key] = 0] ELSE ring
    /\ Goto(p, "forgetFile")
    /\ UNCHANGED <<storeKey, ringUp, local, staged, agent, nextSecret, leftBehind, events, job>>

\* The whole directory goes, a staged file with it.
ForgetFile(p) ==
    /\ pc[p] = "forgetFile"
    /\ local' = None
    /\ staged' = None
    /\ leftBehind' = FALSE
    /\ End(p)
    /\ UNCHANGED <<storeKey, ring, ringUp, agent, nextSecret, events>>

---------------------------------------------------------------------------
\* What happens around the commands.

Event == events < MaxEvents /\ events' = events + 1

Kill(p) ==
    /\ pc[p] # "idle"
    /\ Event
    /\ End(p)
    /\ UNCHANGED <<storeKey, ring, ringUp, local, staged, agent, nextSecret, leftBehind>>

\* The next step fails and the command returns its error; a keyring that
\* refuses rekey --local's new passphrase makes it discard the staged file.
Fail(p) ==
    /\ pc[p] # "idle"
    /\ Event
    /\ End(p)
    /\ staged' = IF pc[p] = "set" THEN None ELSE staged
    /\ UNCHANGED <<storeKey, ring, ringUp, local, agent, nextSecret, leftBehind>>

\* The agent's lifetime ends, or it is stopped.
AgentEnds ==
    /\ agent # 0
    /\ agent' = 0
    /\ UNCHANGED <<storeKey, ring, ringUp, local, staged, nextSecret, leftBehind, events, pc, job>>

RingStartsOrStops ==
    /\ Event
    /\ ringUp' = ~ringUp
    /\ UNCHANGED <<storeKey, ring, local, staged, agent, nextSecret, leftBehind, pc, job>>

LoseEntry ==
    /\ Event
    /\ \E k \in Keys : ring[k] # 0 /\ ring' = [ring EXCEPT ![k] = 0]
    /\ UNCHANGED <<storeKey, ringUp, local, staged, agent, nextSecret, leftBehind, pc, job>>

DamageLocalKey ==
    /\ Event
    /\ local \in LocalKey
    /\ local' = Damaged
    /\ UNCHANGED <<storeKey, ring, ringUp, staged, agent, nextSecret, leftBehind, pc, job>>

\* Another machine rotates the identity, and its files arrive here.
RotateElsewhere ==
    /\ Event
    /\ storeKey < MaxKey
    /\ storeKey' = storeKey + 1
    /\ UNCHANGED <<ring, ringUp, local, staged, agent, nextSecret, leftBehind, pc, job>>

---------------------------------------------------------------------------
Start(p) ==
    \/ Bootstrap(p) \/ Forget(p) \/ RekeyLocal(p) \/ RekeyIdentity(p)
    \/ WindowBootstrap(p) \/ Use(p) \/ StartAgent(p)

Step(p) ==
    \/ Unlock(p) \/ OpenLocal(p) \/ HoldInAgent(p)
    \/ BootstrapWithoutKeyring(p) \/ Export(p) \/ BootSet(p) \/ BootStage(p) \/ Commit(p)
    \/ Stage(p) \/ Set(p)
    \/ Rotate(p) \/ ForgetRing(p) \/ ForgetFile(p)

Outside == AgentEnds \/ RingStartsOrStops \/ LoseEntry \/ DamageLocalKey \/ RotateElsewhere

Next ==
    \/ \E p \in Procs : Start(p) \/ Step(p) \/ Kill(p) \/ Fail(p)
    \/ Outside

Spec == Init /\ [][Next]_vars

---------------------------------------------------------------------------
\* Properties.

NoWriter == \A p \in Procs : job[p].cmd \notin Writers

\* While nothing goes wrong, whatever commands are run and whichever route
\* opened the store for them, a local key left behind opens with its keyring
\* entry and holds the identity of the store as it is now (SetUpMachine,
\* RotateLocalPassword, and the forgetting after rekey --identity), unless the
\* window rotated the identity (KeyOpensThroughout).
UndisturbedKeyOpens ==
    (events = 0 /\ NoWriter /\ HasLocalKey /\ ~leftBehind) => Usable

\* The window says of a rotation: "Every other machine loses access until it
\* bootstraps again", so this machine's local key still opens the store.
KeyOpensThroughout == (events = 0 /\ NoWriter /\ HasLocalKey) => Usable

\* A command that sets this machine up, from any state it can be in (a missing
\* entry, a damaged or superseded key, files an earlier failure left), passes
\* its own self-test unless something happens while it runs.
SetUpHeals ==
    [][\A p \in Procs :
          (job[p].test /\ (GetFails(p) \/ ReadFails(p))) => events > job[p].since]_vars

\* A local key that opens the store stops opening it only when it is forgotten,
\* when the identity is rotated, by another outside event, while rekey --local
\* has its replacement on disk one rename away, or inside a set-up over a local key
\* that is there (bootstrap --force, and the window's, which does not ask).
BreaksOnlyInAWindow ==
    [][(Usable /\ ~Usable') =>
          \/ events' # events
          \/ Opens(staged)'
          \/ \E p \in Procs : pc[p] \in {"rotate", "forgetRing", "forgetFile"}
          \/ \E p \in Procs : job[p].cmd \in {"force", "windowBootstrap"} /\ pc[p] = "bootSet"]_vars
=============================================================================
