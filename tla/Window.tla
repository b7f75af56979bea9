------------------------------- MODULE Window -------------------------------
(***************************************************************************)
(* The desktop window (internal/gui): one UI thread, and goroutines that   *)
(* open a store, do their work and post what follows back to that thread.  *)
(*                                                                         *)
(* The window works with one store at a time, the one storeDir() names     *)
(* when a goroutine is started; the result may come back to a window that  *)
(* has moved on to another store.  What the UI thread does in one go is    *)
(* one action: a click, or one posted closure.  Three sections stand for   *)
(* all: Store, which shows the listing, Machine, which shows the agent,    *)
(* and Release, which shows the stashed binaries; each loads what it       *)
(* shows.  The doctor's load has the agent's shape.                        *)
(*                                                                         *)
(* A listing is the store it was read from and how often that store had    *)
(* been changed by then.                                                   *)
(***************************************************************************)
EXTENDS Naturals, SequencesExt, BagsExt

CONSTANTS
    Stores,      \* store directories
    Existing,    \* the stores that exist at the start
    Sections,    \* the sections the user navigates to
    Envs,        \* what $ANGOU_STORE may be: stores, or None where it is not set
    MaxActions,  \* bound: what the user does that starts something
    MaxBusy,     \* bound: what is under way when the user does it
    MaxFailures, \* bound: opens and operations that fail or are declined
    None

ASSUME WindowConstants ==
    /\ Existing \subseteq Stores
    /\ "Store" \in Sections /\ Sections \subseteq {"Store", "Machine", "Release"}
    /\ Envs \subseteq Stores \cup {None}
    /\ MaxActions \in Nat
    /\ MaxBusy \in Nat
    /\ MaxFailures \in Nat
    /\ None \notin Stores

VARIABLES
    env,         \* $ANGOU_STORE: a store, or None; set before the window starts
    made,        \* the stores that exist
    changes,     \* changes[s]: how often store s has been changed
    remembered,  \* the store in the configuration file, or None
    named,       \* session.StoreDir: the store the status bar names, or None
    silent,      \* session.Route: the listing was opened without asking
    shown,       \* entries: the listing on screen, or None
    entriesOK,   \* the listing need not be loaded
    releases,    \* the stashed binaries on screen, or None
    releasesOK,  \* they need not be loaded
    agentOK,     \* the agent's state need not be loaded
    section,     \* the section on screen
    confirm,     \* the listing whose row the open dialog is about, or None
    tasks,       \* the goroutines: a bag, for two may be at the same point
    posted,      \* closures waiting for the UI thread
    actions,     \* user actions so far
    failures,    \* failures so far
    crossed      \* history: a listing or a dialog was overtaken (Overtaken)

binaries == <<releases, releasesOK>>
screen == <<named, silent, shown, entriesOK, binaries, agentOK, section>>
disk == <<env, made, changes, remembered>>
counters == <<actions, failures>>
vars == <<disk, screen, confirm, tasks, posted, counters, crossed>>

Listing == [store : Stores, change : Nat]

\* A goroutine: what it is for, the store it works with, the store of the row it
\* is about, and the listing it has read, or None.
Task == [kind : {"load", "releases", "agent", "operation", "setUp", "create"}, dir : Stores,
         seen : Stores \cup {None}, read : Listing \cup {None}]

Posts == [what : {"loaded", "releases"}, listing : Listing]
            \cup [what : {"openFailed", "ok", "list", "agent"}]
            \cup [what : {"setStore"}, dir : Stores]

TypeOK ==
    /\ env \in Envs
    /\ made \subseteq Stores
    /\ changes \in [Stores -> Nat]
    /\ remembered \in Stores \cup {None}
    /\ named \in Stores \cup {None}
    /\ silent \in BOOLEAN
    /\ shown \in Listing \cup {None}
    /\ entriesOK \in BOOLEAN
    /\ releases \in Listing \cup {None}
    /\ releasesOK \in BOOLEAN
    /\ agentOK \in BOOLEAN
    /\ section \in Sections
    /\ confirm \in Listing \cup {None}
    /\ IsABag(tasks) /\ BagToSet(tasks) \subseteq Task
    /\ posted \in Seq(Posts)
    /\ actions \in 0..MaxActions
    /\ failures \in 0..MaxFailures
    /\ crossed \in BOOLEAN

Running == BagToSet(tasks)

---------------------------------------------------------------------------
\* Starting goroutines, and drawing sections.

Work(kind, dir) == [kind |-> kind, dir |-> dir, seen |-> None, read |-> None]

\* storeDir: the environment first, then what was remembered.
Dir(memory) == IF env # None THEN env ELSE memory
StoreDir == Dir(remembered)

\* Goroutines are started, besides those that run.
Started(works) == tasks (+) works

\* None without a store.
Load(kind, dir) == IF dir = None THEN EmptyBag ELSE SetToBag({Work(kind, dir)})

\* Mutant: an empty listing is taken for one that was not loaded.
ListingNeededWhenEmpty(loaded, listing) == listing = None \/ listing.change = 0

\* A section asks for its data when it has not been loaded, empty or not.
ListingNeeded(loaded, listing) == ~loaded

\* What building the section on screen starts.
Build(sec, dir, listing, entriesLoaded, releasesLoaded, agentLoaded) ==
    CASE sec = "Store" /\ ListingNeeded(entriesLoaded, listing) -> Load("load", dir)
      [] sec = "Release" /\ ~releasesLoaded -> Load("releases", dir)
      [] sec = "Machine" /\ ~agentLoaded -> Load("agent", dir)
      [] OTHER -> EmptyBag

\* onCreate, the first section's build and start, which asks for the agent.
Init ==
    /\ env \in Envs
    /\ made = Existing
    /\ changes = [s \in Stores |-> 0]
    /\ remembered \in Existing \cup {None}
    /\ named = StoreDir
    /\ silent = FALSE
    /\ shown = None
    /\ entriesOK = FALSE
    /\ releases = None
    /\ releasesOK = FALSE
    /\ agentOK = FALSE
    /\ section = "Store"
    /\ confirm = None
    /\ tasks = IF StoreDir = None THEN EmptyBag
                ELSE SetToBag({Work("load", StoreDir), Work("agent", StoreDir)})
    /\ posted = <<>>
    /\ actions = 0
    /\ failures = 0
    /\ crossed = FALSE

\* onInvalidate and the rebuild after it: the listing and the agent are stale, and
\* the agent, which the status bar shows, is asked at once.
Invalidate ==
    /\ entriesOK' = FALSE
    /\ agentOK' = FALSE
    /\ tasks' = Started(Load("agent", StoreDir)
                          (+) Build(section, StoreDir, shown, FALSE, releasesOK, FALSE))
    /\ UNCHANGED <<named, silent, shown, binaries, section>>

\* What is on its way to the screen: the stores of listings read or about to be read.
UnderWay ==
    {t.dir : t \in {t \in Running : t.kind \in {"load", "releases"}}}
        \cup {p.listing.store : p \in {p \in Range(posted) : p.what \in {"loaded", "releases"}}}

\* The window moves to store `to` while a listing of another is under way, or
\* while a dialog is open about a row of another.
Overtaken(to) ==
    \/ \E s \in UnderWay : s # to
    \/ confirm # None /\ confirm.store # to

Fail == failures < MaxFailures /\ failures' = failures + 1

\* The configuration file is written, or cannot be, of which the user is told.
Remember(dir) ==
    \/ remembered' = dir /\ UNCHANGED failures
    \/ Fail /\ UNCHANGED remembered

\* Mutant: what is on screen stays when the store changes.
SwitchKeepingListing(dir, more) ==
    /\ Remember(dir)
    /\ named' = dir
    /\ silent' = FALSE
    /\ agentOK' = FALSE
    /\ tasks' = Started(Build(section, Dir(remembered'), shown, entriesOK, releasesOK, FALSE)
                          (+) more)
    /\ crossed' = (crossed \/ Overtaken(Dir(remembered')))
    /\ UNCHANGED <<shown, entriesOK, binaries, section>>

\* setStoreDir: the store is remembered, what was shown is dropped, the section
\* is rebuilt; `more` is what the caller starts besides.
Switch(dir, more) ==
    /\ Remember(dir)
    /\ named' = dir
    /\ silent' = FALSE
    /\ shown' = None
    /\ entriesOK' = FALSE
    /\ releases' = None
    /\ releasesOK' = FALSE
    /\ agentOK' = FALSE
    /\ tasks' = Started(Build(section, Dir(remembered'), None, FALSE, FALSE, FALSE) (+) more)
    /\ crossed' = (crossed \/ Overtaken(Dir(remembered')))
    /\ UNCHANGED section

---------------------------------------------------------------------------
\* The user.  The shell covers the window with its progress popup 300 ms into a
\* task, so what is done here while goroutines run is done before it appears.

Act ==
    /\ actions < MaxActions
    /\ BagCardinality(tasks) + Len(posted) <= MaxBusy
    /\ actions' = actions + 1

\* A row's dialog covers the window.
Free == confirm = None

\* arrive: where opening is free, a section the user navigates to loads again.
Navigate(sec) ==
    /\ Act /\ Free
    /\ section' = sec
    /\ entriesOK' = (entriesOK /\ ~silent)
    /\ agentOK' = (agentOK /\ ~silent)
    /\ tasks' = Started(Build(sec, StoreDir, shown, entriesOK', releasesOK, agentOK'))
    /\ UNCHANGED <<disk, named, silent, shown, binaries, confirm, posted, failures, crossed>>

\* The button, F5 or Ctrl+R, which reach the window under a dialog as well.
Refresh ==
    /\ Act
    /\ Invalidate
    /\ UNCHANGED <<disk, confirm, posted, failures, crossed>>

\* A row's dialog (decrypt, extract, rename, remove) keeps the entry it was opened
\* on, whatever the section under it shows by the time it is confirmed.
OpenRowDialog ==
    /\ Free
    /\ section = "Store" /\ shown # None
    /\ confirm' = shown
    /\ UNCHANGED <<disk, screen, tasks, posted, counters, crossed>>

CancelRowDialog ==
    /\ confirm # None
    /\ confirm' = None
    /\ UNCHANGED <<disk, screen, tasks, posted, counters, crossed>>

\* withSession works with the store of the moment the user confirms.
ConfirmRowDialog ==
    /\ Act
    /\ confirm # None
    /\ confirm' = None
    /\ tasks' = Started(IF StoreDir = None THEN EmptyBag
                        ELSE SetToBag({[Work("operation", StoreDir)
                                            EXCEPT !.seen = confirm.store]}))
    /\ UNCHANGED <<disk, screen, posted, failures, crossed>>

\* An operation that is about no row: encrypt, reindex, prune, rekey, bootstrap, stash.
Operate ==
    /\ Act /\ Free
    /\ tasks' = Started(Load("operation", StoreDir))
    /\ UNCHANGED <<disk, screen, confirm, posted, failures, crossed>>

\* useStore, from the header's button.
ChooseStore(dir) ==
    /\ Act /\ Free
    /\ dir \in made
    /\ Switch(dir, EmptyBag)
    /\ UNCHANGED <<env, made, changes, confirm, posted>>

\* openExistingStore: the listing is asked for besides the rebuild's own load, or
\* the machine is set up first.
OpenExistingStore(dir) ==
    /\ Act /\ Free
    /\ dir \in made
    /\ \E kind \in {"load", "setUp"} : Switch(dir, Load(kind, Dir(remembered')))
    /\ UNCHANGED <<env, made, changes, confirm, posted>>

CreateStore(dir) ==
    /\ Act /\ Free
    /\ dir \notin made
    /\ tasks' = Started(SetToBag({Work("create", dir)}))
    /\ UNCHANGED <<disk, screen, confirm, posted, failures, crossed>>

---------------------------------------------------------------------------
\* Goroutines.

Ended(t) == BagRemove(tasks, t)

Post(closures) == posted' = posted \o closures

Closure(what) == [what |-> what]

Opens(t) == t.kind \in {"load", "releases", "operation", "setUp"} /\ t.read = None

\* The store does not open, or the user declines: the load counts as made.
OpenFails(t) ==
    /\ Opens(t)
    /\ Fail
    /\ tasks' = Ended(t)
    /\ Post(<<Closure("openFailed")>>)
    /\ UNCHANGED <<disk, screen, confirm, actions, crossed>>

\* core.Open reads the index; a prompt has been answered by then.
LoadReads(t) ==
    /\ t.kind \in {"load", "releases"} /\ Opens(t)
    /\ tasks' = BagAdd(Ended(t), [t EXCEPT !.read = [store |-> t.dir,
                                                     change |-> changes[t.dir]]])
    /\ UNCHANGED <<disk, screen, confirm, posted, counters, crossed>>

LoadDone(t) ==
    /\ t.kind \in {"load", "releases"} /\ t.read # None
    /\ tasks' = Ended(t)
    /\ Post(<<[what |-> IF t.kind = "load" THEN "loaded" ELSE "releases", listing |-> t.read]>>)
    /\ UNCHANGED <<disk, screen, confirm, counters, crossed>>

\* A listing of store s has been read that is not on screen yet.
ReadAhead(s) ==
    \/ \E t \in Running : t.kind = "load" /\ t.read # None /\ t.dir = s
    \/ \E p \in Range(posted) : p.what = "loaded" /\ p.listing.store = s

Changes(s) ==
    /\ changes' = [changes EXCEPT ![s] = @ + 1]
    /\ crossed' = (crossed \/ ReadAhead(s))

\* Mutant: the operation leaves the listing as it is.
OperationDoneQuietly(t) ==
    /\ t.kind = "operation"
    /\ tasks' = Ended(t)
    /\ Changes(t.dir)
    /\ UNCHANGED <<env, made, remembered, screen, confirm, posted, counters>>

\* The store is open, the operation has changed it, and ok says so.
OperationDone(t) ==
    /\ t.kind = "operation"
    /\ tasks' = Ended(t)
    /\ Changes(t.dir)
    /\ Post(<<Closure("ok")>>)
    /\ UNCHANGED <<env, made, remembered, screen, confirm, counters>>

\* Without a keyring the set-up flashes a warning, and no ok is posted.
SetUpDone(t) ==
    /\ t.kind = "setUp"
    /\ tasks' = Ended(t)
    /\ Post(<<Closure("list")>>) \/ Post(<<Closure("ok"), Closure("list")>>)
    /\ UNCHANGED <<disk, screen, confirm, counters, crossed>>

\* core.Init, which refuses a directory that has become a store meanwhile.
CreateDone(t) ==
    /\ t.kind = "create"
    /\ t.dir \notin made
    /\ made' = made \cup {t.dir}
    /\ tasks' = Ended(t)
    /\ Post(<<[what |-> "setStore", dir |-> t.dir], Closure("ok")>>)
    /\ UNCHANGED <<env, changes, remembered, screen, confirm, counters, crossed>>

CreateRefused(t) ==
    /\ t.kind = "create"
    /\ t.dir \in made
    /\ tasks' = Ended(t)
    /\ UNCHANGED <<disk, screen, confirm, posted, counters, crossed>>

\* The operation, the set-up or the creation fails, or the namespace cannot be read:
\* a banner, and nothing else.  A
\* store may have been made by then that nothing remembers.
WorkFails(t) ==
    /\ t.kind \in {"releases", "operation", "setUp", "create"} /\ t.read = None
    /\ Fail
    /\ tasks' = Ended(t)
    /\ \/ UNCHANGED made
       \/ t.kind = "create" /\ made' = made \cup {t.dir}
    /\ UNCHANGED <<env, changes, remembered, screen, confirm, posted, actions, crossed>>

AgentDone(t) ==
    /\ t.kind = "agent"
    /\ tasks' = Ended(t)
    /\ Post(<<Closure("agent")>>)
    /\ UNCHANGED <<disk, screen, confirm, counters, crossed>>

Goroutine(t) ==
    \/ OpenFails(t) \/ LoadReads(t) \/ LoadDone(t) \/ OperationDone(t) \/ SetUpDone(t)
    \/ CreateDone(t) \/ CreateRefused(t) \/ WorkFails(t) \/ AgentDone(t)

---------------------------------------------------------------------------
\* Posted closures, run by the UI thread in the order they were posted.

Take(what) ==
    /\ posted # <<>>
    /\ Head(posted).what = what
    /\ posted' = Tail(posted)

\* The listing is applied to whatever store the window is at by now, with the
\* route by which it was opened.
ApplyLoaded ==
    LET listing == Head(posted).listing
    IN  /\ Take("loaded")
        /\ shown' = listing
        /\ entriesOK' = TRUE
        /\ silent' \in BOOLEAN
        /\ tasks' = Started(Build(section, StoreDir, listing, TRUE, releasesOK, agentOK))
        /\ UNCHANGED <<disk, named, binaries, agentOK, section, confirm, counters, crossed>>

ApplyReleases ==
    /\ Take("releases")
    /\ releases' = Head(posted).listing
    /\ releasesOK' = TRUE
    /\ tasks' = Started(Build(section, StoreDir, shown, entriesOK, TRUE, agentOK))
    /\ UNCHANGED <<disk, named, silent, shown, entriesOK, agentOK, section, confirm, counters,
                   crossed>>

\* Marked as attempted, whichever operation it was that did not open the store; the
\* binaries are not.
ApplyOpenFailed ==
    /\ Take("openFailed")
    /\ entriesOK' = TRUE
    /\ agentOK' = TRUE
    /\ UNCHANGED <<disk, named, silent, shown, binaries, section, confirm, tasks, counters, crossed>>

ApplyOk ==
    /\ Take("ok")
    /\ Invalidate
    /\ UNCHANGED <<disk, confirm, counters, crossed>>

ApplyList ==
    /\ Take("list")
    /\ tasks' = Started(Load("load", StoreDir))
    /\ UNCHANGED <<disk, screen, confirm, counters, crossed>>

\* loadAgent's result redraws the section, also one that waits for its listing; an
\* agent that cannot be reached, which is the normal case, does not.
ApplyAgent ==
    /\ Take("agent")
    /\ \/ tasks' = Started(Build(section, StoreDir, shown, entriesOK, releasesOK, TRUE))
       \/ UNCHANGED tasks
    /\ agentOK' = TRUE
    /\ UNCHANGED <<disk, named, silent, shown, entriesOK, binaries, section, confirm, counters,
                   crossed>>

ApplySetStore ==
    /\ Take("setStore")
    /\ Switch(Head(posted).dir, EmptyBag)
    /\ UNCHANGED <<env, made, changes, confirm, actions>>

UIThread ==
    ApplyLoaded \/ ApplyReleases \/ ApplyOpenFailed \/ ApplyOk \/ ApplyList \/ ApplyAgent \/ ApplySetStore

User ==
    \/ \E sec \in Sections : Navigate(sec)
    \/ Refresh \/ OpenRowDialog \/ CancelRowDialog \/ ConfirmRowDialog \/ Operate
    \/ \E dir \in Stores : ChooseStore(dir) \/ OpenExistingStore(dir) \/ CreateStore(dir)

Background == \E t \in Running : Goroutine(t)

Next == User \/ Background \/ UIThread

\* The scheduler runs the goroutines and the event loop runs what is posted; the
\* user need do nothing.  A prompt is answered, if only by closing it.
Fairness == WF_vars(Background) /\ WF_vars(UIThread)

Spec == Init /\ [][Next]_vars
FairSpec == Spec /\ Fairness

---------------------------------------------------------------------------
\* Properties.

\* Operations confirmed on a row.
Operations == {t \in Running : t.kind = "operation" /\ t.seen # None}

\* An operation confirmed on a row acts on the store the row was read from: what
\* `ok` reloads for, lest someone remove the wrong file.
RowIsOfItsStore == \A t \in Operations : t.seen = t.dir

\* Unless the window moved to another store while a listing or a dialog was under
\* way, the listings on screen, the dialog about one of its rows and the operation
\* confirmed there are all about the store the window works with, and the status
\* bar names it.  $ANGOU_STORE may name another, of which the window warns; a store
\* that could not be remembered is named although the window does not work with it.
WindowIsOfOneStore ==
    ~crossed =>
        /\ shown # None => shown.store = StoreDir
        /\ releases # None => releases.store = StoreDir
        /\ confirm # None => confirm.store = StoreDir
        /\ RowIsOfItsStore
        /\ env = None /\ failures = 0 => named = StoreDir

\* Loading ends: once the user rests, every goroutine has ended and every closure
\* has run.  An empty store, an open that fails or a declined prompt does not make
\* the section ask again and again (withSession, loadAgent).
LoadingEnds == <>[](Running = {} /\ posted = <<>>)

\* Once the user rests in the Store section, the listing on screen is of the store
\* the window works with, as the last operation left it: `ok` discards what an
\* operation made stale.  The exceptions are an open that failed or was declined,
\* and a listing that was overtaken.
SettlesOnTheStore ==
    <>[](section = "Store" /\ StoreDir # None /\ failures = 0 /\ ~crossed =>
            shown = [store |-> StoreDir, change |-> changes[StoreDir]])
=============================================================================
