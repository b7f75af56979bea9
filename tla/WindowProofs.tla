---------------------------- MODULE WindowProofs ----------------------------
(***************************************************************************)
(* What the desktop window ensures of the store it works with, for any     *)
(* number of stores, goroutines, user actions and failures.                *)
(*                                                                         *)
(* WindowIsOfOneStore speaks of what is on screen; that is what goroutines *)
(* started some time ago have read and posted.  IInv adds what is on its   *)
(* way: a goroutine that loads, and a listing that waits for the UI        *)
(* thread, are of the store the window works with, unless the window moved *)
(* while they were under way, which is what `crossed` records.             *)
(***************************************************************************)
EXTENDS Window, TLAPS

\* A goroutine reads the store it was started for; what it loads is for the store the
\* window works with, and the operation it does is on the row's own store.
TaskFits(t) ==
    /\ t.read # None => t.read.store = t.dir
    /\ ~crossed => /\ t.kind \in {"load", "releases"} => t.dir = StoreDir
                   /\ t.kind = "operation" /\ t.seen # None => t.seen = t.dir

\* A listing that waits for the UI thread is of the store the window works with.
ClosureFits(p) ==
    ~crossed /\ p.what \in {"loaded", "releases"} => p.listing.store = StoreDir

OnItsWay == (\A t \in Running : TaskFits(t)) /\ (\A p \in Range(posted) : ClosureFits(p))

IInv == TypeOK /\ OnItsWay /\ WindowIsOfOneStore

---------------------------------------------------------------------------
\* Bags and sequences.

\* The sum of two bags holds what either holds.
LEMMA SumOfBags ==
    ASSUME NEW B, NEW C, IsABag(B), IsABag(C)
    PROVE  IsABag(B (+) C) /\ BagToSet(B (+) C) = BagToSet(B) \cup BagToSet(C)
  BY DEF IsABag, BagToSet, (+)

\* A set, as a bag, holds its elements.
LEMMA BagOfSet ==
    ASSUME NEW S
    PROVE  IsABag(SetToBag(S)) /\ BagToSet(SetToBag(S)) = S
  BY DEF IsABag, BagToSet, SetToBag

\* Taking one occurrence away adds nothing.
LEMMA BagWithout ==
    ASSUME NEW B, NEW x, IsABag(B)
    PROVE  IsABag(BagRemove(B, x)) /\ BagToSet(BagRemove(B, x)) \subseteq BagToSet(B)
  BY DEF IsABag, BagToSet, BagRemove

\* Adding one occurrence adds one element.
LEMMA BagWith ==
    ASSUME NEW B, NEW x, IsABag(B)
    PROVE  IsABag(BagAdd(B, x)) /\ BagToSet(BagAdd(B, x)) = BagToSet(B) \cup {x}
  BY DEF IsABag, BagToSet, BagAdd

\* A sequence and another behind it hold what either holds.
LEMMA Appending ==
    ASSUME NEW S, NEW s \in Seq(S), NEW t \in Seq(S)
    PROVE  s \o t \in Seq(S) /\ Range(s \o t) \subseteq Range(s) \cup Range(t)
  BY DEF Range

\* The head is an element, and the tail holds no other.
LEMMA Taking ==
    ASSUME NEW S, NEW s \in Seq(S), s # <<>>
    PROVE  /\ Head(s) \in S /\ Head(s) \in Range(s)
           /\ Tail(s) \in Seq(S) /\ Range(Tail(s)) \subseteq Range(s)
  BY DEF Range

\* Short sequences, and what they hold.
LEMMA FewElements ==
    ASSUME NEW S, NEW c \in S
    PROVE  /\ <<>> \in Seq(S) /\ Range(<<>>) = {}
           /\ <<c>> \in Seq(S) /\ Range(<<c>>) = {c}
  BY DEF Range

\* A sequence of two, and what it holds.
LEMMA TwoElements ==
    ASSUME NEW S, NEW c \in S, NEW d \in S
    PROVE  <<c, d>> \in Seq(S) /\ Range(<<c, d>>) = {c, d}
  BY DEF Range

---------------------------------------------------------------------------
\* Starting goroutines.

Kinds == {"load", "releases", "agent", "operation", "setUp", "create"}

\* A bag of goroutines started for store `dir`, about no row.
StartedFor(bag, dir) ==
    /\ IsABag(bag)
    /\ BagToSet(bag) \subseteq {Work(kind, dir) : kind \in Kinds}
    /\ BagToSet(bag) \subseteq Task

\* Nothing is started for any store.
LEMMA NothingStarts == ASSUME NEW dir PROVE StartedFor(EmptyBag, dir)
  BY BagOfSet DEF EmptyBag, StartedFor

\* One goroutine, for an existing store.
LEMMA OneStarts ==
    ASSUME NEW kind \in Kinds, NEW dir \in Stores
    PROVE  StartedFor(SetToBag({Work(kind, dir)}), dir)
  BY BagOfSet DEF StartedFor, Work, Task, Kinds

\* Load starts what it is asked for, for a store, or nothing without one.
LEMMA LoadStarts ==
    ASSUME NEW kind \in Kinds, NEW dir \in Stores \cup {None}
    PROVE  StartedFor(Load(kind, dir), dir)
  BY NothingStarts, OneStarts DEF Load

\* Drawing a section starts no goroutine but one for the store it is drawn for.
LEMMA BuildStarts ==
    ASSUME NEW sec, NEW dir \in Stores \cup {None}, NEW listing, NEW loaded, NEW rel, NEW agent
    PROVE  StartedFor(Build(sec, dir, listing, loaded, rel, agent), dir)
  BY NothingStarts, LoadStarts DEF Build, Kinds

\* Two lots for one store are one lot for it.
LEMMA BothStart ==
    ASSUME NEW B, NEW C, NEW dir, StartedFor(B, dir), StartedFor(C, dir)
    PROVE  StartedFor(B (+) C, dir)
  BY SumOfBags DEF StartedFor

\* storeDir() names a store, or none.
LEMMA DirIsAStore == ASSUME TypeOK PROVE StoreDir \in Stores \cup {None}
  BY WindowConstants DEF TypeOK, StoreDir, Dir

\* The goroutines are a bag of goroutines.
TasksOK == IsABag(tasks) /\ Running \subseteq Task

\* What is started runs besides what ran, and is for the store it was started for.
LEMMA StartedRun ==
    ASSUME TasksOK, NEW works, NEW dir, StartedFor(works, dir), tasks' = Started(works)
    PROVE  /\ TasksOK'
           /\ Running' \subseteq Running \cup {Work(kind, dir) : kind \in Kinds}
  <1>1. IsABag(works) /\ IsABag(tasks)
    BY DEF StartedFor, TasksOK
  <1>2. IsABag(tasks') /\ BagToSet(tasks') = BagToSet(tasks) \cup BagToSet(works)
    BY <1>1, SumOfBags DEF Started
  <1> QED
    BY <1>2 DEF StartedFor, TasksOK, Running

\* What ends leaves the others running.
LEMMA EndedRun ==
    ASSUME TasksOK, NEW t, tasks' = Ended(t)
    PROVE  TasksOK' /\ Running' \subseteq Running
  BY BagWithout DEF TasksOK, Ended, Running

---------------------------------------------------------------------------
\* Types.

\* What only the UI thread and the user change.
ScreenOK ==
    /\ named \in Stores \cup {None}
    /\ silent \in BOOLEAN
    /\ shown \in Listing \cup {None}
    /\ entriesOK \in BOOLEAN
    /\ releases \in Listing \cup {None}
    /\ releasesOK \in BOOLEAN
    /\ agentOK \in BOOLEAN
    /\ section \in Sections

DiskOK ==
    /\ env \in Envs
    /\ made \subseteq Stores
    /\ changes \in [Stores -> Nat]
    /\ remembered \in Stores \cup {None}

RestOK ==
    /\ confirm \in Listing \cup {None}
    /\ posted \in Seq(Posts)
    /\ actions \in 0..MaxActions
    /\ failures \in 0..MaxFailures
    /\ crossed \in BOOLEAN

\* The type invariant by parts, before a step and after it.
LEMMA TypeParts == TypeOK <=> ScreenOK /\ DiskOK /\ RestOK /\ TasksOK
  BY DEF TypeOK, ScreenOK, DiskOK, RestOK, TasksOK, Running

\* The same after a step, for a lemma about states is not one about the next.
LEMMA TypesAfter == ASSUME ScreenOK', DiskOK', RestOK', TasksOK' PROVE TypeOK'
  BY DEF TypeOK, ScreenOK, DiskOK, RestOK, TasksOK, Running

\* setStoreDir keeps the types, and starts goroutines for the store it moved to only.
LEMMA SwitchTypes ==
    ASSUME TypeOK, NEW dir \in Stores, NEW more, StartedFor(more, Dir(remembered')),
           Switch(dir, more), UNCHANGED <<env, made, changes>>
    PROVE  /\ ScreenOK' /\ DiskOK' /\ TasksOK'
           /\ failures' \in 0..MaxFailures /\ crossed' \in BOOLEAN
           /\ Running' \subseteq Running \cup {Work(kind, StoreDir') : kind \in Kinds}
  <1>1. remembered' \in Stores \cup {None} /\ failures' \in 0..MaxFailures
    BY WindowConstants DEF TypeOK, Switch, Remember, Fail
  <1>2. DiskOK' /\ Dir(remembered') \in Stores \cup {None} /\ StoreDir' = Dir(remembered')
    BY <1>1, WindowConstants DEF TypeOK, DiskOK, Dir, StoreDir
  <1> DEFINE works == Build(section, Dir(remembered'), None, FALSE, FALSE, FALSE) (+) more
  <1>3. StartedFor(works, Dir(remembered'))
    BY <1>2, BuildStarts, BothStart
  <1>4. tasks' = Started(works)
    BY DEF Switch
  <1> HIDE DEF works
  <1>5. TasksOK' /\ Running' \subseteq Running \cup {Work(kind, StoreDir') : kind \in Kinds}
    BY <1>2, <1>3, <1>4, TypeParts, StartedRun
  <1>6. ScreenOK' /\ crossed' \in BOOLEAN
    BY DEF Switch, TypeOK, ScreenOK, Overtaken, binaries
  <1> QED
    BY <1>1, <1>2, <1>5, <1>6

\* onInvalidate keeps the types, and starts goroutines for the window's store only.
LEMMA InvalidateTypes ==
    ASSUME TypeOK, Invalidate
    PROVE  /\ ScreenOK' /\ TasksOK'
           /\ Running' \subseteq Running \cup {Work(kind, StoreDir) : kind \in Kinds}
  <1> DEFINE works == Load("agent", StoreDir)
                        (+) Build(section, StoreDir, shown, FALSE, releasesOK, FALSE)
  <1>1. StartedFor(works, StoreDir)
    BY DirIsAStore, LoadStarts, BuildStarts, BothStart DEF Kinds
  <1>2. tasks' = Started(works)
    BY DEF Invalidate
  <1> HIDE DEF works
  <1>3. TasksOK' /\ Running' \subseteq Running \cup {Work(kind, StoreDir) : kind \in Kinds}
    BY <1>1, <1>2, TypeParts, StartedRun
  <1>4. ScreenOK'
    BY DEF Invalidate, TypeOK, ScreenOK, binaries
  <1> QED
    BY <1>3, <1>4

---------------------------------------------------------------------------
\* The invariant is preserved.

\* A step at which the window stays with its store.  What starts is for that store,
\* and what is new on screen was on its way there.
LEMMA Stays ==
    ASSUME IInv, TypeOK', UNCHANGED <<env, remembered, named>>,
           crossed => crossed', failures <= failures',
           \A t \in Running' : t \in Running \/ TaskFits(t),
           \A p \in Range(posted') : p \in Range(posted) \/ ClosureFits(p),
           shown' = shown \/ (~crossed => shown'.store = StoreDir),
           releases' = releases \/ (~crossed => releases'.store = StoreDir),
           confirm' \in {confirm, None, shown}
    PROVE  IInv'
  <1>1. StoreDir' = StoreDir
    BY DEF StoreDir, Dir
  <1>2. \A t \in Running' : TaskFits(t) /\ TaskFits(t)'
    BY <1>1 DEF IInv, OnItsWay, TaskFits
  <1>3. \A p \in Range(posted') : ClosureFits(p)'
    BY <1>1 DEF IInv, OnItsWay, ClosureFits
  <1>4. OnItsWay'
    BY <1>2, <1>3 DEF OnItsWay
  <1>5. RowIsOfItsStore' \/ crossed'
    BY <1>2 DEF TaskFits, RowIsOfItsStore, Operations
  <1>6. env' = None /\ failures' = 0 => failures = 0
    BY DEF IInv, TypeOK
  <1>7. WindowIsOfOneStore'
    BY <1>1, <1>5, <1>6 DEF IInv, WindowIsOfOneStore
  <1> QED
    BY <1>4, <1>7 DEF IInv

\* What is started for the window's store fits.
LEMMA WorkFits == \A kind \in Kinds : TaskFits(Work(kind, StoreDir))
  BY DEF TaskFits, Work

\* The window moves to another store, or tries to.
LEMMA Moves ==
    ASSUME IInv, NEW dir \in Stores, NEW more, StartedFor(more, Dir(remembered')),
           Switch(dir, more), UNCHANGED <<env, made, changes, confirm>>,
           posted' \in Seq(Posts), Range(posted') \subseteq Range(posted),
           actions' \in 0..MaxActions
    PROVE  IInv'
  <1>1. TypeOK
    BY DEF IInv
  <1>2. /\ ScreenOK' /\ DiskOK' /\ TasksOK'
        /\ failures' \in 0..MaxFailures /\ crossed' \in BOOLEAN
        /\ Running' \subseteq Running \cup {Work(kind, StoreDir') : kind \in Kinds}
    BY <1>1, SwitchTypes
  <1>3. TypeOK'
    <2>1. RestOK'
      BY <1>1, <1>2, TypeParts DEF RestOK
    <2> QED
      BY <1>2, <2>1, TypesAfter
  <1>4. StoreDir' = Dir(remembered')
    BY DEF StoreDir, Dir
  <1>5. crossed' = (crossed \/ Overtaken(StoreDir'))
    BY <1>4 DEF Switch
  <1>6. ASSUME ~crossed'
        PROVE  /\ ~crossed
               /\ \A t \in Running : t.kind \in {"load", "releases"} => t.dir = StoreDir'
               /\ \A p \in Range(posted) :
                     p.what \in {"loaded", "releases"} => p.listing.store = StoreDir'
               /\ confirm # None => confirm.store = StoreDir'
    BY <1>5, <1>6 DEF Overtaken, UnderWay
  <1>7. \A t \in Running' : TaskFits(t)'
    BY <1>2, <1>6 DEF IInv, OnItsWay, TaskFits, Work
  <1>8. \A p \in Range(posted') : ClosureFits(p)'
    BY <1>6 DEF ClosureFits
  <1>9. OnItsWay'
    BY <1>7, <1>8 DEF OnItsWay
  <1>10. RowIsOfItsStore' \/ crossed'
    BY <1>7 DEF TaskFits, RowIsOfItsStore, Operations
  <1>11. shown' = None /\ releases' = None
    BY DEF Switch
  <1>12. env' = None /\ failures' = 0 => named' = StoreDir'
    BY <1>1 DEF Switch, Remember, Fail, TypeOK, StoreDir, Dir
  <1>13. WindowIsOfOneStore'
    BY <1>6, <1>10, <1>11, <1>12 DEF WindowIsOfOneStore
  <1> QED
    BY <1>3, <1>9, <1>13 DEF IInv

\* What is drawn starts what it needs, and the window stays with its store.
LEMMA Draws ==
    ASSUME IInv, NEW works, StartedFor(works, StoreDir), tasks' = Started(works)
    PROVE  TasksOK' /\ \A t \in Running' : t \in Running \/ TaskFits(t)
  <1>1. TasksOK
    BY TypeParts DEF IInv
  <1> QED
    BY <1>1, StartedRun, WorkFits

\* The bound on what the user does.
LEMMA ActionsBounded == ASSUME TypeOK, Act PROVE actions' \in 0..MaxActions
  BY WindowConstants DEF TypeOK, Act

\* A section drawn on arrival loads from the window's store.
LEMMA NavigateKeeps ==
    ASSUME IInv, NEW sec \in Sections, Navigate(sec)
    PROVE  IInv'
  <1>1. TypeOK
    BY DEF IInv
  <1> DEFINE works == Build(sec, StoreDir, shown, entriesOK', releasesOK, agentOK')
  <1>2. StartedFor(works, StoreDir) /\ tasks' = Started(works)
    BY <1>1, DirIsAStore, BuildStarts DEF Navigate
  <1> HIDE DEF works
  <1>3. TasksOK' /\ \A t \in Running' : t \in Running \/ TaskFits(t)
    BY <1>2, Draws
  <1>4. /\ actions' \in 0..MaxActions
        /\ UNCHANGED <<env, made, changes, remembered, named, shown, releases, releasesOK, confirm,
                      posted, failures, crossed>>
    BY <1>1, ActionsBounded DEF Navigate, disk, binaries
  <1>5. entriesOK' \in BOOLEAN /\ agentOK' \in BOOLEAN /\ silent' \in BOOLEAN /\ section' \in Sections
    BY <1>1 DEF Navigate, TypeOK
  <1>6. TypeOK'
    BY <1>1, <1>3, <1>4, <1>5, TypeParts, TypesAfter DEF ScreenOK, DiskOK, RestOK
  <1> QED
    BY <1>3, <1>4, <1>6, Stays DEF IInv, TypeOK

\* A step that only drops what is shown keeps the invariant.
LEMMA InvalidateKeeps ==
    ASSUME IInv, Invalidate, UNCHANGED <<disk, confirm, failures, crossed>>,
           posted' \in Seq(Posts), Range(posted') \subseteq Range(posted),
           actions' \in 0..MaxActions
    PROVE  IInv'
  <1>1. TypeOK
    BY DEF IInv
  <1>2. /\ ScreenOK' /\ TasksOK'
        /\ Running' \subseteq Running \cup {Work(kind, StoreDir) : kind \in Kinds}
    BY <1>1, InvalidateTypes
  <1>3. DiskOK' /\ RestOK'
    BY <1>1, TypeParts DEF DiskOK, RestOK, disk
  <1>4. TypeOK'
    BY <1>2, <1>3, TypesAfter
  <1>5. UNCHANGED <<env, remembered, named, shown, releases, confirm, failures, crossed>>
    BY DEF Invalidate, disk, binaries
  <1>6. \A t \in Running' : t \in Running \/ TaskFits(t)
    BY <1>2, WorkFits
  <1> QED
    BY <1>1, <1>4, <1>5, <1>6, Stays DEF TypeOK

\* A refresh reloads from the window's store.
LEMMA RefreshKeeps ==
    ASSUME IInv, Refresh
    PROVE  IInv'
  <1>1. TypeOK /\ posted' = posted
    BY DEF IInv, Refresh
  <1>2. Invalidate /\ UNCHANGED <<disk, confirm, failures, crossed>> /\ Act
    BY DEF Refresh
  <1>3. actions' \in 0..MaxActions /\ posted' \in Seq(Posts)
    BY <1>1, <1>2, ActionsBounded DEF TypeOK
  <1> QED
    BY <1>1, <1>2, <1>3, InvalidateKeeps

\* A dialog opens, or is closed.
LEMMA DialogKeeps ==
    ASSUME IInv, OpenRowDialog \/ CancelRowDialog
    PROVE  IInv'
  <1>1. TypeOK /\ ScreenOK /\ DiskOK /\ RestOK /\ TasksOK
    BY TypeParts DEF IInv
  <1>2. /\ UNCHANGED <<disk, screen, tasks, posted, counters, crossed>>
        /\ confirm' \in {None, shown}
    BY DEF OpenRowDialog, CancelRowDialog
  <1>3. ScreenOK' /\ DiskOK' /\ RestOK' /\ TasksOK'
    BY <1>1, <1>2 DEF ScreenOK, DiskOK, RestOK, TasksOK, Running, disk, screen, counters, binaries
  <1>4. TypeOK' /\ Running' = Running
    BY <1>2, <1>3, TypesAfter DEF Running
  <1> QED
    BY <1>1, <1>2, <1>4, Stays DEF disk, screen, counters, binaries, TypeOK

\* The operation confirmed is about the row's own store.
LEMMA ConfirmKeeps ==
    ASSUME IInv, ConfirmRowDialog
    PROVE  IInv'
  <1>1. TypeOK /\ ScreenOK /\ DiskOK /\ RestOK /\ TasksOK
    BY TypeParts DEF IInv
  <1>2. /\ UNCHANGED <<disk, screen, posted, failures, crossed>>
        /\ confirm # None /\ confirm' = None /\ Act
    BY DEF ConfirmRowDialog
  <1>3. CASE StoreDir = None
    <2>1. StartedFor(EmptyBag, StoreDir) /\ tasks' = Started(EmptyBag)
      BY <1>3, NothingStarts DEF ConfirmRowDialog
    <2>2. TasksOK' /\ \A t \in Running' : t \in Running \/ TaskFits(t)
      BY <2>1, Draws
    <2>3. TypeOK'
      BY <1>1, <1>2, <2>2, ActionsBounded, TypesAfter
      DEF ScreenOK, DiskOK, RestOK, disk, screen, binaries
    <2> QED
      BY <1>1, <1>2, <2>2, <2>3, Stays DEF disk, screen, binaries, TypeOK
  <1>4. CASE StoreDir # None
    <2> DEFINE op == [Work("operation", StoreDir) EXCEPT !.seen = confirm.store]
    <2>1. op \in Task /\ TaskFits(op)
      <3>1. StoreDir \in Stores /\ confirm \in Listing
        BY <1>1, <1>2, <1>4, DirIsAStore DEF RestOK
      <3>2. ~crossed => confirm.store = StoreDir
        BY <1>2 DEF IInv, WindowIsOfOneStore
      <3> QED
        BY <3>1, <3>2 DEF Work, Task, TaskFits, Listing
    <2>2. tasks' = tasks (+) SetToBag({op})
      BY <1>4 DEF ConfirmRowDialog, Started
    <2> HIDE DEF op
    <2>3. TasksOK' /\ Running' = Running \cup {op}
      BY <1>1, <2>1, <2>2, SumOfBags, BagOfSet DEF TasksOK, Running
    <2>4. TypeOK'
      BY <1>1, <1>2, <2>3, ActionsBounded, TypesAfter
      DEF ScreenOK, DiskOK, RestOK, disk, screen, binaries
    <2> QED
      BY <1>1, <1>2, <2>1, <2>3, <2>4, Stays DEF disk, screen, binaries, TypeOK
  <1> QED
    BY <1>3, <1>4

\* An operation about no row works with the window's store.
LEMMA OperateKeeps ==
    ASSUME IInv, Operate
    PROVE  IInv'
  <1>1. TypeOK /\ ScreenOK /\ DiskOK /\ RestOK /\ TasksOK
    BY TypeParts DEF IInv
  <1>2. UNCHANGED <<disk, screen, confirm, posted, failures, crossed>> /\ Act
    BY DEF Operate
  <1>3. StartedFor(Load("operation", StoreDir), StoreDir)
        /\ tasks' = Started(Load("operation", StoreDir))
    BY <1>1, DirIsAStore, LoadStarts DEF Operate, Kinds
  <1>4. TasksOK' /\ \A t \in Running' : t \in Running \/ TaskFits(t)
    BY <1>3, Draws
  <1>5. TypeOK'
    BY <1>1, <1>2, <1>4, ActionsBounded, TypesAfter
    DEF ScreenOK, DiskOK, RestOK, disk, screen, binaries
  <1> QED
    BY <1>1, <1>2, <1>4, <1>5, Stays DEF disk, screen, binaries, TypeOK

\* A store being made is not one the window loads from yet.
LEMMA CreateKeeps ==
    ASSUME IInv, NEW dir \in Stores, CreateStore(dir)
    PROVE  IInv'
  <1>1. TypeOK /\ ScreenOK /\ DiskOK /\ RestOK /\ TasksOK
    BY TypeParts DEF IInv
  <1>2. UNCHANGED <<disk, screen, confirm, posted, failures, crossed>> /\ Act
    BY DEF CreateStore
  <1>3. StartedFor(SetToBag({Work("create", dir)}), dir)
        /\ tasks' = Started(SetToBag({Work("create", dir)}))
    BY OneStarts DEF CreateStore, Kinds
  <1>4. TasksOK' /\ Running' = Running \cup {Work("create", dir)}
    BY <1>1, <1>3, SumOfBags, BagOfSet DEF TasksOK, Running, Started, StartedFor
  <1>5. TaskFits(Work("create", dir))
    BY DEF TaskFits, Work
  <1>6. TypeOK'
    BY <1>1, <1>2, <1>4, ActionsBounded, TypesAfter
    DEF ScreenOK, DiskOK, RestOK, disk, screen, binaries
  <1> QED
    BY <1>1, <1>2, <1>4, <1>5, <1>6, Stays DEF disk, screen, binaries, TypeOK

\* The user chooses a store, or first-run set-up opens one.
LEMMA ChooseKeeps ==
    ASSUME IInv, NEW dir \in Stores, ChooseStore(dir) \/ OpenExistingStore(dir)
    PROVE  IInv'
  <1>1. TypeOK
    BY DEF IInv
  <1>2. /\ UNCHANGED <<env, made, changes, confirm, posted>>
        /\ actions' \in 0..MaxActions
    BY <1>1, ActionsBounded DEF ChooseStore, OpenExistingStore
  <1>3. PICK more : StartedFor(more, Dir(remembered')) /\ Switch(dir, more)
    <2>1. CASE ChooseStore(dir)
      BY <2>1, NothingStarts DEF ChooseStore
    <2>2. CASE OpenExistingStore(dir)
      <3>1. PICK kind \in {"load", "setUp"} : Switch(dir, Load(kind, Dir(remembered')))
        BY <2>2 DEF OpenExistingStore
      <3>2. Dir(remembered') \in Stores \cup {None}
        BY <1>1, <3>1, WindowConstants DEF TypeOK, Switch, Remember, Dir
      <3>3. StartedFor(Load(kind, Dir(remembered')), Dir(remembered'))
        BY <3>2, LoadStarts DEF Kinds
      <3> QED
        BY <3>1, <3>3
    <2> QED
      BY <2>1, <2>2
  <1>4. posted' \in Seq(Posts)
    BY <1>1, <1>2 DEF TypeOK
  <1> QED
    BY <1>2, <1>3, <1>4, Moves

\* Whatever the user does keeps the invariant.
LEMMA UserKeeps == ASSUME IInv, User PROVE IInv'
  BY NavigateKeeps, RefreshKeeps, DialogKeeps, ConfirmKeeps, OperateKeeps, CreateKeeps, ChooseKeeps
  DEF User

\* A goroutine takes a step of which the window knows nothing yet.  What it posts
\* fits, and it ends or goes on as one that fits.
LEMMA GoroutineStep ==
    ASSUME IInv, NEW t \in Running, NEW closures \in Seq(Posts),
           tasks' = Ended(t) \/ LoadReads(t),
           posted' = posted \o closures,
           \A p \in Range(closures) : ClosureFits(p),
           UNCHANGED <<env, remembered, screen, confirm, actions>>,
           made' \subseteq Stores, changes' \in [Stores -> Nat],
           failures' \in failures..MaxFailures, crossed' \in BOOLEAN, crossed => crossed'
    PROVE  IInv'
  <1>1. TypeOK /\ ScreenOK /\ DiskOK /\ RestOK /\ TasksOK
    BY TypeParts DEF IInv
  <1>2. t \in Task /\ TaskFits(t)
    BY <1>1 DEF IInv, OnItsWay, TasksOK
  <1>3. TasksOK' /\ \A u \in Running' : u \in Running \/ TaskFits(u)
    <2>1. CASE tasks' = Ended(t)
      BY <1>1, <2>1, EndedRun
    <2>2. CASE LoadReads(t)
      <3> DEFINE u == [t EXCEPT !.read = [store |-> t.dir, change |-> changes[t.dir]]]
      <3>1. tasks' = BagAdd(Ended(t), u)
        BY <2>2 DEF LoadReads
      <3>2. u \in Task
        BY <1>1, <1>2 DEF Task, Listing, DiskOK
      <3>3. TaskFits(u)
        BY <1>2 DEF TaskFits, Task
      <3> HIDE DEF u
      <3>4. IsABag(Ended(t)) /\ BagToSet(Ended(t)) \subseteq Running
        BY <1>1, BagWithout DEF TasksOK, Ended, Running
      <3>5. IsABag(tasks') /\ Running' = BagToSet(Ended(t)) \cup {u}
        BY <3>1, <3>4, BagWith DEF Running
      <3> QED
        BY <1>1, <3>2, <3>3, <3>4, <3>5 DEF TasksOK
    <2> QED
      BY <2>1, <2>2
  <1>4. posted' \in Seq(Posts) /\ Range(posted') \subseteq Range(posted) \cup Range(closures)
    BY <1>1, Appending DEF RestOK
  <1>5. failures' \in 0..MaxFailures /\ failures <= failures'
    BY <1>1, WindowConstants DEF RestOK
  <1>6. TypeOK'
    BY <1>1, <1>3, <1>4, <1>5, TypesAfter DEF ScreenOK, DiskOK, RestOK, screen, binaries
  <1> QED
    BY <1>3, <1>4, <1>5, <1>6, Stays DEF screen, binaries

\* Closures that carry nothing fit.
LEMMA ClosuresFit ==
    /\ <<>> \in Seq(Posts) /\ \A p \in Range(<<>>) : ClosureFits(p)
    /\ \A what \in {"openFailed", "ok", "list", "agent"} :
          <<Closure(what)>> \in Seq(Posts) /\ \A p \in Range(<<Closure(what)>>) : ClosureFits(p)
  <1>1. \A what \in {"openFailed", "ok", "list", "agent"} :
           Closure(what) \in Posts /\ ClosureFits(Closure(what))
    BY DEF Closure, Posts, ClosureFits
  <1>2. Closure("ok") \in Posts
    BY <1>1
  <1> QED
    BY <1>1, <1>2, FewElements

\* Whatever a goroutine does next keeps the invariant.
LEMMA GoroutineKeeps ==
    ASSUME IInv, NEW t \in Running, Goroutine(t)
    PROVE  IInv'
  <1>1. TypeOK /\ ScreenOK /\ DiskOK /\ RestOK /\ TasksOK
    BY TypeParts DEF IInv
  <1>2. t \in Task /\ TaskFits(t)
    BY <1>1 DEF IInv, OnItsWay, TasksOK
  <1>3. MaxFailures \in Nat /\ failures \in 0..MaxFailures
    BY <1>1, WindowConstants DEF RestOK
  <1>4. /\ failures \in failures..MaxFailures /\ crossed \in BOOLEAN
        /\ made \subseteq Stores /\ changes \in [Stores -> Nat]
    BY <1>1, <1>3 DEF DiskOK, RestOK
  <1>5. posted \o <<>> = posted
    BY <1>1 DEF RestOK
  <1>6. CASE OpenFails(t)
    <2>1. posted' = posted \o <<Closure("openFailed")>> /\ tasks' = Ended(t)
          /\ UNCHANGED <<disk, screen, confirm, actions, crossed>>
          /\ failures' \in failures..MaxFailures
      BY <1>3, <1>6 DEF OpenFails, Post, Fail
    <2> QED
      BY <1>4, <2>1, ClosuresFit, GoroutineStep DEF disk
  <1>7. CASE LoadReads(t)
    <2>1. UNCHANGED <<disk, screen, confirm, posted, counters, crossed>>
      BY <1>7 DEF LoadReads
    <2>2. posted' = posted \o <<>> /\ failures' \in failures..MaxFailures
      BY <1>4, <1>5, <2>1 DEF counters
    <2> QED
      BY <1>4, <1>7, <2>1, <2>2, ClosuresFit, GoroutineStep DEF disk, counters
  <1>8. CASE LoadDone(t)
    <2> DEFINE p == [what |-> IF t.kind = "load" THEN "loaded" ELSE "releases", listing |-> t.read]
    <2>1. posted' = posted \o <<p>> /\ tasks' = Ended(t)
          /\ UNCHANGED <<disk, screen, confirm, counters, crossed>>
      BY <1>8 DEF LoadDone, Post
    <2>2. p \in Posts
      BY <1>2, <1>8 DEF LoadDone, Task, Posts
    <2>3. ClosureFits(p)
      BY <1>2, <1>8 DEF LoadDone, TaskFits, ClosureFits
    <2> HIDE DEF p
    <2>4. <<p>> \in Seq(Posts) /\ \A q \in Range(<<p>>) : ClosureFits(q)
      BY <2>2, <2>3, FewElements
    <2>5. failures' \in failures..MaxFailures
      BY <1>4, <2>1 DEF counters
    <2> QED
      BY <1>4, <2>1, <2>4, <2>5, GoroutineStep DEF disk, counters
  <1>9. CASE OperationDone(t)
    <2>1. posted' = posted \o <<Closure("ok")>> /\ tasks' = Ended(t)
          /\ UNCHANGED <<env, made, remembered, screen, confirm, counters>>
          /\ changes' = [changes EXCEPT ![t.dir] = @ + 1]
          /\ crossed' = (crossed \/ ReadAhead(t.dir))
      BY <1>9 DEF OperationDone, Post, Changes
    <2>2. changes' \in [Stores -> Nat]
      <3>1. t.dir \in Stores
        BY <1>2 DEF Task
      <3> QED
        BY <1>4, <2>1, <3>1
    <2>3. crossed' \in BOOLEAN /\ (crossed => crossed') /\ failures' \in failures..MaxFailures
      BY <1>4, <2>1 DEF counters
    <2> QED
      BY <1>4, <2>1, <2>2, <2>3, ClosuresFit, GoroutineStep DEF counters
  <1>10. CASE SetUpDone(t)
    <2>1. /\ tasks' = Ended(t)
          /\ UNCHANGED <<disk, screen, confirm, counters, crossed>>
      BY <1>10 DEF SetUpDone
    <2>2. failures' \in failures..MaxFailures
      BY <1>4, <2>1 DEF counters
    <2>3. CASE posted' = posted \o <<Closure("list")>>
      BY <1>4, <2>1, <2>2, <2>3, ClosuresFit, GoroutineStep DEF disk, counters
    <2>4. CASE posted' = posted \o <<Closure("ok"), Closure("list")>>
      <3>1. \A what \in {"ok", "list"} : Closure(what) \in Posts /\ ClosureFits(Closure(what))
        BY DEF Closure, Posts, ClosureFits
      <3> DEFINE both == <<Closure("ok"), Closure("list")>>
      <3>2. both \in Seq(Posts) /\ \A p \in Range(both) : ClosureFits(p)
        BY <3>1, TwoElements
      <3> HIDE DEF both
      <3>3. posted' = posted \o both
        BY <2>4 DEF both
      <3> QED
        BY <1>4, <2>1, <2>2, <3>2, <3>3, GoroutineStep DEF disk, counters
    <2> QED
      BY <1>10, <2>3, <2>4 DEF SetUpDone, Post
  <1>11. CASE CreateDone(t)
    <2> DEFINE p == [what |-> "setStore", dir |-> t.dir]
    <2>1. posted' = posted \o <<p, Closure("ok")>> /\ tasks' = Ended(t)
          /\ UNCHANGED <<env, changes, remembered, screen, confirm, counters, crossed>>
          /\ made' = made \cup {t.dir}
      BY <1>11 DEF CreateDone, Post
    <2>2. p \in Posts /\ ClosureFits(p) /\ made' \subseteq Stores
      BY <1>2, <1>4, <2>1 DEF Task, Posts, ClosureFits
    <2>3. Closure("ok") \in Posts /\ ClosureFits(Closure("ok"))
      BY DEF Closure, Posts, ClosureFits
    <2> HIDE DEF p
    <2> DEFINE both == <<p, Closure("ok")>>
    <2>4. both \in Seq(Posts) /\ \A q \in Range(both) : ClosureFits(q)
      BY <2>2, <2>3, TwoElements
    <2>5. posted' = posted \o both /\ failures' \in failures..MaxFailures
      BY <1>4, <2>1 DEF counters
    <2> HIDE DEF both
    <2> QED
      BY <1>4, <2>1, <2>2, <2>4, <2>5, GoroutineStep DEF counters
  <1>12. CASE CreateRefused(t) \/ WorkFails(t)
    <2>1. /\ tasks' = Ended(t) /\ posted' = posted
          /\ UNCHANGED <<env, changes, remembered, screen, confirm, actions, crossed>>
          /\ failures' \in failures..MaxFailures /\ made' \subseteq made \cup {t.dir}
      BY <1>3, <1>12 DEF CreateRefused, WorkFails, Fail, disk, counters
    <2>2. posted' = posted \o <<>> /\ made' \subseteq Stores
      BY <1>2, <1>4, <1>5, <2>1 DEF Task
    <2> QED
      BY <1>4, <2>1, <2>2, ClosuresFit, GoroutineStep
  <1>13. CASE AgentDone(t)
    <2>1. posted' = posted \o <<Closure("agent")>> /\ tasks' = Ended(t)
          /\ UNCHANGED <<disk, screen, confirm, counters, crossed>>
      BY <1>13 DEF AgentDone, Post
    <2>2. failures' \in failures..MaxFailures
      BY <1>4, <2>1 DEF counters
    <2> QED
      BY <1>4, <2>1, <2>2, ClosuresFit, GoroutineStep DEF disk, counters
  <1> QED
    BY <1>6, <1>7, <1>8, <1>9, <1>10, <1>11, <1>12, <1>13 DEF Goroutine

---------------------------------------------------------------------------
\* What the UI thread runs.

\* A closure was taken, and what it draws is for the window's store.
LEMMA Taken ==
    ASSUME IInv, NEW what, Take(what)
    PROVE  /\ Head(posted) \in Posts /\ Head(posted).what = what
           /\ ClosureFits(Head(posted))
           /\ posted' \in Seq(Posts) /\ Range(posted') \subseteq Range(posted)
  BY Taking DEF Take, IInv, TypeOK, OnItsWay

\* Whatever closure the UI thread runs keeps the invariant.
LEMMA UIThreadKeeps == ASSUME IInv, UIThread PROVE IInv'
  <1>1. TypeOK /\ ScreenOK /\ DiskOK /\ RestOK /\ TasksOK /\ StoreDir \in Stores \cup {None}
    BY TypeParts, DirIsAStore DEF IInv
  <1>2. CASE ApplyLoaded
    <2> DEFINE listing == Head(posted).listing
               works == Build(section, StoreDir, listing, TRUE, releasesOK, agentOK)
    <2>1. /\ Take("loaded") /\ shown' = listing /\ entriesOK' = TRUE /\ silent' \in BOOLEAN
          /\ UNCHANGED <<disk, named, binaries, agentOK, section, confirm, counters, crossed>>
          /\ tasks' = Started(works)
      BY <1>2 DEF ApplyLoaded
    <2>2. listing \in Listing /\ (~crossed => listing.store = StoreDir)
      BY <2>1, Taken DEF ClosureFits, Posts
    <2>3. StartedFor(works, StoreDir)
      BY <1>1, BuildStarts
    <2> HIDE DEF listing, works
    <2>4. TasksOK' /\ \A t \in Running' : t \in Running \/ TaskFits(t)
      BY <2>1, <2>3, Draws
    <2>5. TypeOK'
      BY <1>1, <2>1, <2>2, <2>4, Taken, TypesAfter
      DEF ScreenOK, DiskOK, RestOK, disk, binaries, counters
    <2> QED
      BY <1>1, <2>1, <2>2, <2>4, <2>5, Taken, Stays DEF disk, binaries, counters, RestOK
  <1>3. CASE ApplyReleases
    <2> DEFINE works == Build(section, StoreDir, shown, entriesOK, TRUE, agentOK)
    <2>1. /\ Take("releases") /\ releases' = Head(posted).listing /\ releasesOK' = TRUE
          /\ UNCHANGED <<disk, named, silent, shown, entriesOK, agentOK, section, confirm, counters,
                         crossed>>
          /\ tasks' = Started(works)
      BY <1>3 DEF ApplyReleases
    <2>2. releases' \in Listing /\ (~crossed => releases'.store = StoreDir)
      BY <2>1, Taken DEF ClosureFits, Posts
    <2>3. StartedFor(works, StoreDir)
      BY <1>1, BuildStarts
    <2> HIDE DEF works
    <2>4. TasksOK' /\ \A t \in Running' : t \in Running \/ TaskFits(t)
      BY <2>1, <2>3, Draws
    <2>5. TypeOK'
      BY <1>1, <2>1, <2>2, <2>4, Taken, TypesAfter
      DEF ScreenOK, DiskOK, RestOK, disk, counters
    <2> QED
      BY <1>1, <2>1, <2>2, <2>4, <2>5, Taken, Stays DEF disk, counters, RestOK
  <1>4. CASE ApplyOpenFailed
    <2>1. /\ Take("openFailed") /\ entriesOK' = TRUE /\ agentOK' = TRUE
          /\ UNCHANGED <<disk, named, silent, shown, binaries, section, confirm, tasks, counters,
                         crossed>>
      BY <1>4 DEF ApplyOpenFailed
    <2>2. TasksOK' /\ Running' = Running
      BY <1>1, <2>1 DEF TasksOK, Running
    <2>3. TypeOK'
      BY <1>1, <2>1, <2>2, Taken, TypesAfter
      DEF ScreenOK, DiskOK, RestOK, disk, binaries, counters
    <2> QED
      BY <1>1, <2>1, <2>2, <2>3, Taken, Stays DEF disk, binaries, counters, RestOK
  <1>5. CASE ApplyOk
    <2>1. Take("ok") /\ Invalidate /\ UNCHANGED <<disk, confirm, counters, crossed>>
      BY <1>5 DEF ApplyOk
    <2>2. actions' \in 0..MaxActions /\ UNCHANGED failures
      BY <1>1, <2>1 DEF counters, RestOK
    <2> QED
      BY <2>1, <2>2, Taken, InvalidateKeeps
  <1>6. CASE ApplyList
    <2>1. /\ Take("list") /\ UNCHANGED <<disk, screen, confirm, counters, crossed>>
          /\ tasks' = Started(Load("load", StoreDir))
      BY <1>6 DEF ApplyList
    <2>2. StartedFor(Load("load", StoreDir), StoreDir)
      BY <1>1, LoadStarts DEF Kinds
    <2>3. TasksOK' /\ \A t \in Running' : t \in Running \/ TaskFits(t)
      BY <2>1, <2>2, Draws
    <2>4. TypeOK'
      BY <1>1, <2>1, <2>3, Taken, TypesAfter
      DEF ScreenOK, DiskOK, RestOK, disk, screen, binaries, counters
    <2> QED
      BY <1>1, <2>1, <2>3, <2>4, Taken, Stays DEF disk, screen, binaries, counters, RestOK
  <1>7. CASE ApplyAgent
    <2>1. /\ Take("agent") /\ agentOK' = TRUE
          /\ UNCHANGED <<disk, named, silent, shown, entriesOK, binaries, section, confirm, counters,
                         crossed>>
      BY <1>7 DEF ApplyAgent
    <2>2. TasksOK' /\ \A t \in Running' : t \in Running \/ TaskFits(t)
      <3>1. CASE UNCHANGED tasks
        BY <1>1, <3>1 DEF TasksOK, Running
      <3>2. CASE tasks' = Started(Build(section, StoreDir, shown, entriesOK, releasesOK, TRUE))
        BY <1>1, <3>2, BuildStarts, Draws
      <3> QED
        BY <1>7, <3>1, <3>2 DEF ApplyAgent
    <2>3. TypeOK'
      BY <1>1, <2>1, <2>2, Taken, TypesAfter
      DEF ScreenOK, DiskOK, RestOK, disk, binaries, counters
    <2> QED
      BY <1>1, <2>1, <2>2, <2>3, Taken, Stays DEF disk, binaries, counters, RestOK
  <1>8. CASE ApplySetStore
    <2> DEFINE dir == Head(posted).dir
    <2>1. /\ Take("setStore") /\ Switch(dir, EmptyBag)
          /\ UNCHANGED <<env, made, changes, confirm, actions>>
      BY <1>8 DEF ApplySetStore
    <2>2. dir \in Stores
      BY <2>1, Taken DEF Posts
    <2> HIDE DEF dir
    <2>3. StartedFor(EmptyBag, Dir(remembered')) /\ actions' \in 0..MaxActions
      BY <1>1, <2>1, NothingStarts DEF RestOK
    <2> QED
      BY <2>1, <2>2, <2>3, Taken, Moves
  <1> QED
    BY <1>2, <1>3, <1>4, <1>5, <1>6, <1>7, <1>8 DEF UIThread

---------------------------------------------------------------------------
\* The window starts with what it shows still to be loaded.

\* Init establishes the invariant.
LEMMA InitIInv == ASSUME Init PROVE IInv
  <1>1. ScreenOK /\ DiskOK /\ RestOK
    <2>1. DiskOK
      BY WindowConstants DEF Init, DiskOK
    <2>2. StoreDir \in Stores \cup {None}
      BY <2>1, WindowConstants DEF DiskOK, StoreDir, Dir
    <2>3. ScreenOK
      BY <2>2, WindowConstants DEF Init, ScreenOK
    <2>4. RestOK
      <3>1. actions \in 0..MaxActions /\ failures \in 0..MaxFailures
        BY WindowConstants DEF Init
      <3>2. posted \in Seq(Posts)
        BY DEF Init
      <3> QED
        BY <3>1, <3>2 DEF Init, RestOK
    <2> QED
      BY <2>1, <2>3, <2>4
  <1>2. TasksOK /\ \A t \in Running : TaskFits(t)
    <2>1. CASE StoreDir = None
      BY <2>1, BagOfSet DEF Init, TasksOK, Running, EmptyBag
    <2>2. CASE StoreDir # None
      <3>1. StoreDir \in Stores
        BY <2>2, WindowConstants DEF Init, StoreDir, Dir
      <3>2. Running = {Work("load", StoreDir), Work("agent", StoreDir)} /\ IsABag(tasks)
        BY <2>2, BagOfSet DEF Init, Running
      <3> QED
        BY <3>1, <3>2, WorkFits DEF TasksOK, Work, Task, Kinds
    <2> QED
      BY <2>1, <2>2
  <1>3. TypeOK
    BY <1>1, <1>2, TypeParts
  <1>4. OnItsWay
    BY <1>2 DEF Init, OnItsWay, Range
  <1>5. RowIsOfItsStore \/ crossed
    BY <1>2 DEF TaskFits, RowIsOfItsStore, Operations
  <1> QED
    BY <1>3, <1>4, <1>5 DEF Init, IInv, WindowIsOfOneStore

\* Every step keeps the invariant.
LEMMA NextIInv == ASSUME IInv, [Next]_vars PROVE IInv'
  <1>1. CASE User
    BY <1>1, UserKeeps
  <1>2. CASE Background
    BY <1>2, GoroutineKeeps DEF Background
  <1>3. CASE UIThread
    BY <1>3, UIThreadKeeps
  <1>4. CASE UNCHANGED vars
    <2>1. UNCHANGED <<env, made, changes, remembered, named, silent, shown, entriesOK, releases,
                      releasesOK, agentOK, section, confirm, tasks, posted, actions, failures,
                      crossed>>
      BY <1>4 DEF vars, disk, screen, binaries, counters
    <2>2. TypeOK' /\ Running' = Running
      BY <2>1 DEF IInv, TypeOK, Running
    <2> QED
      BY <2>1, <2>2, Stays DEF IInv, TypeOK
  <1> QED
    BY <1>1, <1>2, <1>3, <1>4 DEF Next

\* The invariant holds throughout.
LEMMA IInvAlways == Spec => []IInv
  BY InitIInv, NextIInv, PTL DEF Spec

---------------------------------------------------------------------------
\* What it says of the program.

\* Whatever the user does while goroutines run, and whatever fails, the window's
\* state (gui's ui), its goroutines and the closures they post keep their types.
THEOREM TypeCorrect == Spec => []TypeOK
  <1>1. IInv => TypeOK
    BY DEF IInv
  <1> QED
    BY <1>1, IInvAlways, PTL

\* Unless the window was moved while a listing or a dialog was under way
\* (setStoreDir asks nothing about them), what it shows, the dialog it has open and
\* the operations it runs are about the store it works with, however many loads
\* and operations are under way and in whatever order they end.
THEOREM WindowKeepsToOneStore == Spec => []WindowIsOfOneStore
  <1>1. IInv => WindowIsOfOneStore
    BY DEF IInv
  <1> QED
    BY <1>1, IInvAlways, PTL
=============================================================================
