--------------------------- MODULE MachineProofs ---------------------------
(***************************************************************************)
(* Theorems about one machine's way into its store, for any number of      *)
(* processes, identities, unlock passphrases and events.                   *)
(***************************************************************************)
EXTENDS MachineInvariant, TLAPS

\* What the constants give: None, the labels and the commands.
LEMMA Names ==
    /\ None \notin LocalKey /\ Damaged \notin LocalKey /\ None # Damaged
    /\ None \notin Commands /\ None \notin Writers
    /\ MaxKey \in Nat /\ MaxKey >= 1 /\ MaxSecret \in Nat /\ MaxEvents \in Nat
  <1>1. None \notin Writers \cup {"use", "agent"}
    BY MachineConstants
  <1>2. Commands \subseteq Writers \cup {"use", "agent"}
    BY MachineConstants
  <1>3. MaxKey \in Nat /\ MaxKey >= 1
    BY MachineConstants
  <1> QED
    BY <1>1, <1>2, <1>3, MachineConstants

\* What a job's fields may become.
LEMMA JobType ==
    ASSUME NEW j \in Job
    PROVE  /\ j.cmd \in Commands \cup {None} /\ j.key \in Keys \cup {0}
           /\ j.secret \in Secrets \cup {0} /\ j.test \in BOOLEAN /\ j.since \in 0..MaxEvents
           /\ \A k \in Keys \cup {0} :
                 /\ [j EXCEPT !.key = k] \in Job
                 /\ \A w \in Secrets \cup {0} : [j EXCEPT !.key = k, !.secret = w] \in Job
           /\ [j EXCEPT !.test = TRUE] \in Job
  BY DEF Job

\* No job is a job, too.
LEMMA NoJobType == NoJob \in Job
  BY Names DEF NoJob, Job

\* A command that ends, and one whose session opens, leave processes well-formed.
LEMMA EndType ==
    ASSUME TypeOK, NEW p \in Procs, End(p)
    PROVE  pc' \in [Procs -> Pcs] /\ job' \in [Procs -> Job]
  BY NoJobType DEF TypeOK, End, Goto, Pcs

\* What remains when a command is over.
LEMMA Ends ==
    ASSUME TypeOK, NEW p \in Procs, End(p)
    PROVE  /\ pc'[p] = "idle" /\ job'[p].cmd = None /\ ~job'[p].test
           /\ \A q \in Procs \ {p} : pc'[q] = pc[q] /\ job'[q] = job[q]
  BY DEF TypeOK, End, Goto, NoJob

\* While a writer runs, no other process is in the middle of an installation.
LEMMA Alone ==
    ASSUME IInv, NEW p \in Procs, job[p].cmd \in Writers, NEW q \in Procs \ {p}
    PROVE  /\ job[q].cmd \notin Writers /\ ~job[q].test
           /\ pc[q] \notin {"export", "bootSet", "bootStage", "stage", "set", "commit", "rotate",
                           "forgetRing", "forgetFile"}
  BY Names DEF IInv, OneWriter, Flow, Runs, Writers

\* A session that opens goes on to its command's first step.
LEMMA OpenedType ==
    ASSUME TypeOK, NEW p \in Procs, NEW key \in Keys, Opened(p, key)
    PROVE  pc' \in [Procs -> Pcs] /\ job' \in [Procs -> Job]
  <1>1. CASE job[p].test \/ job[p].cmd = "use"
    BY <1>1, EndType DEF Opened
  <1>2. CASE ~(job[p].test \/ job[p].cmd = "use")
    <2>1. [job[p] EXCEPT !.key = key, !.secret = 0] \in Job
      BY JobType DEF TypeOK
    <2>2. FirstStep(job[p].cmd) \in Pcs
      BY DEF FirstStep, Pcs
    <2> QED
      BY <1>2, <2>1, <2>2 DEF Opened, Goto, TypeOK
  <1> QED
    BY <1>1, <1>2

\* A command begins with a well-formed job.
LEMMA BeginType ==
    ASSUME TypeOK, NEW p \in Procs, NEW cmd \in Commands, NEW key \in Keys \cup {0},
           NEW label \in Pcs, Begin(p, cmd, key, label)
    PROVE  TypeOK'
  <1>1. [NoJob EXCEPT !.cmd = cmd, !.key = key, !.since = events] \in Job
    BY Names DEF TypeOK, NoJob, Job
  <1> QED
    BY <1>1 DEF Begin, Goto, TypeOK

\* Drawing a passphrase while one is left.
LEMMA DrawType ==
    ASSUME TypeOK, CanDraw, NEW p \in Procs, NEW key \in Keys, Draw(p, key)
    PROVE  /\ nextSecret \in Secrets
           /\ nextSecret' \in 1..(MaxSecret + 1)
           /\ job' \in [Procs -> Job]
  <1>1. nextSecret \in Secrets /\ nextSecret' \in 1..(MaxSecret + 1)
    BY Names DEF TypeOK, CanDraw, Draw, Secrets
  <1>2. [job[p] EXCEPT !.key = key, !.secret = nextSecret] \in Job
    BY <1>1, JobType DEF TypeOK
  <1> QED
    BY <1>1, <1>2 DEF Draw, TypeOK

\* Init establishes the invariant.
LEMMA InitIInv == Init => IInv
  <1> SUFFICES ASSUME Init PROVE IInv
    OBVIOUS
  <1>1. TypeOK
    <2>1. storeKey \in Keys /\ nextSecret \in 1..(MaxSecret + 1) /\ events \in 0..MaxEvents
      BY Names DEF Init, Keys
    <2>2. pc \in [Procs -> Pcs] /\ job \in [Procs -> Job]
      BY NoJobType DEF Init, Pcs
    <2> QED
      BY <2>1, <2>2 DEF Init, TypeOK
  <1>5. \A p \in Procs : job[p].since <= events
    <2> SUFFICES ASSUME NEW p \in Procs PROVE job[p].since <= events
      OBVIOUS
    <2>1. job[p] = NoJob /\ events = 0
      BY DEF Init
    <2>2. job[p].since = 0
      BY <2>1 DEF NoJob
    <2> QED
      BY <2>1, <2>2
  <1>2. OneWriter /\ Flow
    BY Names DEF Init, OneWriter, Flow, Runs, NoJob
  <1>3. Drawing /\ Undisturbed
    BY DEF Init, Drawing, Undisturbed, Carries, NoJob
  <1>4. Installing /\ KeyOpens
    BY Names DEF Init, Installing, KeyOpens, HasLocalKey, Carries, NoJob
  <1> QED
    BY <1>1, <1>2, <1>3, <1>4, <1>5 DEF IInv

\* Every step preserves the types of the variables.
LEMMA NextTypeOK == IInv /\ [Next]_vars => TypeOK'
  <1> SUFFICES ASSUME IInv, [Next]_vars PROVE TypeOK'
    OBVIOUS
  <1> USE Names DEF IInv, TypeOK, Keys, Secrets, Pcs, Job, LocalKey
  <1>1. CASE UNCHANGED vars
    BY <1>1 DEF vars
  <1>2. ASSUME NEW p \in Procs, Bootstrap(p) PROVE TypeOK'
    BY <1>2, BeginType DEF Bootstrap, MayStart
  <1>3. ASSUME NEW p \in Procs, Forget(p) PROVE TypeOK'
    BY <1>3 DEF Forget, Goto, MayStart, Begin, NoJob
  <1>4. ASSUME NEW p \in Procs, RekeyLocal(p) PROVE TypeOK'
    BY <1>4 DEF RekeyLocal, Goto, MayStart, Begin, NoJob, CanDraw, HasLocalKey
  <1>5. ASSUME NEW p \in Procs, RekeyIdentity(p) PROVE TypeOK'
    BY <1>5, BeginType DEF RekeyIdentity, MayStart
  <1>6. ASSUME NEW p \in Procs, Use(p) PROVE TypeOK'
    BY <1>6 DEF Use, Goto, MayStart, Begin, NoJob
  <1>7. ASSUME NEW p \in Procs, StartAgent(p) PROVE TypeOK'
    BY <1>7 DEF StartAgent, Goto, MayStart, Begin, NoJob
  <1>28. ASSUME NEW p \in Procs, WindowBootstrap(p) PROVE TypeOK'
    BY <1>28 DEF WindowBootstrap, Goto, MayStart, Begin, NoJob, CanDraw
  <1>8. ASSUME NEW p \in Procs, Unlock(p) PROVE TypeOK'
    <2>1. pc' \in [Procs -> Pcs] /\ job' \in [Procs -> Job]
      BY <1>8, OpenedType DEF Unlock, Goto
    <2> QED
      BY <1>8, <2>1 DEF Unlock
  <1>9. ASSUME NEW p \in Procs, OpenLocal(p) PROVE TypeOK'
    <2>1. CASE GetSucceeds(p)
      <3>1. local.key \in Keys /\ ring[local.key] \in Secrets \cup {0}
        BY <2>1 DEF GetSucceeds
      <3>2. [job[p] EXCEPT !.key = local.key, !.secret = ring[local.key]] \in Job
        BY <3>1, JobType, ZenonT(60)
      <3> QED
        BY <1>9, <2>1, <3>2 DEF OpenLocal, GetSucceeds, Goto
    <2>2. CASE GetFails(p) \/ ReadFails(p)
      BY <1>9, <2>2, EndType DEF OpenLocal, GetFails, ReadFails
    <2>3. CASE ReadSucceeds(p)
      <3>1. local.key \in Keys
        BY <2>3 DEF ReadSucceeds
      <3> QED
        BY <1>9, <2>3, <3>1, OpenedType DEF OpenLocal, ReadSucceeds
    <2> QED
      BY <1>9, <2>1, <2>2, <2>3 DEF OpenLocal
  <1>10. ASSUME NEW p \in Procs, HoldInAgent(p) PROVE TypeOK'
    BY <1>10 DEF HoldInAgent, Goto, End, NoJob
  <1>11. ASSUME NEW p \in Procs, BootstrapWithoutKeyring(p) PROVE TypeOK'
    BY <1>11 DEF BootstrapWithoutKeyring, Goto, End, NoJob
  <1>12. ASSUME NEW p \in Procs, Export(p) PROVE TypeOK'
    <2>1. CanDraw /\ Exported(p) \in Keys
      BY <1>12 DEF Export, Exported, Drawing, Carries, Flow, Runs
    <2> QED
      BY <1>12, <2>1, DrawType DEF Export, Goto
  <1>13. ASSUME NEW p \in Procs, BootSet(p) PROVE TypeOK'
    <2>1. job[p].key \in Keys /\ job[p].secret \in Secrets
      BY <1>13 DEF BootSet, Drawing
    <2>2. CASE ringUp
      BY <1>13, <2>1, <2>2 DEF BootSet, SetEntry, Goto, End
    <2>3. CASE ~ringUp
      BY <1>13, <2>3, EndType DEF BootSet
    <2> QED
      BY <2>2, <2>3
  <1>14. ASSUME NEW p \in Procs, BootStage(p) PROVE TypeOK'
    <2>1. job[p].key \in Keys /\ job[p].secret \in Secrets
      BY <1>14 DEF BootStage, Drawing
    <2> QED
      BY <1>14, <2>1 DEF BootStage, Goto
  <1>15. ASSUME NEW p \in Procs, Commit(p) PROVE TypeOK'
    BY <1>15, ZenonT(60) DEF Commit, Goto
  <1>16. ASSUME NEW p \in Procs, Stage(p) PROVE TypeOK'
    <2>1. CanDraw /\ job[p].key \in Keys
      BY <1>16 DEF Stage, Drawing
    <2>2. CASE ringUp
      <3>1. Draw(p, job[p].key) /\ pc' = [pc EXCEPT ![p] = "set"]
        BY <1>16, <2>2 DEF Stage, Goto
      <3>2. /\ nextSecret \in Secrets /\ nextSecret' \in 1..(MaxSecret + 1)
            /\ job' \in [Procs -> Job]
        BY <3>1, <2>1, DrawType
      <3>3. [key |-> job[p].key, secret |-> nextSecret] \in LocalKey
        BY <2>1, <3>2
      <3>4. staged' = [key |-> job[p].key, secret |-> nextSecret]
        BY <1>16, <2>2 DEF Stage
      <3>5. UNCHANGED <<storeKey, ring, ringUp, local, agent, leftBehind, events>>
        BY <1>16 DEF Stage
      <3> HIDE DEF LocalKey, Job
      <3> QED
        BY <3>1, <3>2, <3>3, <3>4, <3>5
    <2>3. CASE ~ringUp
      BY <1>16, <2>3, EndType DEF Stage
    <2> QED
      BY <2>2, <2>3
  <1>17. ASSUME NEW p \in Procs, Set(p) PROVE TypeOK'
    <2>1. job[p].key \in Keys /\ job[p].secret \in Secrets
      BY <1>17 DEF Set, Drawing
    <2>2. CASE ringUp
      BY <1>17, <2>1, <2>2 DEF Set, SetEntry, Goto, End
    <2>3. CASE ~ringUp
      BY <1>17, <2>3, EndType DEF Set
    <2> QED
      BY <2>2, <2>3
  <1>18. ASSUME NEW p \in Procs, Rotate(p) PROVE TypeOK'
    <2>1. CASE pc'[p] = "idle" /\ End(p)
      <3>1. storeKey' \in Keys
        BY <1>18 DEF Rotate
      <3>3. leftBehind' \in BOOLEAN
        BY <1>18, Zenon DEF Rotate
      <3>2. pc' \in [Procs -> Pcs] /\ job' \in [Procs -> Job]
        BY <2>1, EndType
      <3> QED
        BY <1>18, <3>1, <3>2, <3>3 DEF Rotate
    <2>2. CASE local \in LocalKey /\ job' = [job EXCEPT ![p].key = local.key] /\ Goto(p, "forgetRing")
      <3>1. [job[p] EXCEPT !.key = local.key] \in Job
        BY <2>2, JobType, ZenonT(60)
      <3>2. storeKey' \in Keys
        BY <1>18 DEF Rotate
      <3>3. leftBehind' \in BOOLEAN
        BY <1>18, Zenon DEF Rotate
      <3> HIDE DEF Job
      <3> QED
        BY <1>18, <2>2, <3>1, <3>2, <3>3 DEF Rotate, Goto
    <2> QED
      BY <1>18, <2>1, <2>2 DEF Rotate, End, Goto
  <1>19. ASSUME NEW p \in Procs, ForgetRing(p) PROVE TypeOK'
    BY <1>19 DEF ForgetRing, Goto
  <1>20. ASSUME NEW p \in Procs, ForgetFile(p) PROVE TypeOK'
    BY <1>20, EndType DEF ForgetFile
  <1>21. ASSUME NEW p \in Procs, Kill(p) PROVE TypeOK'
    BY <1>21 DEF Kill, Goto, Event, End, NoJob
  <1>22. ASSUME NEW p \in Procs, Fail(p) PROVE TypeOK'
    BY <1>22 DEF Fail, Goto, Event, End, NoJob
  <1>23. CASE AgentEnds
    BY <1>23 DEF AgentEnds
  <1>24. CASE RingStartsOrStops
    BY <1>24 DEF RingStartsOrStops, Event
  <1>25. CASE LoseEntry
    BY <1>25 DEF LoseEntry, Event
  <1>26. CASE DamageLocalKey
    BY <1>26 DEF DamageLocalKey, Event
  <1>27. CASE RotateElsewhere
    BY <1>27 DEF RotateElsewhere, Event
  <1> QED
    BY <1>1, <1>2, <1>3, <1>4, <1>5, <1>6, <1>7, <1>8, <1>9, <1>10, <1>11, <1>12, <1>13, <1>14,
       <1>15, <1>16, <1>17, <1>18, <1>19, <1>20, <1>21, <1>22, <1>23, <1>24, <1>25, <1>26, <1>27,
       <1>28 DEF Next, Start, Step, Outside

\* Writers stay alone.
LEMMA NextOneWriter == IInv /\ [Next]_vars => OneWriter'
  <1> SUFFICES ASSUME IInv, [Next]_vars PROVE OneWriter'
    OBVIOUS
  <1> USE Names DEF IInv, OneWriter, Flow, Runs, TypeOK, Job
  <1>1. CASE UNCHANGED vars
    BY <1>1 DEF vars
  <1>2. ASSUME NEW p \in Procs, Bootstrap(p) PROVE OneWriter'
    <2>1. CASE MayStart(p, "bootstrap") /\ ~HasLocalKey /\ Begin(p, "bootstrap", 0, "export")
      BY <1>2, <2>1 DEF Bootstrap, MayStart, Begin, Goto, NoJob
    <2>2. CASE MayStart(p, "force") /\ Begin(p, "force", 0, "export")
      BY <1>2, <2>2 DEF Bootstrap, MayStart, Begin, Goto, NoJob
    <2> QED
      BY <1>2, <2>1, <2>2 DEF Bootstrap
  <1>3. ASSUME NEW p \in Procs, Forget(p) PROVE OneWriter'
    BY <1>3 DEF Forget, Goto, MayStart, Begin, NoJob
  <1>4. ASSUME NEW p \in Procs, RekeyLocal(p) PROVE OneWriter'
    BY <1>4 DEF RekeyLocal, Goto, MayStart, Begin, NoJob
  <1>5. ASSUME NEW p \in Procs, RekeyIdentity(p) PROVE OneWriter'
    BY <1>5 DEF RekeyIdentity, Goto, MayStart, Begin, NoJob
  <1>6. ASSUME NEW p \in Procs, Use(p) PROVE OneWriter'
    BY <1>6 DEF Use, Goto, MayStart, Begin, NoJob
  <1>7. ASSUME NEW p \in Procs, StartAgent(p) PROVE OneWriter'
    BY <1>7 DEF StartAgent, Goto, MayStart, Begin, NoJob
  <1>28. ASSUME NEW p \in Procs, WindowBootstrap(p) PROVE OneWriter'
    BY <1>28 DEF WindowBootstrap, Goto, MayStart, Begin, NoJob
  <1>8. ASSUME NEW p \in Procs, Unlock(p) PROVE OneWriter'
    BY <1>8 DEF Unlock, Goto, Opened, End, NoJob, FirstStep
  <1>9. ASSUME NEW p \in Procs, OpenLocal(p) PROVE OneWriter'
    BY <1>9
       DEF OpenLocal, Goto, GetSucceeds, GetFails, ReadSucceeds, ReadFails, Opened, End, NoJob,
           FirstStep
  <1>10. ASSUME NEW p \in Procs, HoldInAgent(p) PROVE OneWriter'
    BY <1>10 DEF HoldInAgent, Goto, End, NoJob
  <1>11. ASSUME NEW p \in Procs, BootstrapWithoutKeyring(p) PROVE OneWriter'
    BY <1>11 DEF BootstrapWithoutKeyring, Goto, End, NoJob
  <1>12. ASSUME NEW p \in Procs, Export(p) PROVE OneWriter'
    BY <1>12 DEF Export, Exported, Goto, Draw
  <1>13. ASSUME NEW p \in Procs, BootSet(p) PROVE OneWriter'
    BY <1>13 DEF BootSet, Goto, SetEntry, End, NoJob
  <1>14. ASSUME NEW p \in Procs, BootStage(p) PROVE OneWriter'
    BY <1>14 DEF BootStage, Goto
  <1>15. ASSUME NEW p \in Procs, Commit(p) PROVE OneWriter'
    BY <1>15 DEF Commit, Goto
  <1>16. ASSUME NEW p \in Procs, Stage(p) PROVE OneWriter'
    BY <1>16 DEF Stage, Goto, Draw, End, NoJob
  <1>17. ASSUME NEW p \in Procs, Set(p) PROVE OneWriter'
    BY <1>17 DEF Set, Goto, SetEntry, End, NoJob
  <1>18. ASSUME NEW p \in Procs, Rotate(p) PROVE OneWriter'
    BY <1>18 DEF Rotate, Goto, End, NoJob
  <1>19. ASSUME NEW p \in Procs, ForgetRing(p) PROVE OneWriter'
    BY <1>19 DEF ForgetRing, Goto
  <1>20. ASSUME NEW p \in Procs, ForgetFile(p) PROVE OneWriter'
    BY <1>20 DEF ForgetFile, Goto, End, NoJob
  <1>21. ASSUME NEW p \in Procs, Kill(p) PROVE OneWriter'
    BY <1>21 DEF Kill, Goto, Event, End, NoJob
  <1>22. ASSUME NEW p \in Procs, Fail(p) PROVE OneWriter'
    BY <1>22 DEF Fail, Goto, Event, End, NoJob
  <1>23. CASE AgentEnds
    BY <1>23 DEF AgentEnds
  <1>24. CASE RingStartsOrStops
    BY <1>24 DEF RingStartsOrStops, Event
  <1>25. CASE LoseEntry
    BY <1>25 DEF LoseEntry, Event
  <1>26. CASE DamageLocalKey
    BY <1>26 DEF DamageLocalKey, Event
  <1>27. CASE RotateElsewhere
    BY <1>27 DEF RotateElsewhere, Event
  <1> QED
    BY <1>1, <1>2, <1>3, <1>4, <1>5, <1>6, <1>7, <1>8, <1>9, <1>10, <1>11, <1>12, <1>13, <1>14,
       <1>15, <1>16, <1>17, <1>18, <1>19, <1>20, <1>21, <1>22, <1>23, <1>24, <1>25, <1>26, <1>27,
       <1>28 DEF Next, Start, Step, Outside

\* Every step leads to one its command can be at.
LEMMA NextFlow == IInv /\ [Next]_vars => Flow'
  <1> SUFFICES ASSUME IInv, [Next]_vars PROVE Flow'
    OBVIOUS
  <1> USE Names DEF IInv, Flow, Runs, TypeOK, Job, Writers
  <1>1. CASE UNCHANGED vars
    BY <1>1 DEF vars
  <1>2. ASSUME NEW p \in Procs, Bootstrap(p) PROVE Flow'
    <2>1. CASE MayStart(p, "bootstrap") /\ ~HasLocalKey /\ Begin(p, "bootstrap", 0, "export")
      BY <1>2, <2>1 DEF Bootstrap, MayStart, Begin, Goto, NoJob
    <2>2. CASE MayStart(p, "force") /\ Begin(p, "force", 0, "export")
      BY <1>2, <2>2 DEF Bootstrap, MayStart, Begin, Goto, NoJob
    <2> QED
      BY <1>2, <2>1, <2>2 DEF Bootstrap
  <1>3. ASSUME NEW p \in Procs, Forget(p) PROVE Flow'
    BY <1>3 DEF Forget, Goto, MayStart, Begin, NoJob
  <1>4. ASSUME NEW p \in Procs, RekeyLocal(p) PROVE Flow'
    BY <1>4 DEF RekeyLocal, Goto, MayStart, Begin, NoJob
  <1>5. ASSUME NEW p \in Procs, RekeyIdentity(p) PROVE Flow'
    BY <1>5 DEF RekeyIdentity, Goto, MayStart, Begin, NoJob
  <1>6. ASSUME NEW p \in Procs, Use(p) PROVE Flow'
    BY <1>6 DEF Use, Goto, MayStart, Begin, NoJob
  <1>7. ASSUME NEW p \in Procs, StartAgent(p) PROVE Flow'
    BY <1>7 DEF StartAgent, Goto, MayStart, Begin, NoJob
  <1>28. ASSUME NEW p \in Procs, WindowBootstrap(p) PROVE Flow'
    BY <1>28 DEF WindowBootstrap, Goto, MayStart, Begin, NoJob
  <1>8. ASSUME NEW p \in Procs, Unlock(p) PROVE Flow'
    <2>1. CASE End(p)
      BY <1>8, <2>1 DEF Unlock, End, Goto, NoJob
    <2>2. CASE Goto(p, "get") /\ UNCHANGED job
      BY <1>8, <2>2 DEF Unlock, Goto
    <2>3. ASSUME NEW key \in Keys, ~(job[p].test \/ job[p].cmd = "use"),
                 job' = [job EXCEPT ![p].key = key, ![p].secret = 0], Goto(p, FirstStep(job[p].cmd))
          PROVE  Flow'
      BY <1>8, <2>3 DEF Unlock, Goto, FirstStep
    <2> QED
      BY <1>8, <2>1, <2>2, <2>3 DEF Unlock, Opened
  <1>9. ASSUME NEW p \in Procs, OpenLocal(p) PROVE Flow'
    <2>1. CASE End(p)
      BY <1>9, <2>1 DEF OpenLocal, End, Goto, NoJob
    <2>2. CASE GetSucceeds(p)
      BY <1>9, <2>2 DEF OpenLocal, GetSucceeds, Goto
    <2>3. ASSUME NEW key \in Keys, pc[p] = "read", ~(job[p].test \/ job[p].cmd = "use"),
                 job' = [job EXCEPT ![p].key = key, ![p].secret = 0], Goto(p, FirstStep(job[p].cmd))
          PROVE  Flow'
      BY <1>9, <2>3 DEF OpenLocal, Goto, FirstStep
    <2>4. local \in LocalKey => local.key \in Keys
      BY DEF LocalKey
    <2> QED
      BY <1>9, <2>1, <2>2, <2>3, <2>4 DEF OpenLocal, GetFails, ReadSucceeds, ReadFails, Opened
  <1>10. ASSUME NEW p \in Procs, HoldInAgent(p) PROVE Flow'
    BY <1>10 DEF HoldInAgent, Goto, End, NoJob
  <1>11. ASSUME NEW p \in Procs, BootstrapWithoutKeyring(p) PROVE Flow'
    BY <1>11 DEF BootstrapWithoutKeyring, Goto, End, NoJob
  <1>12. ASSUME NEW p \in Procs, Export(p) PROVE Flow'
    BY <1>12 DEF Export, Exported, Goto, Draw
  <1>13. ASSUME NEW p \in Procs, BootSet(p) PROVE Flow'
    <2>1. CASE ringUp
      BY <1>13, <2>1 DEF BootSet, Goto, SetEntry
    <2>2. CASE ~ringUp
      <3>1. End(p)
        BY <1>13, <2>2 DEF BootSet
      <3> QED
        BY <3>1 DEF End, Goto, NoJob
    <2> QED
      BY <2>1, <2>2
  <1>14. ASSUME NEW p \in Procs, BootStage(p) PROVE Flow'
    BY <1>14 DEF BootStage, Goto
  <1>15. ASSUME NEW p \in Procs, Commit(p) PROVE Flow'
    BY <1>15 DEF Commit, Goto
  <1>16. ASSUME NEW p \in Procs, Stage(p) PROVE Flow'
    <2>1. CASE ringUp
      BY <1>16, <2>1 DEF Stage, Goto, Draw
    <2>2. CASE ~ringUp
      <3>1. End(p)
        BY <1>16, <2>2 DEF Stage
      <3> QED
        BY <3>1 DEF End, Goto, NoJob
    <2> QED
      BY <2>1, <2>2
  <1>17. ASSUME NEW p \in Procs, Set(p) PROVE Flow'
    <2>1. CASE ringUp
      BY <1>17, <2>1 DEF Set, Goto, SetEntry
    <2>2. CASE ~ringUp
      <3>1. End(p)
        BY <1>17, <2>2 DEF Set
      <3> QED
        BY <3>1 DEF End, Goto, NoJob
    <2> QED
      BY <2>1, <2>2
  <1>18. ASSUME NEW p \in Procs, Rotate(p) PROVE Flow'
    <2>1. CASE End(p)
      BY <1>18, <2>1 DEF Rotate, End, Goto, NoJob
    <2>2. CASE local \in LocalKey /\ job' = [job EXCEPT ![p].key = local.key] /\ Goto(p, "forgetRing")
      <3>1. job[p].cmd = "rekeyIdentity"
        BY <1>18, <2>2 DEF Rotate, End, Goto
      <3> QED
        BY <1>18, <2>2, <3>1 DEF Rotate, Goto
    <2> QED
      BY <1>18, <2>1, <2>2 DEF Rotate
  <1>19. ASSUME NEW p \in Procs, ForgetRing(p) PROVE Flow'
    BY <1>19 DEF ForgetRing, Goto
  <1>20. ASSUME NEW p \in Procs, ForgetFile(p) PROVE Flow'
    BY <1>20 DEF ForgetFile, Goto, End, NoJob
  <1>21. ASSUME NEW p \in Procs, Kill(p) PROVE Flow'
    BY <1>21 DEF Kill, Goto, Event, End, NoJob
  <1>22. ASSUME NEW p \in Procs, Fail(p) PROVE Flow'
    BY <1>22 DEF Fail, Goto, Event, End, NoJob
  <1>23. CASE AgentEnds
    BY <1>23 DEF AgentEnds
  <1>24. CASE RingStartsOrStops
    BY <1>24 DEF RingStartsOrStops, Event
  <1>25. CASE LoseEntry
    BY <1>25 DEF LoseEntry, Event
  <1>26. CASE DamageLocalKey
    BY <1>26 DEF DamageLocalKey, Event
  <1>27. CASE RotateElsewhere
    BY <1>27 DEF RotateElsewhere, Event
  <1> QED
    BY <1>1, <1>2, <1>3, <1>4, <1>5, <1>6, <1>7, <1>8, <1>9, <1>10, <1>11, <1>12, <1>13, <1>14,
       <1>15, <1>16, <1>17, <1>18, <1>19, <1>20, <1>21, <1>22, <1>23, <1>24, <1>25, <1>26, <1>27,
       <1>28 DEF Next, Start, Step, Outside

\* A command that will draw an unlock passphrase has one to draw, and what it
\* has drawn is one.
LEMMA NextDrawing == IInv /\ [Next]_vars => Drawing'
  <1> SUFFICES ASSUME IInv, [Next]_vars PROVE Drawing'
    OBVIOUS
  <1> USE Names DEF IInv, OneWriter, Flow, Runs, Drawing, Carries, TypeOK, Job, Writers, CanDraw
  <1>1. CASE UNCHANGED vars
    BY <1>1 DEF vars
  <1>2. ASSUME NEW p \in Procs, Bootstrap(p) PROVE Drawing'
    <2>1. CASE MayStart(p, "bootstrap") /\ ~HasLocalKey /\ Begin(p, "bootstrap", 0, "export")
      BY <1>2, <2>1 DEF Bootstrap, MayStart, Begin, Goto, NoJob
    <2>2. CASE MayStart(p, "force") /\ Begin(p, "force", 0, "export")
      BY <1>2, <2>2 DEF Bootstrap, MayStart, Begin, Goto, NoJob
    <2> QED
      BY <1>2, <2>1, <2>2 DEF Bootstrap
  <1>3. ASSUME NEW p \in Procs, Forget(p) PROVE Drawing'
    <2>1. local.key \in Keys
      BY <1>3 DEF Forget, LocalKey
    <2> QED
      BY <1>3, <2>1 DEF Forget, Goto, MayStart, Begin, NoJob
  <1>4. ASSUME NEW p \in Procs, RekeyLocal(p) PROVE Drawing'
    BY <1>4 DEF RekeyLocal, Goto, MayStart, Begin, NoJob
  <1>5. ASSUME NEW p \in Procs, RekeyIdentity(p) PROVE Drawing'
    BY <1>5 DEF RekeyIdentity, Goto, MayStart, Begin, NoJob
  <1>6. ASSUME NEW p \in Procs, Use(p) PROVE Drawing'
    BY <1>6 DEF Use, Goto, MayStart, Begin, NoJob
  <1>7. ASSUME NEW p \in Procs, StartAgent(p) PROVE Drawing'
    BY <1>7 DEF StartAgent, Goto, MayStart, Begin, NoJob
  <1>28. ASSUME NEW p \in Procs, WindowBootstrap(p) PROVE Drawing'
    BY <1>28 DEF WindowBootstrap, Goto, MayStart, Begin, NoJob
  <1>8. ASSUME NEW p \in Procs, Unlock(p) PROVE Drawing'
    BY <1>8 DEF Unlock, Goto, Opened, End, NoJob, FirstStep
  <1>9. ASSUME NEW p \in Procs, OpenLocal(p) PROVE Drawing'
    BY <1>9
       DEF OpenLocal, Goto, GetSucceeds, GetFails, ReadSucceeds, ReadFails, Opened, End, NoJob,
           FirstStep
  <1>10. ASSUME NEW p \in Procs, HoldInAgent(p) PROVE Drawing'
    BY <1>10 DEF HoldInAgent, Goto, End, NoJob
  <1>11. ASSUME NEW p \in Procs, BootstrapWithoutKeyring(p) PROVE Drawing'
    BY <1>11 DEF BootstrapWithoutKeyring, Goto, End, NoJob
  <1>12. ASSUME NEW p \in Procs, Export(p) PROVE Drawing'
    BY <1>12 DEF Export, Exported, Goto, Draw
  <1>13. ASSUME NEW p \in Procs, BootSet(p) PROVE Drawing'
    BY <1>13 DEF BootSet, Goto, SetEntry, End, NoJob
  <1>14. ASSUME NEW p \in Procs, BootStage(p) PROVE Drawing'
    BY <1>14 DEF BootStage, Goto
  <1>15. ASSUME NEW p \in Procs, Commit(p) PROVE Drawing'
    BY <1>15 DEF Commit, Goto
  <1>16. ASSUME NEW p \in Procs, Stage(p) PROVE Drawing'
    BY <1>16 DEF Stage, Goto, Draw, End, NoJob
  <1>17. ASSUME NEW p \in Procs, Set(p) PROVE Drawing'
    BY <1>17 DEF Set, Goto, SetEntry, End, NoJob
  <1>18. ASSUME NEW p \in Procs, Rotate(p) PROVE Drawing'
    <2>1. CASE End(p)
      BY <1>18, <2>1 DEF Rotate, End, Goto, NoJob
    <2>2. CASE local \in LocalKey /\ job' = [job EXCEPT ![p].key = local.key] /\ Goto(p, "forgetRing")
      <3>1. local.key \in Keys
        BY <2>2 DEF LocalKey
      <3> QED
        BY <1>18, <2>2, <3>1 DEF Rotate, Goto
    <2> QED
      BY <1>18, <2>1, <2>2 DEF Rotate
  <1>19. ASSUME NEW p \in Procs, ForgetRing(p) PROVE Drawing'
    BY <1>19 DEF ForgetRing, Goto
  <1>20. ASSUME NEW p \in Procs, ForgetFile(p) PROVE Drawing'
    BY <1>20 DEF ForgetFile, Goto, End, NoJob
  <1>21. ASSUME NEW p \in Procs, Kill(p) PROVE Drawing'
    BY <1>21 DEF Kill, Goto, Event, End, NoJob
  <1>22. ASSUME NEW p \in Procs, Fail(p) PROVE Drawing'
    BY <1>22 DEF Fail, Goto, Event, End, NoJob
  <1>23. CASE AgentEnds
    BY <1>23 DEF AgentEnds
  <1>24. CASE RingStartsOrStops
    BY <1>24 DEF RingStartsOrStops, Event
  <1>25. CASE LoseEntry
    BY <1>25 DEF LoseEntry, Event
  <1>26. CASE DamageLocalKey
    BY <1>26 DEF DamageLocalKey, Event
  <1>27. CASE RotateElsewhere
    BY <1>27 DEF RotateElsewhere, Event
  <1> QED
    BY <1>1, <1>2, <1>3, <1>4, <1>5, <1>6, <1>7, <1>8, <1>9, <1>10, <1>11, <1>12, <1>13, <1>14,
       <1>15, <1>16, <1>17, <1>18, <1>19, <1>20, <1>21, <1>22, <1>23, <1>24, <1>25, <1>26, <1>27,
       <1>28 DEF Next, Start, Step, Outside

\* Around an installation nothing else changes the local key or its replacement;
\* the keyring entry can only be lost.
LEMMA NextInstalling == IInv /\ [Next]_vars => Installing'
  <1> SUFFICES ASSUME IInv, [Next]_vars PROVE Installing'
    OBVIOUS
  <1> USE Names DEF IInv, OneWriter, Flow, Runs, Drawing, Installing, TypeOK, Job, Writers,
     HasLocalKey, Keys, Carries
  <1>1. CASE UNCHANGED vars
    BY <1>1 DEF vars
  <1>2. ASSUME NEW p \in Procs, Bootstrap(p) PROVE Installing'
    <2>1. CASE MayStart(p, "bootstrap") /\ ~HasLocalKey /\ Begin(p, "bootstrap", 0, "export")
      BY <1>2, <2>1 DEF Bootstrap, MayStart, Begin, Goto, NoJob
    <2>2. CASE MayStart(p, "force") /\ Begin(p, "force", 0, "export")
      BY <1>2, <2>2 DEF Bootstrap, MayStart, Begin, Goto, NoJob
    <2> QED
      BY <1>2, <2>1, <2>2 DEF Bootstrap
  <1>3. ASSUME NEW p \in Procs, Forget(p) PROVE Installing'
    BY <1>3 DEF Forget, Goto, MayStart, Begin, NoJob
  <1>4. ASSUME NEW p \in Procs, RekeyLocal(p) PROVE Installing'
    BY <1>4 DEF RekeyLocal, Goto, MayStart, Begin, NoJob
  <1>5. ASSUME NEW p \in Procs, RekeyIdentity(p) PROVE Installing'
    BY <1>5 DEF RekeyIdentity, Goto, MayStart, Begin, NoJob
  <1>6. ASSUME NEW p \in Procs, Use(p) PROVE Installing'
    BY <1>6 DEF Use, Goto, MayStart, Begin, NoJob
  <1>7. ASSUME NEW p \in Procs, StartAgent(p) PROVE Installing'
    BY <1>7 DEF StartAgent, Goto, MayStart, Begin, NoJob
  <1>28. ASSUME NEW p \in Procs, WindowBootstrap(p) PROVE Installing'
    BY <1>28 DEF WindowBootstrap, Goto, MayStart, Begin, NoJob
  <1>8. ASSUME NEW p \in Procs, Unlock(p) PROVE Installing'
    BY <1>8 DEF Unlock, Goto, Opened, End, NoJob, FirstStep
  <1>9. ASSUME NEW p \in Procs, OpenLocal(p) PROVE Installing'
    BY <1>9
       DEF OpenLocal, Goto, GetSucceeds, GetFails, ReadSucceeds, ReadFails, Opened, End, NoJob,
           FirstStep
  <1>10. ASSUME NEW p \in Procs, HoldInAgent(p) PROVE Installing'
    BY <1>10 DEF HoldInAgent, Goto, End, NoJob
  <1>11. ASSUME NEW p \in Procs, BootstrapWithoutKeyring(p) PROVE Installing'
    BY <1>11 DEF BootstrapWithoutKeyring, Goto, End, NoJob
  <1>12. ASSUME NEW p \in Procs, Export(p) PROVE Installing'
    BY <1>12 DEF Export, Exported, Goto, Draw
  <1>13. ASSUME NEW p \in Procs, BootSet(p) PROVE Installing'
    <2>1. CASE ringUp
      <3>1. /\ ring' = [ring EXCEPT ![job[p].key] = job[p].secret] /\ job[p].key \in Keys
            /\ \A q \in Procs \ {p} : pc[q] \notin {"export", "bootSet", "stage", "set", "bootStage", "commit"}
        BY <1>13, <2>1, ZenonT(60) DEF BootSet, SetEntry
      <3>2. ring'[job[p].key] = job[p].secret
        BY <3>1
      <3> QED
        BY <1>13, <2>1, <3>1, <3>2 DEF BootSet, Goto
    <2>2. CASE ~ringUp
      BY <1>13, <2>2 DEF BootSet, Goto, End, NoJob
    <2> QED
      BY <2>1, <2>2
  <1>14. ASSUME NEW p \in Procs, BootStage(p) PROVE Installing'
    BY <1>14, ZenonT(60) DEF BootStage, Goto
  <1>15. ASSUME NEW p \in Procs, Commit(p) PROVE Installing'
    <2>1. /\ staged = [key |-> job[p].key, secret |-> job[p].secret]
          /\ job[p].key <= storeKey
          /\ \A q \in Procs \ {p} : pc[q] \notin {"export", "bootSet", "stage", "set", "bootStage", "commit"}
      BY <1>15, ZenonT(60) DEF Commit
    <2>2. local' = staged /\ UNCHANGED storeKey
      BY <1>15 DEF Commit
    <2>3. /\ pc'[p] = "get" /\ \A q \in Procs \ {p} : pc'[q] = pc[q] /\ job'[q] = job[q]
      BY <1>15 DEF Commit, Goto
    <2>4. \A q \in Procs \ {p} : job[q].cmd # "bootstrap"
      BY <1>15 DEF Commit
    <2> QED
      BY <2>1, <2>2, <2>3, <2>4
  <1>16. ASSUME NEW p \in Procs, Stage(p) PROVE Installing'
    <2>1. CASE ringUp
      <3>1. \A q \in Procs \ {p} : ~Carries(q) /\ job[q].cmd # "bootstrap"
        BY <1>16 DEF Stage
      <3> QED
        BY <1>16, <2>1, <3>1 DEF Stage, Goto, Draw
    <2>2. CASE ~ringUp
      <3>1. End(p) /\ job[p].cmd \in Writers /\ UNCHANGED <<local, storeKey, ring>>
        BY <1>16, <2>2 DEF Stage
      <3> QED
        BY <3>1, Ends, Alone
    <2> QED
      BY <2>1, <2>2
  <1>17. ASSUME NEW p \in Procs, Set(p) PROVE Installing'
    <2>1. CASE ringUp
      <3>1. /\ ring' = [ring EXCEPT ![job[p].key] = job[p].secret] /\ job[p].key \in Keys
            /\ \A q \in Procs \ {p} : pc[q] \notin {"export", "bootSet", "stage", "set", "bootStage", "commit"}
        BY <1>17, <2>1 DEF Set, SetEntry
      <3>2. ring'[job[p].key] = job[p].secret
        BY <3>1
      <3> QED
        BY <1>17, <2>1, <3>1, <3>2 DEF Set, Goto
    <2>2. CASE ~ringUp
      <3>1. End(p) /\ job[p].cmd \in Writers /\ UNCHANGED <<local, storeKey, ring>>
        BY <1>17, <2>2 DEF Set
      <3> QED
        BY <3>1, Ends, Alone
    <2> QED
      BY <2>1, <2>2
  <1>18. ASSUME NEW p \in Procs, Rotate(p) PROVE Installing'
    <2>1. CASE End(p)
      <3>1. job[p].cmd \in Writers /\ UNCHANGED local
        BY <1>18, <2>1 DEF Rotate
      <3>2. storeKey' = storeKey \/ storeKey' = storeKey + 1
        BY <1>18 DEF Rotate
      <3>3. storeKey \in Nat /\ (local \in LocalKey => local.key \in Nat)
        BY DEF LocalKey
      <3> QED
        BY <2>1, <3>1, <3>2, <3>3, Ends, Alone, SMTT(60)
    <2>2. CASE local \in LocalKey /\ job' = [job EXCEPT ![p].key = local.key] /\ Goto(p, "forgetRing")
      <3>1. storeKey \in Nat /\ storeKey' \in Nat /\ storeKey <= storeKey'
        BY <1>18 DEF Rotate
      <3>3. \A q \in Procs \ {p} : pc[q] \notin {"export", "bootSet", "stage", "set", "bootStage", "commit"}
        BY <1>18 DEF Rotate
      <3>2. local.key \in Nat
        BY <2>2 DEF LocalKey
      <3> QED
        BY <1>18, <2>2, <3>1, <3>2, <3>3 DEF Rotate, Goto
    <2> QED
      BY <1>18, <2>1, <2>2 DEF Rotate
  <1>19. ASSUME NEW p \in Procs, ForgetRing(p) PROVE Installing'
    BY <1>19 DEF ForgetRing, Goto
  <1>20. ASSUME NEW p \in Procs, ForgetFile(p) PROVE Installing'
    <2>1. End(p) /\ local' = None
      BY <1>20 DEF ForgetFile
    <2>2. job[p].cmd \in Writers
      BY <1>20 DEF ForgetFile
    <2> QED
      BY <2>1, <2>2, Ends, Alone
  <1>21. ASSUME NEW p \in Procs, Kill(p) PROVE Installing'
    BY <1>21 DEF Kill, Goto, Event, End, NoJob
  <1>22. ASSUME NEW p \in Procs, Fail(p) PROVE Installing'
    BY <1>22, ZenonT(60) DEF Fail, Goto, Event, End, NoJob
  <1>23. CASE AgentEnds
    BY <1>23 DEF AgentEnds
  <1>24. CASE RingStartsOrStops
    BY <1>24 DEF RingStartsOrStops, Event
  <1>25. CASE LoseEntry
    BY <1>25 DEF LoseEntry, Event
  <1>26. CASE DamageLocalKey
    BY <1>26 DEF DamageLocalKey, Event
  <1>27. CASE RotateElsewhere
    <2>1. storeKey' = storeKey + 1 /\ storeKey \in Nat /\ \A k \in Keys : k \in Nat
      BY <1>27 DEF RotateElsewhere
    <2>2. local \in LocalKey => local.key \in Nat
      BY <2>1 DEF LocalKey
    <2>3. \A p \in Procs : job[p].key \in Nat
      BY <2>1
    <2> QED
      BY <1>27, <2>1, <2>2, <2>3 DEF RotateElsewhere
  <1> QED
    BY <1>1, <1>2, <1>3, <1>4, <1>5, <1>6, <1>7, <1>8, <1>9, <1>10, <1>11, <1>12, <1>13, <1>14,
       <1>15, <1>16, <1>17, <1>18, <1>19, <1>20, <1>21, <1>22, <1>23, <1>24, <1>25, <1>26, <1>27,
       <1>28 DEF Next, Start, Step, Outside

\* Between two events, what a command has read stays true.
LEMMA NextUndisturbed == IInv /\ [Next]_vars => Undisturbed'
  <1> SUFFICES ASSUME IInv, [Next]_vars PROVE Undisturbed'
    OBVIOUS
  <1> USE Names DEF IInv, OneWriter, Flow, Runs, Drawing, Installing, Undisturbed, TypeOK, Job,
     Writers, HasLocalKey, Usable, Opens, Quiet, Carries
  <1>1. CASE UNCHANGED vars
    BY <1>1 DEF vars
  <1>2. ASSUME NEW p \in Procs, Bootstrap(p) PROVE Undisturbed'
    <2>1. CASE MayStart(p, "bootstrap") /\ ~HasLocalKey /\ Begin(p, "bootstrap", 0, "export")
      BY <1>2, <2>1 DEF Bootstrap, MayStart, Begin, Goto, NoJob
    <2>2. CASE MayStart(p, "force") /\ Begin(p, "force", 0, "export")
      BY <1>2, <2>2 DEF Bootstrap, MayStart, Begin, Goto, NoJob
    <2> QED
      BY <1>2, <2>1, <2>2 DEF Bootstrap
  <1>3. ASSUME NEW p \in Procs, Forget(p) PROVE Undisturbed'
    BY <1>3 DEF Forget, Goto, MayStart, Begin, NoJob
  <1>4. ASSUME NEW p \in Procs, RekeyLocal(p) PROVE Undisturbed'
    BY <1>4 DEF RekeyLocal, Goto, MayStart, Begin, NoJob
  <1>5. ASSUME NEW p \in Procs, RekeyIdentity(p) PROVE Undisturbed'
    BY <1>5 DEF RekeyIdentity, Goto, MayStart, Begin, NoJob
  <1>6. ASSUME NEW p \in Procs, Use(p) PROVE Undisturbed'
    BY <1>6 DEF Use, Goto, MayStart, Begin, NoJob
  <1>7. ASSUME NEW p \in Procs, StartAgent(p) PROVE Undisturbed'
    BY <1>7 DEF StartAgent, Goto, MayStart, Begin, NoJob
  <1>28. ASSUME NEW p \in Procs, WindowBootstrap(p) PROVE Undisturbed'
    BY <1>28 DEF WindowBootstrap, Goto, MayStart, Begin, NoJob
  <1>8. ASSUME NEW p \in Procs, Unlock(p) PROVE Undisturbed'
    BY <1>8 DEF Unlock, Goto, Opened, End, NoJob, FirstStep
  <1>9. ASSUME NEW p \in Procs, OpenLocal(p) PROVE Undisturbed'
    BY <1>9
       DEF OpenLocal, Goto, GetSucceeds, GetFails, ReadSucceeds, ReadFails, Opened, End, NoJob,
           FirstStep
  <1>10. ASSUME NEW p \in Procs, HoldInAgent(p) PROVE Undisturbed'
    BY <1>10 DEF HoldInAgent, Goto, End, NoJob
  <1>11. ASSUME NEW p \in Procs, BootstrapWithoutKeyring(p) PROVE Undisturbed'
    BY <1>11 DEF BootstrapWithoutKeyring, Goto, End, NoJob
  <1>12. ASSUME NEW p \in Procs, Export(p) PROVE Undisturbed'
    BY <1>12 DEF Export, Exported, Goto, Draw
  <1>13. ASSUME NEW p \in Procs, BootSet(p) PROVE Undisturbed'
    BY <1>13 DEF BootSet, Goto, SetEntry, End, NoJob
  <1>14. ASSUME NEW p \in Procs, BootStage(p) PROVE Undisturbed'
    BY <1>14 DEF BootStage, Goto
  <1>15. ASSUME NEW p \in Procs, Commit(p) PROVE Undisturbed'
    <2>1. CASE ~Quiet(p)
      BY <1>15, <2>1 DEF Commit, Goto
    <2>2. CASE Quiet(p)
      <3>1. local' = [key |-> job[p].key, secret |-> job[p].secret] /\ local' \in LocalKey
        BY <1>15, <2>2 DEF Commit, LocalKey
      <3>2. Usable' /\ ringUp'
        BY <1>15, <2>2, <3>1 DEF Commit
      <3>3. \A q \in Procs \ {p} :
               /\ pc[q] \notin {"export", "bootSet", "stage", "set", "bootStage", "commit"}
               /\ ~job[q].test
        BY <1>15 DEF Commit
      <3> QED
        BY <1>15, <2>2, <3>1, <3>2, <3>3 DEF Commit, Goto
    <2> QED
      BY <2>1, <2>2
  <1>16. ASSUME NEW p \in Procs, Stage(p) PROVE Undisturbed'
    BY <1>16 DEF Stage, Goto, Draw, End, NoJob
  <1>17. ASSUME NEW p \in Procs, Set(p) PROVE Undisturbed'
    BY <1>17 DEF Set, Goto, SetEntry, End, NoJob
  <1>18. ASSUME NEW p \in Procs, Rotate(p) PROVE Undisturbed'
    BY <1>18 DEF Rotate, Goto, End, NoJob
  <1>19. ASSUME NEW p \in Procs, ForgetRing(p) PROVE Undisturbed'
    BY <1>19 DEF ForgetRing, Goto
  <1>20. ASSUME NEW p \in Procs, ForgetFile(p) PROVE Undisturbed'
    BY <1>20 DEF ForgetFile, Goto, End, NoJob
  <1>21. ASSUME NEW p \in Procs, Kill(p) PROVE Undisturbed'
    BY <1>21 DEF Kill, Goto, Event, End, NoJob
  <1>22. ASSUME NEW p \in Procs, Fail(p) PROVE Undisturbed'
    BY <1>22 DEF Fail, Goto, Event, End, NoJob
  <1>23. CASE AgentEnds
    BY <1>23 DEF AgentEnds
  <1>24. CASE RingStartsOrStops
    BY <1>24 DEF RingStartsOrStops, Event
  <1>25. CASE LoseEntry
    BY <1>25 DEF LoseEntry, Event
  <1>26. CASE DamageLocalKey
    BY <1>26 DEF DamageLocalKey, Event
  <1>27. CASE RotateElsewhere
    BY <1>27 DEF RotateElsewhere, Event
  <1> QED
    BY <1>1, <1>2, <1>3, <1>4, <1>5, <1>6, <1>7, <1>8, <1>9, <1>10, <1>11, <1>12, <1>13, <1>14,
       <1>15, <1>16, <1>17, <1>18, <1>19, <1>20, <1>21, <1>22, <1>23, <1>24, <1>25, <1>26, <1>27,
       <1>28 DEF Next, Start, Step, Outside

\* Without any event, each writer leaves a local key that opens the store, or none.
LEMMA NextKeyOpens == IInv /\ [Next]_vars => KeyOpens'
  <1> SUFFICES ASSUME IInv, [Next]_vars PROVE KeyOpens'
    OBVIOUS
  <1> USE Names DEF IInv, OneWriter, Flow, Runs, Drawing, Installing, Undisturbed, KeyOpens,
     TypeOK, Job, Writers, HasLocalKey, Usable, Opens, Quiet, Carries
  <1>1. CASE UNCHANGED vars
    BY <1>1 DEF vars
  <1>2. ASSUME NEW p \in Procs, Bootstrap(p) PROVE KeyOpens'
    BY <1>2 DEF Bootstrap, Goto, MayStart, Begin, NoJob
  <1>3. ASSUME NEW p \in Procs, Forget(p) PROVE KeyOpens'
    BY <1>3 DEF Forget, Goto, MayStart, Begin, NoJob
  <1>4. ASSUME NEW p \in Procs, RekeyLocal(p) PROVE KeyOpens'
    BY <1>4 DEF RekeyLocal, Goto, MayStart, Begin, NoJob
  <1>5. ASSUME NEW p \in Procs, RekeyIdentity(p) PROVE KeyOpens'
    BY <1>5 DEF RekeyIdentity, Goto, MayStart, Begin, NoJob
  <1>6. ASSUME NEW p \in Procs, Use(p) PROVE KeyOpens'
    BY <1>6 DEF Use, Goto, MayStart, Begin, NoJob
  <1>7. ASSUME NEW p \in Procs, StartAgent(p) PROVE KeyOpens'
    BY <1>7 DEF StartAgent, Goto, MayStart, Begin, NoJob
  <1>28. ASSUME NEW p \in Procs, WindowBootstrap(p) PROVE KeyOpens'
    BY <1>28 DEF WindowBootstrap, Goto, MayStart, Begin, NoJob
  <1>8. ASSUME NEW p \in Procs, Unlock(p) PROVE KeyOpens'
    BY <1>8 DEF Unlock, Goto, Opened, End, NoJob, FirstStep
  <1>9. ASSUME NEW p \in Procs, OpenLocal(p) PROVE KeyOpens'
    BY <1>9
       DEF OpenLocal, Goto, GetSucceeds, GetFails, ReadSucceeds, ReadFails, Opened, End, NoJob,
           FirstStep
  <1>10. ASSUME NEW p \in Procs, HoldInAgent(p) PROVE KeyOpens'
    BY <1>10 DEF HoldInAgent, Goto, End, NoJob
  <1>11. ASSUME NEW p \in Procs, BootstrapWithoutKeyring(p) PROVE KeyOpens'
    BY <1>11 DEF BootstrapWithoutKeyring, Goto, End, NoJob
  <1>12. ASSUME NEW p \in Procs, Export(p) PROVE KeyOpens'
    BY <1>12 DEF Export, Exported, Goto, Draw
  <1>13. ASSUME NEW p \in Procs, BootSet(p) PROVE KeyOpens'
    BY <1>13 DEF BootSet, Goto, SetEntry, End, NoJob
  <1>14. ASSUME NEW p \in Procs, BootStage(p) PROVE KeyOpens'
    BY <1>14 DEF BootStage, Goto
  <1>15. ASSUME NEW p \in Procs, Commit(p) PROVE KeyOpens'
    BY <1>15 DEF Commit, Goto
  <1>16. ASSUME NEW p \in Procs, Stage(p) PROVE KeyOpens'
    BY <1>16 DEF Stage, Goto, Draw, End, NoJob
  <1>17. ASSUME NEW p \in Procs, Set(p) PROVE KeyOpens'
    BY <1>17 DEF Set, Goto, SetEntry, End, NoJob
  <1>18. ASSUME NEW p \in Procs, Rotate(p) PROVE KeyOpens'
    BY <1>18 DEF Rotate, Goto, End, NoJob
  <1>19. ASSUME NEW p \in Procs, ForgetRing(p) PROVE KeyOpens'
    BY <1>19 DEF ForgetRing, Goto
  <1>20. ASSUME NEW p \in Procs, ForgetFile(p) PROVE KeyOpens'
    BY <1>20 DEF ForgetFile, Goto, End, NoJob
  <1>21. ASSUME NEW p \in Procs, Kill(p) PROVE KeyOpens'
    BY <1>21 DEF Kill, Goto, Event, End, NoJob
  <1>22. ASSUME NEW p \in Procs, Fail(p) PROVE KeyOpens'
    BY <1>22 DEF Fail, Goto, Event, End, NoJob
  <1>23. CASE AgentEnds
    BY <1>23 DEF AgentEnds
  <1>24. CASE RingStartsOrStops
    BY <1>24 DEF RingStartsOrStops, Event
  <1>25. CASE LoseEntry
    BY <1>25 DEF LoseEntry, Event
  <1>26. CASE DamageLocalKey
    BY <1>26 DEF DamageLocalKey, Event
  <1>27. CASE RotateElsewhere
    BY <1>27 DEF RotateElsewhere, Event
  <1> QED
    BY <1>1, <1>2, <1>3, <1>4, <1>5, <1>6, <1>7, <1>8, <1>9, <1>10, <1>11, <1>12, <1>13, <1>14,
       <1>15, <1>16, <1>17, <1>18, <1>19, <1>20, <1>21, <1>22, <1>23, <1>24, <1>25, <1>26, <1>27,
       <1>28 DEF Next, Start, Step, Outside

\* A command begins no later than now.
LEMMA NextSince == IInv /\ [Next]_vars => (\A p \in Procs : job[p].since <= events)'
  <1> SUFFICES ASSUME IInv, [Next]_vars, NEW q \in Procs PROVE job'[q].since <= events'
    OBVIOUS
  <1>1. /\ job \in [Procs -> Job]
        /\ job[q].since \in Nat /\ job[q].since <= events /\ events \in Nat /\ events' \in Nat
    BY NextTypeOK, Names DEF IInv, TypeOK, Job
  <1>2. CASE UNCHANGED <<events, job>>
    BY <1>1, <1>2
  <1>3. ASSUME NEW p \in Procs, NEW cmd, NEW key, NEW label, Begin(p, cmd, key, label)
        PROVE  job'[q].since <= events'
    BY <1>1, <1>3 DEF Begin, NoJob
  <1>4. ASSUME NEW p \in Procs, End(p), events' >= events PROVE job'[q].since <= events'
    BY <1>1, <1>4 DEF End, NoJob
  <1>5. ASSUME NEW p \in Procs, NEW key, NEW secret, UNCHANGED events,
               \/ job' = [job EXCEPT ![p].key = key]
               \/ job' = [job EXCEPT ![p].key = key, ![p].secret = secret]
               \/ job' = [job EXCEPT ![p].test = TRUE]
        PROVE  job'[q].since <= events'
    BY <1>1, <1>5 DEF Job
  <1>6. ASSUME NEW p \in Procs, Start(p) PROVE job'[q].since <= events'
    BY <1>3, <1>6
       DEF Start, Bootstrap, Forget, RekeyLocal, RekeyIdentity, WindowBootstrap, Use, StartAgent
  <1>7. ASSUME NEW p \in Procs, NEW key, Opened(p, key), UNCHANGED events
        PROVE  job'[q].since <= events'
    BY <1>1, <1>4, <1>5, <1>7 DEF Opened
  <1>8. ASSUME NEW p \in Procs, Unlock(p) \/ OpenLocal(p) PROVE job'[q].since <= events'
    BY <1>1, <1>2, <1>4, <1>5, <1>7, <1>8 DEF Unlock, OpenLocal, GetSucceeds, GetFails,
       ReadSucceeds, ReadFails
  <1>9. ASSUME NEW p \in Procs, HoldInAgent(p) \/ BootstrapWithoutKeyring(p) \/ ForgetFile(p)
        PROVE  job'[q].since <= events'
    BY <1>1, <1>4, <1>9 DEF HoldInAgent, BootstrapWithoutKeyring, ForgetFile
  <1>10. ASSUME NEW p \in Procs, Export(p) \/ BootSet(p) \/ BootStage(p) \/ Commit(p)
         PROVE  job'[q].since <= events'
    <2>1. CASE Export(p)
      BY <1>5, <2>1 DEF Export, Exported, Draw
    <2>2. CASE BootSet(p) \/ BootStage(p)
      BY <1>1, <1>2, <1>4, <2>2 DEF BootSet, BootStage
    <2>3. CASE Commit(p)
      BY <1>5, <2>3 DEF Commit
    <2> QED
      BY <1>10, <2>1, <2>2, <2>3
  <1>11. ASSUME NEW p \in Procs, Stage(p) \/ Set(p) \/ Rotate(p) \/ ForgetRing(p)
         PROVE  job'[q].since <= events'
    BY <1>1, <1>2, <1>4, <1>5, <1>11 DEF Stage, Set, Rotate, ForgetRing, Draw
  <1>12. ASSUME NEW p \in Procs, Kill(p) \/ Fail(p) PROVE job'[q].since <= events'
    BY <1>1, <1>4, <1>12 DEF Kill, Fail, Event
  <1>13. CASE Outside
    BY <1>1, <1>13 DEF Outside, AgentEnds, RingStartsOrStops, LoseEntry, DamageLocalKey,
       RotateElsewhere, Event
  <1> QED
    BY <1>2, <1>6, <1>8, <1>9, <1>10, <1>11, <1>12, <1>13 DEF Next, Step, vars

\* Every step preserves the invariant.
LEMMA NextIInv == IInv /\ [Next]_vars => IInv'
  BY NextTypeOK, NextOneWriter, NextFlow, NextDrawing, NextInstalling, NextUndisturbed,
     NextKeyOpens, NextSince DEF IInv

\* The invariant holds in every state.
THEOREM MachineInvariant == Spec => []IInv
  BY InitIInv, NextIInv, PTL DEF Spec

\* Every variable keeps its type.
THEOREM TypeCorrect == Spec => []TypeOK
  BY MachineInvariant, PTL DEF IInv

\* While nothing goes wrong, a local key left behind opens the store as it is.
THEOREM KeyOpensUndisturbed == Spec => []UndisturbedKeyOpens
  <1>1. IInv => UndisturbedKeyOpens
    BY DEF IInv, KeyOpens, Flow, Runs, UndisturbedKeyOpens, NoWriter, Writers
  <1> QED
    BY <1>1, MachineInvariant, PTL

\* A set-up that nothing disturbs passes its own self-test.
THEOREM SetUpPasses == Spec => SetUpHeals
  <1>1. ASSUME IInv, NEW p \in Procs, job[p].test, GetFails(p) \/ ReadFails(p)
        PROVE  events > job[p].since
    <2>1. job[p].since \in Nat /\ events \in Nat /\ job[p].since <= events
      BY <1>1, Names DEF IInv, TypeOK, Job
    <2>2. SUFFICES ASSUME Quiet(p) PROVE FALSE
      BY <2>1, <2>2 DEF Quiet
    <2>3. ringUp /\ local \in LocalKey /\ local.key = storeKey /\ ring[local.key] = local.secret
      BY <1>1, <2>2 DEF IInv, Undisturbed, Usable, Opens
    <2>4. ring[local.key] # 0
      BY <2>3 DEF LocalKey, Secrets
    <2>5. pc[p] = "read" => local.secret = job[p].secret
      BY <1>1, <2>2 DEF IInv, Undisturbed
    <2> QED
      BY <1>1, <2>3, <2>4, <2>5 DEF GetFails, ReadFails
  <1>2. IInv => \A p \in Procs :
                  (job[p].test /\ (GetFails(p) \/ ReadFails(p))) => events > job[p].since
    BY <1>1
  <1> QED
    BY <1>2, MachineInvariant, PTL DEF SetUpHeals

\* A local key that opens the store stops opening it only in a window: the steps
\* that replace or forget it, or an event.
LEMMA Breaks ==
    IInv /\ [Next]_vars =>
      (Usable /\ ~Usable' =>
          \/ events' # events
          \/ Opens(staged)'
          \/ \E p \in Procs : pc[p] \in {"rotate", "forgetRing", "forgetFile"}
          \/ \E p \in Procs : job[p].cmd \in {"force", "windowBootstrap"} /\ pc[p] = "bootSet")
  <1> SUFFICES ASSUME IInv, [Next]_vars, Usable, ~Usable',
                      UNCHANGED events, ~Opens(staged)',
                      \A p \in Procs : pc[p] \notin {"rotate", "forgetRing", "forgetFile"},
                      \A p \in Procs : ~(job[p].cmd \in {"force", "windowBootstrap"} /\ pc[p] = "bootSet")
               PROVE  FALSE
    OBVIOUS
  <1> USE Names DEF IInv
  <1>1. events \in Nat
    BY DEF TypeOK
  <1>2. UNCHANGED <<storeKey, ring, local>> => FALSE
    BY DEF Usable, Opens
  <1>3. \A p \in Procs : ~BootSet(p)
    <2>1. ASSUME NEW p \in Procs, BootSet(p) PROVE FALSE
      <3>1. job[p].cmd = "bootstrap"
        BY <2>1 DEF BootSet, Flow, Runs
      <3>2. ~HasLocalKey
        BY <2>1, <3>1 DEF BootSet, Installing
      <3> QED
        BY <3>2 DEF HasLocalKey, Usable, Opens
    <2> QED
      BY <2>1
  <1>4. \A p \in Procs : ~Set(p)
    <2>1. ASSUME NEW p \in Procs, Set(p) PROVE FALSE
      <3>1. /\ staged = [key |-> job[p].key, secret |-> job[p].secret]
            /\ job[p].key \in Keys /\ job[p].secret \in Secrets
        BY <2>1 DEF Set, Installing, Drawing
      <3>2. staged \in LocalKey
        BY <3>1 DEF LocalKey
      <3>3. CASE ringUp
        BY <2>1, <3>1, <3>2, <3>3 DEF Set, SetEntry, Opens, TypeOK
      <3>4. CASE ~ringUp
        BY <2>1, <3>4, <1>2 DEF Set
      <3> QED
        BY <3>3, <3>4
    <2> QED
      BY <2>1
  <1>5. \A p \in Procs : ~Commit(p)
    <2>1. ASSUME NEW p \in Procs, Commit(p) PROVE FALSE
      <3>1. /\ local \in LocalKey /\ local.key = storeKey /\ ring[local.key] = local.secret
            /\ local.key \in Keys /\ local.secret \in Secrets
        BY DEF Usable, Opens, LocalKey
      <3>2. /\ staged = [key |-> job[p].key, secret |-> job[p].secret]
            /\ job[p].key <= storeKey /\ local.key <= job[p].key
            /\ ring[job[p].key] \in {job[p].secret, 0}
            /\ job[p].key \in Keys /\ job[p].secret \in Secrets
        BY <2>1, <3>1 DEF Commit, Installing, Drawing, Carries
      <3>3. job[p].key = local.key
        BY <3>1, <3>2 DEF Keys
      <3>4. job[p].secret = local.secret
        BY <3>1, <3>2, <3>3 DEF Secrets
      <3>5. /\ local' = staged /\ UNCHANGED <<storeKey, ring>>
            /\ staged \in LocalKey
        BY <2>1, <3>2 DEF Commit, LocalKey
      <3> QED
        BY <3>1, <3>2, <3>3, <3>4, <3>5 DEF Usable, Opens
    <2> QED
      BY <2>1
  <1>6. \A p \in Procs : ~Rotate(p) /\ ~ForgetRing(p) /\ ~ForgetFile(p)
    BY DEF Rotate, ForgetRing, ForgetFile
  <1>7. ASSUME NEW p \in Procs, Start(p) PROVE FALSE
    BY <1>2, <1>7
       DEF Start, Bootstrap, Forget, RekeyLocal, RekeyIdentity, WindowBootstrap, Use, StartAgent,
           Begin
  <1>8. ASSUME NEW p \in Procs, Step(p) PROVE FALSE
    BY <1>2, <1>3, <1>4, <1>5, <1>6, <1>8 DEF Step, Unlock, OpenLocal, HoldInAgent,
       BootstrapWithoutKeyring, Export, BootStage, Stage
  <1>9. ASSUME NEW p \in Procs, Kill(p) \/ Fail(p) PROVE FALSE
    BY <1>2, <1>9 DEF Kill, Fail
  <1>10. CASE Outside
    BY <1>1, <1>2, <1>10 DEF Outside, AgentEnds, RingStartsOrStops, LoseEntry, DamageLocalKey,
       RotateElsewhere, Event
  <1> QED
    BY <1>2, <1>7, <1>8, <1>9, <1>10 DEF Next, vars

\* A usable local key breaks only in one of the documented windows.
THEOREM KeyBreaksInAWindow == Spec => BreaksOnlyInAWindow
  BY MachineInvariant, Breaks, PTL DEF Spec, BreaksOnlyInAWindow
=============================================================================
