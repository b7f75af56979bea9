---------------------------- MODULE FilesProofs ----------------------------
(***************************************************************************)
(* Theorems about the commands between the machine's files and the store's,*)
(* for any files, names, contents and modes, any number of commands,       *)
(* faults and changes made by others, and a platform whose open can refuse *)
(* links or one whose open cannot.                                         *)
(***************************************************************************)
EXTENDS Files, TLAPS

Decrypting == {"out", "other", "restore", "get"}

\* The command under way is a record of these.
RunShape ==
    run \in [pc : Over \cup Steps, cmd : Commands \cup {None}, at : Places \cup {None},
             name : Names \cup {None}, env : Plain \cup {None}, ticked : BOOLEAN,
             agreed : BOOLEAN, existed : BOOLEAN, fd : Places \cup {None}, raced : BOOLEAN,
             todo : SUBSET Places, found : SUBSET Places, stored : SUBSET Places,
             skipped : SUBSET Places]

\* Where a command is says which command it is, and what it has at hand.
Where ==
    /\ run.pc \in {"scan", "next"} => run.cmd = "all"
    /\ run.pc \in {"read", "stat", "put"} =>
          run.cmd \in {"enc", "all"} /\ run.at \in Places /\ run.name \in Names
    /\ run.pc \in {"stat", "put"} => run.env \in Plain
    /\ run.pc \in {"look", "ask", "replace"} => run.cmd = "restore"
    /\ run.pc \in {"check", "times"} => run.cmd = "get"
    /\ run.pc \in {"truncate", "fill", "chmod"} => run.cmd \in Decrypting
    /\ run.pc \in Steps /\ run.cmd \in Decrypting => run.at \in Places /\ run.env \in Plain
    /\ run.pc = "done" => run.cmd \in {"enc", "all"} \cup Decrypting
    /\ run.pc = "done" /\ run.cmd \in Decrypting => run.at \in Places /\ run.env \in Plain

Typed ==
    /\ file \in [Places -> Plain \cup Places \cup {None}]
    /\ blob \in [Names -> Blob \cup {None}]
    /\ RunShape /\ Where
    /\ timed \in Places \cup {None}
    /\ runs \in 0..MaxRuns /\ edits \in 0..MaxEdits /\ faults \in 0..MaxFaults

\* A link never points to a link, and what is open is a regular file; get works
\* on one beneath --dest, its own where a link can be refused.
Disk ==
    /\ \A x \in Places : file[x] \in Places => file[file[x]] \notin Places
    /\ run.fd # None => file[run.fd] \in Plain
    /\ run.cmd = "get" =>
          /\ run.at \in Inside
          /\ run.fd # None => run.fd \in Inside /\ (NoFollow => run.fd = run.at)

\* A run over candidates has each of those it found still to do, stored, passed
\* over, or in its hands, and one of these only.
InHand == IF run.pc = "next" \/ run.pc = "done" THEN {} ELSE {run.at}

Accounted ==
    /\ run.pc = "scan" => run.stored = {} /\ run.skipped = {}
    /\ run.cmd = "all" /\ run.pc \in {"next", "read", "stat", "put", "done"} =>
          /\ run.found = run.todo \cup run.stored \cup run.skipped \cup InHand
          /\ run.stored \cap run.skipped = {}
          /\ run.todo \cap (run.stored \cup run.skipped) = {}
          /\ InHand \cap (run.todo \cup run.stored \cup run.skipped) = {}
          /\ run.pc \in {"read", "stat", "put"} => run.name = NameOf[run.at]
          /\ run.pc = "done" => run.todo = {}
          /\ \A x \in run.stored : /\ NameOf[x] # None /\ blob[NameOf[x]] # None
                                   /\ blob[NameOf[x]].origin \in run.stored

\* What was read of a file, while nobody changed it, is what is there.
Read ==
    run.pc \in {"stat", "put"} /\ ~run.raced /\ Regular(run.at) =>
        /\ run.env.c = file[Resolve(run.at)].c
        /\ run.pc = "put" => run.env.m = file[Resolve(run.at)].m

\* What was asked about a file to be replaced, while nobody changed it, holds.
Asked ==
    run.cmd = "restore" /\ run.pc \in {"ask", "replace", "truncate"} /\ ~run.raced =>
        /\ ~IsLink(run.at)
        /\ run.existed <=> file[run.at] # None

\* A restore opens no file that was there without a tick or a yes.
Consented ==
    run.cmd = "restore" /\ run.pc = "truncate" => run.ticked \/ run.agreed \/ ~run.existed

\* What was written of a file, while nobody changed it, is there.
Landed ==
    run.pc \in {"fill", "chmod", "times", "done"} /\ run.cmd \in Decrypting
      /\ ~run.raced /\ ~IsLink(run.at) =>
        /\ run.fd = run.at /\ file[run.at] \in Plain
        /\ run.pc # "fill" => file[run.at].c = run.env.c
        /\ run.pc \in {"times", "done"} => file[run.at].m = run.env.m

IInv ==
    /\ Typed
    /\ Disk
    /\ Accounted
    /\ Read
    /\ Asked
    /\ Consented
    /\ Landed

---------------------------------------------------------------------------
\* Types.

\* What is known of a command covers the declared types.
LEMMA TypedIsTypeOK == Typed => TypeOK
  <1> SUFFICES ASSUME Typed PROVE TypeOK
    OBVIOUS
  <1>1. /\ run.pc \in Over \cup Steps /\ run.cmd \in Commands \cup {None}
        /\ run.at \in Places \cup {None} /\ run.fd \in Places \cup {None}
        /\ run.name \in Names \cup {None}
        /\ {run.ticked, run.agreed, run.existed, run.raced} \subseteq BOOLEAN
        /\ {run.todo, run.found, run.stored, run.skipped} \subseteq SUBSET Places
    BY DEF Typed, RunShape
  <1>2. run.pc \in {"truncate", "fill", "chmod", "times", "put"} => run.env \in Plain
    BY DEF Typed, Where, Steps, Decrypting
  <1> QED
    BY <1>1, <1>2 DEF Typed, TypeOK

\* A place holds a regular file, a link or nothing, and these are different.
LEMMA Kinds ==
    /\ None \notin Plain /\ None \notin Places /\ None \notin Names /\ None \notin Blob
    /\ \A p \in Plain : p \notin Places /\ p.c \in Contents \cup {Torn} /\ p.m \in Modes
    /\ \A c \in Contents \cup {Torn}, m \in Modes : [c |-> c, m |-> m] \in Plain
    /\ \A b \in Blob : b.c \in Contents \cup {Torn} /\ b.m \in Modes /\ b.origin \in Places
  BY FilesConstants DEF Plain, Blob

\* What a name stands for is a place, and it is regular only if what is there is.
LEMMA Resolving ==
    ASSUME Typed, NEW x \in Places
    PROVE  /\ Resolve(x) \in Places
           /\ Regular(x) => file[Resolve(x)] \in Plain
           /\ ~IsLink(x) => Resolve(x) = x
  BY DEF Typed, Resolve, IsLink, Regular

\* The initial state has no command.
LEMMA InitIInv == Init => IInv
  <1> SUFFICES ASSUME Init PROVE IInv
    OBVIOUS
  <1>1. run = NoRun /\ run.pc = "idle" /\ run.fd = None /\ run.cmd = None
    BY DEF Init, NoRun
  <1>2. RunShape
    BY <1>1 DEF RunShape, NoRun, Over
  <1>3. Where
    BY <1>1, FilesConstants DEF Where, Steps
  <1>4. /\ timed \in Places \cup {None}
        /\ runs \in 0..MaxRuns /\ edits \in 0..MaxEdits /\ faults \in 0..MaxFaults
        /\ file \in [Places -> Plain \cup Places \cup {None}]
        /\ blob \in [Names -> Blob \cup {None}]
    BY FilesConstants DEF Init
  <1>5. Disk
    BY <1>1, Kinds, FilesConstants DEF Disk, Init, Commands
  <1>6. Accounted /\ Read /\ Asked /\ Consented /\ Landed
    BY <1>1 DEF Accounted, Read, Asked, Consented, Landed
  <1> QED
    BY <1>2, <1>3, <1>4, <1>5, <1>6 DEF IInv, Typed

\* A command begins well typed.
LEMMA BeginTyped ==
    ASSUME Typed,
           \/ \E x \in Places, n \in Names : Encrypt(x, n)
           \/ ScanAll
           \/ \E x \in Places, n \in Names :
                 DecryptTo(n, x) \/ \E ticked \in BOOLEAN : DecryptOther(n, x, ticked)
           \/ \E n \in Names : Get(n) \/ \E overwrite \in BOOLEAN : Restore(n, overwrite)
    PROVE  /\ Typed' /\ run'.fd = None /\ ~run'.raced /\ UNCHANGED <<file, blob>>
           /\ run'.pc \in {"read", "scan", "truncate", "look", "check"}
           /\ run'.stored = {} /\ run'.skipped = {}
           /\ run'.pc = "read" => run'.cmd = "enc"
           /\ run'.pc = "truncate" => run'.cmd # "restore"
           /\ run'.cmd = "get" => run'.at \in Inside
           /\ UNCHANGED timed
  <1> DEFINE Goal == /\ Typed' /\ run'.fd = None /\ ~run'.raced /\ UNCHANGED <<file, blob>>
                     /\ run'.pc \in {"read", "scan", "truncate", "look", "check"}
                     /\ run'.stored = {} /\ run'.skipped = {}
                     /\ run'.pc = "read" => run'.cmd = "enc"
                     /\ run'.pc = "truncate" => run'.cmd # "restore"
                     /\ run'.cmd = "get" => run'.at \in Inside
                     /\ UNCHANGED timed
  <1>0. ASSUME runs < MaxRuns, runs' = runs + 1
        PROVE  runs' \in 0..MaxRuns
    BY <1>0, FilesConstants DEF Typed
  <1>1. ASSUME NEW x \in Places, NEW n \in Names, Encrypt(x, n)
        PROVE  Goal
    <2>1. /\ run' = [NoRun EXCEPT !.pc = "read", !.cmd = "enc", !.at = x, !.name = n]
          /\ UNCHANGED <<file, blob, timed, edits, faults>> /\ runs' \in 0..MaxRuns
      BY <1>0, <1>1 DEF Encrypt, Begin
    <2> QED
      BY <2>1, ZenonT(60) DEF Typed, RunShape, Where, NoRun, Over, Steps, Commands, Decrypting
  <1>2. CASE ScanAll
    <2>1. /\ run' = [NoRun EXCEPT !.pc = "scan", !.cmd = "all", !.todo = Places]
          /\ UNCHANGED <<file, blob, timed, edits, faults>> /\ runs' \in 0..MaxRuns
      BY <1>0, <1>2 DEF ScanAll
    <2> QED
      BY <2>1, ZenonT(60) DEF Typed, RunShape, Where, NoRun, Over, Steps, Commands, Decrypting
  <1>3. ASSUME NEW cmd, NEW label, NEW x \in Places, NEW n \in Names, NEW ticked \in BOOLEAN,
               \/ cmd \in {"out", "other"} /\ label = "truncate"
               \/ cmd = "get" /\ label = "check" /\ x \in Inside
               \/ cmd = "restore" /\ label = "look",
               Decrypt(cmd, label, x, n, ticked)
        PROVE  Goal
    <2> DEFINE e == [c |-> blob[n].c, m |-> blob[n].m]
    <2>1. e \in Plain
      BY <1>3, Kinds DEF Decrypt, Typed
    <2>2. /\ run' = [NoRun EXCEPT !.pc = label, !.cmd = cmd, !.at = x, !.name = n,
                                  !.ticked = ticked, !.env = e]
          /\ UNCHANGED <<file, blob, timed, edits, faults>> /\ runs' \in 0..MaxRuns
      BY <1>0, <1>3 DEF Decrypt
    <2> HIDE DEF e
    <2>3. /\ run'.pc = label /\ run'.cmd = cmd /\ run'.at = x /\ run'.name = n /\ run'.env = e
          /\ run'.fd = None /\ run'.raced = FALSE /\ run'.stored = {} /\ run'.skipped = {}
      BY <2>2 DEF NoRun
    <2>4. RunShape'
      BY <1>3, <2>1, <2>2 DEF RunShape, NoRun, Steps, Commands
    <2>5. Where'
      BY <1>3, <2>1, <2>3 DEF Where, Decrypting
    <2> QED
      BY <1>3, <2>2, <2>3, <2>4, <2>5 DEF Typed
  <1>4. ASSUME NEW x \in Places, NEW n \in Names, DecryptTo(n, x)
        PROVE  Goal
    BY <1>3, <1>4 DEF DecryptTo
  <1>5. ASSUME NEW x \in Places, NEW n \in Names, NEW ticked \in BOOLEAN, DecryptOther(n, x, ticked)
        PROVE  Goal
    BY <1>3, <1>5 DEF DecryptOther
  <1>6. ASSUME NEW n \in Names, Get(n)
        PROVE  Goal
    <2>1. Below[n] \in Inside /\ Below[n] \in Places
      BY FilesConstants
    <2> QED
      BY <1>3, <1>6, <2>1 DEF Get
  <1>7. ASSUME NEW n \in Names, NEW overwrite \in BOOLEAN, Restore(n, overwrite)
        PROVE  Goal
    <2>1. blob[n].origin \in Places
      BY <1>7, Kinds DEF Restore, Typed
    <2> QED
      BY <1>3, <1>7, <2>1 DEF Restore
  <1> QED
    BY <1>1, <1>2, <1>4, <1>5, <1>6, <1>7

\* A step that moves a command on and changes nothing else of it.
LEMMA Moving ==
    ASSUME Typed, NEW label \in Over \cup Steps, run' = [run EXCEPT !.pc = label]
    PROVE  /\ RunShape' /\ run'.pc = label
           /\ run'.cmd = run.cmd /\ run'.at = run.at /\ run'.name = run.name /\ run'.env = run.env
           /\ run'.ticked = run.ticked /\ run'.agreed = run.agreed /\ run'.existed = run.existed
           /\ run'.fd = run.fd /\ run'.raced = run.raced
           /\ run'.todo = run.todo /\ run'.found = run.found
           /\ run'.stored = run.stored /\ run'.skipped = run.skipped
  BY DEF Typed, RunShape

\* Passing a file over is well typed.
LEMMA NotStoredTyped ==
    ASSUME Typed, run.pc \in {"read", "stat", "put"}, NotStored
    PROVE  /\ RunShape' /\ Where'
           /\ run'.pc = IF run.cmd = "all" THEN "next" ELSE "stopped"
           /\ run'.cmd = run.cmd /\ run'.fd = run.fd
  <1> USE DEF Typed, RunShape, Where
  <1>1. CASE run.cmd = "all"
    BY <1>1 DEF NotStored, Steps, Over, Decrypting
  <1>2. CASE run.cmd # "all"
    BY <1>2 DEF NotStored, Steps, Over, Decrypting
  <1> QED
    BY <1>1, <1>2

\* The steps of a scan, and of a command that stores, are well typed.
LEMMA StoringTyped ==
    ASSUME Typed,
           \/ Scanned \/ AllConsidered \/ Cancel
           \/ \E x \in Places : Scan(x) \/ Consider(x)
           \/ ReadSource \/ StatSource \/ Put
    PROVE  Typed'
  <1> DEFINE Goal == Typed'
  <1>1. ASSUME Scanned \/ AllConsidered \/ Cancel
        PROVE  Goal
    <2>1. UNCHANGED <<file, blob, timed, runs, edits, faults>> /\ run.pc \in {"scan", "next"}
      BY <1>1 DEF Scanned, AllConsidered, Cancel, Same
    <2>2. CASE run.pc = "scan" /\ run' = [run EXCEPT !.pc = "next", !.todo = run.found]
      BY <2>1, <2>2 DEF Typed, RunShape, Where, Steps, Over, Decrypting
    <2>3. CASE \E label \in {"done", "stopped"} : run' = [run EXCEPT !.pc = label]
      <3>1. run.cmd = "all"
        BY <2>1 DEF Typed, Where
      <3> QED
        BY <2>1, <2>3, <3>1, Moving DEF Typed, Where, Steps, Over, Decrypting
    <2> QED
      BY <1>1, <2>2, <2>3 DEF Scanned, AllConsidered, Cancel, Goto
  <1>2. ASSUME NEW x \in Places, Scan(x)
        PROVE  Goal
    <2>1. /\ run.pc = "scan" /\ UNCHANGED <<file, blob, timed, runs, edits, faults>>
          /\ run' = [run EXCEPT !.todo = run.todo \ {x},
                                !.found = IF Flagged(x) THEN run.found \cup {x} ELSE run.found]
      BY <1>2 DEF Scan, Same
    <2> QED
      BY <2>1 DEF Typed, RunShape, Where, Steps, Over, Decrypting
  <1>3. ASSUME NEW x \in Places, Consider(x)
        PROVE  Goal
    <2>1. UNCHANGED <<file, blob, timed, runs, edits, faults>> /\ run.pc = "next"
      BY <1>3 DEF Consider, Same
    <2>2. CASE /\ NameOf[x] # None
               /\ run' = [run EXCEPT !.todo = run.todo \ {x}, !.pc = "read", !.at = x,
                                     !.name = NameOf[x]]
      <3>1. NameOf[x] \in Names
        BY <2>2, FilesConstants
      <3> QED
        BY <2>1, <2>2, <3>1 DEF Typed, RunShape, Where, Steps, Over, Decrypting
    <2>3. CASE run' = [run EXCEPT !.todo = run.todo \ {x}, !.skipped = run.skipped \cup {x}]
      BY <2>1, <2>3 DEF Typed, RunShape, Where, Steps, Over, Decrypting
    <2> QED
      BY <1>3, <2>2, <2>3 DEF Consider
  <1>4. CASE ReadSource
    <2>1. /\ run.pc = "read" /\ UNCHANGED <<file, blob, timed, runs, edits, faults>>
          /\ run.at \in Places
      BY <1>4 DEF ReadSource, Same, Typed, Where
    <2>2. CASE Regular(run.at)
      <3>1. /\ file[Resolve(run.at)] \in Plain
            /\ run' = [run EXCEPT !.pc = "stat", !.env = file[Resolve(run.at)], !.raced = FALSE]
        BY <1>4, <2>1, <2>2, Resolving DEF ReadSource
      <3> QED
        BY <2>1, <3>1 DEF Typed, RunShape, Where, Steps, Over, Decrypting
    <2>3. CASE ~Regular(run.at)
      BY <1>4, <2>1, <2>3, NotStoredTyped DEF ReadSource, Typed
    <2> QED
      BY <2>2, <2>3
  <1>5. CASE StatSource
    <2>1. /\ run.pc = "stat" /\ UNCHANGED <<file, blob, timed, runs, edits, faults>>
          /\ run.at \in Places /\ run.env \in Plain
      BY <1>5 DEF StatSource, Same, Typed, Where
    <2>2. CASE Regular(run.at)
      <3> DEFINE e == [run.env EXCEPT !.m = file[Resolve(run.at)].m]
      <3>1. file[Resolve(run.at)].m \in Modes
        BY <2>1, <2>2, Resolving, Kinds
      <3>2. e \in Plain
        BY <2>1, <3>1 DEF Plain
      <3>3. run' = [run EXCEPT !.pc = "put", !.env = e]
        BY <1>5, <2>2 DEF StatSource
      <3> HIDE DEF e
      <3> QED
        BY <2>1, <3>2, <3>3 DEF Typed, RunShape, Where, Steps, Over, Decrypting
    <2>3. CASE ~Regular(run.at)
      BY <1>5, <2>1, <2>3, NotStoredTyped DEF StatSource, Typed
    <2> QED
      BY <2>2, <2>3
  <1>6. CASE Put
    <2>1. /\ run.pc = "put" /\ UNCHANGED <<file, timed, runs, edits, faults>>
          /\ run.at \in Places /\ run.env \in Plain /\ run.name \in Names
          /\ run.cmd \in {"enc", "all"}
      BY <1>6 DEF Put, Same, Typed, Where
    <2>2. [c |-> run.env.c, m |-> run.env.m, origin |-> run.at] \in Blob
      BY <2>1 DEF Plain, Blob
    <2>3. blob' \in [Names -> Blob \cup {None}]
      BY <1>6, <2>2 DEF Put, Typed
    <2>4. RunShape' /\ Where'
      <3>1. CASE run.cmd = "all"
        BY <1>6, <2>1, <3>1 DEF Put, Typed, RunShape, Where, Steps, Over, Decrypting
      <3>2. CASE run.cmd = "enc"
        BY <1>6, <2>1, <3>2 DEF Put, Typed, RunShape, Where, Steps, Over, Decrypting
      <3> QED
        BY <2>1, <3>1, <3>2
    <2> QED
      BY <2>1, <2>3, <2>4 DEF Typed
  <1> QED
    BY <1>1, <1>2, <1>3, <1>4, <1>5, <1>6

\* Opening a file makes of it a regular one, empty and of the mode it had, or of
\* the stored mode.
LEMMA OpenedEffect ==
    ASSUME Typed, run.pc = "truncate", NEW x \in Places, Opened(x)
    PROVE  /\ \E m \in Modes : file' = [file EXCEPT ![x] = [c |-> Torn, m |-> m]]
           /\ file'[x] \in Plain
           /\ file' \in [Places -> Plain \cup Places \cup {None}]
           /\ RunShape' /\ Where'
           /\ run'.pc = "fill" /\ run'.fd = x /\ ~run'.raced
           /\ run'.cmd = run.cmd /\ run'.at = run.at /\ run'.env = run.env
  <1>1. run.cmd \in Decrypting /\ run.at \in Places /\ run.env \in Plain
    BY DEF Typed, Where, Steps
  <1> DEFINE m == IF file[x] \in Plain THEN file[x].m ELSE run.env.m
  <1>2. m \in Modes
    BY <1>1, Kinds
  <1>3. file' = [file EXCEPT ![x] = [c |-> Torn, m |-> m]]
    BY DEF Opened
  <1>4. [c |-> Torn, m |-> m] \in Plain
    BY <1>2, Kinds
  <1> HIDE DEF m
  <1>5. file'[x] \in Plain /\ file' \in [Places -> Plain \cup Places \cup {None}]
    BY <1>3, <1>4 DEF Typed
  <1>6. run' = [run EXCEPT !.pc = "fill", !.fd = x, !.raced = FALSE]
    BY DEF Opened
  <1>7. /\ RunShape' /\ Where'
        /\ run'.pc = "fill" /\ run'.fd = x /\ ~run'.raced
        /\ run'.cmd = run.cmd /\ run'.at = run.at /\ run'.env = run.env
    BY <1>1, <1>6 DEF Typed, RunShape, Where, Steps, Over, Decrypting
  <1> QED
    BY <1>2, <1>3, <1>5, <1>7

\* The steps of a command that decrypts are well typed.
LEMMA DecryptingTyped ==
    ASSUME Typed, Disk,
           Look \/ AskRestore \/ AskReplace \/ Check \/ Truncate \/ Fill \/ Chmod \/ Times
    PROVE  Typed'
  <1>1. ASSUME Look \/ AskRestore \/ AskReplace \/ Check
        PROVE  Typed'
    <2>1. /\ UNCHANGED <<file, blob, timed, runs, edits, faults>>
          /\ run.cmd = IF Check THEN "get" ELSE "restore"
          /\ run.at \in Places /\ run.env \in Plain
      BY <1>1 DEF Look, AskRestore, AskReplace, Check, Same, Typed, Where, Steps, Decrypting
    <2>2. CASE Look
      <3>1. run.cmd = "restore"
        BY <2>2 DEF Look, Typed, Where
      <3>2. CASE run' = [run EXCEPT !.pc = "stopped"]
        BY <2>1, <3>1, <3>2, Moving DEF Typed, Where, Steps, Over, Decrypting
      <3>3. CASE run' = [run EXCEPT !.pc = "ask", !.existed = (file[run.at] # None), !.raced = FALSE]
        BY <2>1, <3>1, <3>3, ZenonT(60) DEF Typed, RunShape, Where, Steps, Over, Decrypting
      <3> QED
        BY <2>2, <3>2, <3>3 DEF Look
    <2>3. CASE AskRestore
      <3>1. \E label \in {"stopped", "replace", "truncate"} : run' = [run EXCEPT !.pc = label]
        BY <2>3 DEF AskRestore, Goto
      <3>2. run.cmd = "restore"
        BY <2>3 DEF AskRestore, Typed, Where
      <3> QED
        BY <2>1, <3>1, <3>2 DEF Typed, RunShape, Where, Steps, Over, Decrypting
    <2>4. CASE AskReplace
      <3>1. run.cmd = "restore"
        BY <2>4 DEF AskReplace, Typed, Where
      <3>2. CASE run' = [run EXCEPT !.pc = "stopped"]
        BY <2>1, <3>1, <3>2, Moving DEF Typed, Where, Steps, Over, Decrypting
      <3>3. CASE run' = [run EXCEPT !.pc = "truncate", !.agreed = TRUE]
        BY <2>1, <3>1, <3>3 DEF Typed, RunShape, Where, Steps, Over, Decrypting
      <3> QED
        BY <2>4, <3>2, <3>3 DEF AskReplace, Goto
    <2>5. CASE Check
      <3>1. \E label \in {"stopped", "truncate"} : run' = [run EXCEPT !.pc = label]
        BY <2>5 DEF Check, Goto
      <3>2. run.cmd = "get"
        BY <2>5 DEF Check, Typed, Where
      <3> QED
        BY <2>1, <3>1, <3>2 DEF Typed, RunShape, Where, Steps, Over, Decrypting
    <2> QED
      BY <1>1, <2>2, <2>3, <2>4, <2>5
  <1>2. CASE Truncate
    <2>1. run.pc = "truncate" /\ UNCHANGED <<blob, timed, runs, edits, faults>> /\ run.at \in Places
      BY <1>2 DEF Truncate, Same, Typed, Where, Steps
    <2>2. CASE \E x \in Places : Opened(x)
      BY <2>1, <2>2, OpenedEffect DEF Typed
    <2>3. CASE run.cmd = "get" /\ run' = [run EXCEPT !.pc = "stopped"] /\ UNCHANGED file
      BY <2>1, <2>3, Moving DEF Typed, Where, Steps, Over
    <2> QED
      BY <1>2, <2>1, <2>2, <2>3, Resolving DEF Truncate, Refused, Goto
  <1>3. CASE Fill
    <2>1. /\ run.pc = "fill" /\ UNCHANGED <<blob, timed, runs, edits, faults>>
          /\ run.at \in Places /\ run.env \in Plain /\ run.cmd \in Decrypting
          /\ run' = [run EXCEPT !.pc = "chmod"]
      BY <1>3 DEF Fill, Goto, Same, Typed, Where, Steps
    <2>2. RunShape' /\ Where'
      BY <2>1, Moving DEF Where, Steps, Over
    <2>3. file' \in [Places -> Plain \cup Places \cup {None}]
      <3>1. CASE run.fd # None
        <4>1. file[run.fd] \in Plain /\ run.fd \in Places
          BY <3>1 DEF Disk, Typed, RunShape
        <4>2. [file[run.fd] EXCEPT !.c = run.env.c] \in Plain
          BY <2>1, <4>1 DEF Plain
        <4>3. file' = [file EXCEPT ![run.fd] = [file[run.fd] EXCEPT !.c = run.env.c]]
          BY <1>3, <3>1 DEF Fill
        <4> QED
          BY <4>2, <4>3 DEF Typed
      <3>2. CASE run.fd = None
        BY <1>3, <3>2 DEF Fill, Typed
      <3> QED
        BY <3>1, <3>2
    <2> QED
      BY <2>1, <2>2, <2>3 DEF Typed
  <1>4. CASE Chmod
    <2>1. /\ run.pc = "chmod" /\ UNCHANGED <<blob, timed, runs, edits, faults>>
          /\ run.at \in Places /\ run.env \in Plain /\ run.cmd \in Decrypting
      BY <1>4 DEF Chmod, Same, Typed, Where, Steps
    <2> DEFINE x == IF run.cmd = "get" THEN run.fd ELSE Resolve(run.at)
    <2>2. x # None => x \in Places
      BY <2>1, Resolving DEF Typed, RunShape
    <2>3. x = None => run.cmd = "get"
      BY <2>1, Resolving, Kinds
    <2>4. \E label \in {"times", "done", "stopped"} :
             run' = [run EXCEPT !.pc = label] /\ (label = "times" => run.cmd = "get")
      BY <1>4, <2>3 DEF Chmod, Goto
    <2>5. RunShape' /\ Where'
      BY <2>1, <2>4, Moving DEF Where, Steps, Over
    <2>6. \/ UNCHANGED file
          \/ /\ x # None /\ file[x] \in Plain
             /\ file' = [file EXCEPT ![x] = [file[x] EXCEPT !.m = run.env.m]]
      BY <1>4 DEF Chmod, Disk
    <2>7. x # None /\ file[x] \in Plain => [file[x] EXCEPT !.m = run.env.m] \in Plain
      BY <2>1 DEF Plain
    <2> HIDE DEF x
    <2>8. file' \in [Places -> Plain \cup Places \cup {None}]
      BY <2>2, <2>6, <2>7 DEF Typed
    <2> QED
      BY <2>1, <2>5, <2>8 DEF Typed
  <1>5. CASE Times
    <2>1. /\ run.pc = "times" /\ UNCHANGED <<file, blob, runs, edits, faults>>
          /\ run.at \in Places /\ run.env \in Plain /\ run.cmd = "get"
          /\ timed' \in Places \cup {None}
          /\ \E label \in {"stopped", "done"} : run' = [run EXCEPT !.pc = label]
      BY <1>5, FilesConstants DEF Times, Goto, Typed, Where, Steps, Decrypting
    <2> QED
      BY <2>1, Moving DEF Typed, Where, Steps, Over, Decrypting
  <1> QED
    BY <1>1, <1>2, <1>3, <1>4, <1>5

\* What others do to a file, and a command's failure, are well typed.
LEMMA OthersTyped ==
    ASSUME Typed, (\E x \in Places : Edit(x)) \/ Fail
    PROVE  Typed'
  <1>1. ASSUME NEW x \in Places, Edit(x)
        PROVE  Typed'
    <2> DEFINE fd == IF run.fd = x THEN None ELSE run.fd
               raced == run.raced \/ x = run.at
    <2>0. UNCHANGED <<blob, timed, runs, faults>> /\ edits < MaxEdits /\ edits' = edits + 1
      BY <1>1 DEF Edit
    <2>1. UNCHANGED <<blob, timed, runs, faults>> /\ edits' \in 0..MaxEdits
      BY <2>0, FilesConstants DEF Typed
    <2>2. RunShape' /\ Where'
      <3>1. run' = [run EXCEPT !.fd = fd, !.raced = raced]
        BY <1>1 DEF Edit
      <3>2. fd \in Places \cup {None} /\ raced \in BOOLEAN
        BY DEF Typed, RunShape
      <3> HIDE DEF fd, raced
      <3> QED
        BY <3>1, <3>2 DEF Typed, RunShape, Where
    <2>3. file' \in [Places -> Plain \cup Places \cup {None}]
      <3>1. [c : Contents, m : Modes] \subseteq Plain
        BY DEF Plain
      <3>2. PICK new \in Plain \cup Places \cup {None} : file' = [file EXCEPT ![x] = new]
        BY <1>1, <3>1 DEF Edit
      <3> QED
        BY <3>2 DEF Typed
    <2> QED
      BY <2>1, <2>2, <2>3 DEF Typed
  <1>2. CASE Fail
    <2>1. UNCHANGED <<file, blob, timed, runs, edits>> /\ faults' \in 0..MaxFaults /\ run.pc \in Steps
      BY <1>2, FilesConstants DEF Fail, Typed
    <2>2. CASE run' = [run EXCEPT !.pc = "stopped"]
      BY <2>1, <2>2, Moving DEF Typed, Where, Steps, Over
    <2>3. CASE run.pc \in {"read", "stat", "put"} /\ NotStored
      BY <2>1, <2>3, NotStoredTyped DEF Typed
    <2> QED
      BY <1>2, <2>2, <2>3 DEF Fail, Goto
  <1> QED
    BY <1>1, <1>2

---------------------------------------------------------------------------
\* The steps by what they do.

Begins ==
    \/ \E x \in Places, n \in Names : Encrypt(x, n)
    \/ ScanAll
    \/ \E x \in Places, n \in Names :
          DecryptTo(n, x) \/ \E ticked \in BOOLEAN : DecryptOther(n, x, ticked)
    \/ \E n \in Names : Get(n) \/ \E overwrite \in BOOLEAN : Restore(n, overwrite)

Stores ==
    \/ Scanned \/ AllConsidered \/ Cancel
    \/ \E x \in Places : Scan(x) \/ Consider(x)
    \/ ReadSource \/ StatSource \/ Put

Asks   == Look \/ AskRestore \/ AskReplace \/ Check \/ Times
Writes == Truncate \/ Fill \/ Chmod
Edits  == \E x \in Places : Edit(x)

\* A command begins, stores, asks, writes or fails, or others change a file.
LEMMA StepKinds ==
    [Next]_vars => Begins \/ Stores \/ Asks \/ Writes \/ Edits \/ Fail \/ UNCHANGED vars
  BY DEF Next, Begins, Stores, Asks, Writes, Edits

\* Every step is well typed.
LEMMA NextTyped ==
    ASSUME Typed, Disk, [Next]_vars
    PROVE  Typed'
  <1>1. CASE UNCHANGED vars
    BY <1>1 DEF vars, Typed, RunShape, Where
  <1>2. CASE Begins
    BY <1>2, BeginTyped DEF Begins
  <1>3. CASE Stores
    BY <1>3, StoringTyped DEF Stores
  <1>4. CASE Asks \/ Writes
    BY <1>4, DecryptingTyped DEF Asks, Writes
  <1>5. CASE Edits \/ Fail
    BY <1>5, OthersTyped DEF Edits
  <1> QED
    BY <1>1, <1>2, <1>3, <1>4, <1>5, StepKinds

\* Storing, asking and failing touch no file of the machine and nothing open, and
\* go on with the same command.
LEMMA Looking ==
    ASSUME Typed, Stores \/ Asks \/ Fail
    PROVE  UNCHANGED file /\ run'.fd = run.fd /\ run'.cmd = run.cmd
  <1> USE DEF Typed, RunShape
  <1>1. CASE Scanned \/ AllConsidered \/ Cancel
    BY <1>1 DEF Scanned, AllConsidered, Cancel, Goto
  <1>2. ASSUME NEW x \in Places, Scan(x) \/ Consider(x)
        PROVE  UNCHANGED file /\ run'.fd = run.fd /\ run'.cmd = run.cmd
    BY <1>2 DEF Scan, Consider
  <1>3. CASE ReadSource \/ StatSource
    BY <1>3 DEF ReadSource, StatSource, NotStored
  <1>4. CASE Put
    BY <1>4 DEF Put
  <1>5. CASE Look \/ AskRestore
    BY <1>5 DEF Look, AskRestore, Goto
  <1>6. CASE AskReplace \/ Check \/ Times
    BY <1>6 DEF AskReplace, Check, Times, Goto
  <1>7. CASE Fail
    BY <1>7 DEF Fail, NotStored, Goto
  <1> QED
    BY <1>1, <1>2, <1>3, <1>4, <1>5, <1>6, <1>7 DEF Stores, Asks

\* The files that get may come to.
GetsTo(x) == x \in Inside /\ (NoFollow => x = run.at)

\* A write changes one file, which is a regular one then: the one that is opened,
\* or is open, or, where the mode is set by name, the one the name stands for.
LEMMA Writing ==
    ASSUME Typed, Disk, Writes
    PROVE  /\ run'.cmd = run.cmd /\ run'.at = run.at /\ run'.env = run.env
           /\ \/ UNCHANGED file
              \/ \E x \in Places :
                    /\ x \in {run.fd, Resolve(run.at)}
                    /\ file'[x] \in Plain
                    /\ \A y \in Places \ {x} : file'[y] = file[y]
                    /\ run.cmd = "get" => GetsTo(x)
           /\ run'.fd = run.fd \/ (Truncate /\ run'.fd \in Places /\ file'[run'.fd] \in Plain
                                     /\ (run.cmd = "get" => GetsTo(run'.fd)))
  <1> USE DEF Typed
  <1>1. CASE Truncate
    <2>1. run.pc = "truncate" /\ run.at \in Places
      BY <1>1 DEF Truncate, Where, Steps
    <2>2. ASSUME NEW x \in Places, Opened(x)
          PROVE  /\ run'.cmd = run.cmd /\ run'.at = run.at /\ run'.env = run.env
                 /\ run'.fd = x /\ file'[x] \in Plain
                 /\ \A y \in Places \ {x} : file'[y] = file[y]
      <3>1. PICK m \in Modes : file' = [file EXCEPT ![x] = [c |-> Torn, m |-> m]]
        BY <2>1, <2>2, OpenedEffect
      <3> QED
        BY <2>1, <2>2, <3>1, OpenedEffect
    <2>3. CASE ~Refused /\ Opened(Resolve(run.at))
      <3>1. run.cmd = "get" => GetsTo(Resolve(run.at))
        BY <2>1, <2>3 DEF Refused, IsLink, Resolve, GetsTo, Disk
      <3> QED
        BY <1>1, <2>1, <2>2, <2>3, <3>1, Resolving
    <2>4. CASE Goto("stopped") /\ UNCHANGED file
      BY <2>4, Moving DEF Goto, Over
    <2> QED
      BY <1>1, <2>3, <2>4 DEF Truncate
  <1>2. CASE Fill
    <2>1. run' = [run EXCEPT !.pc = "chmod"]
      BY <1>2 DEF Fill, Goto
    <2>2. /\ run'.cmd = run.cmd /\ run'.at = run.at /\ run'.env = run.env /\ run'.fd = run.fd
      BY <2>1, Moving DEF Steps
    <2>3. CASE run.fd = None
      BY <1>2, <2>2, <2>3 DEF Fill
    <2>4. CASE run.fd # None
      <3>1. run.fd \in Places /\ file[run.fd] \in Plain /\ run.env \in Plain
        BY <1>2, <2>4 DEF Fill, Disk, RunShape, Where, Steps
      <3>2. file' = [file EXCEPT ![run.fd] = [file[run.fd] EXCEPT !.c = run.env.c]]
        BY <1>2, <2>4 DEF Fill
      <3>3. [file[run.fd] EXCEPT !.c = run.env.c] \in Plain
        BY <3>1 DEF Plain
      <3>4. run.cmd = "get" => GetsTo(run.fd)
        BY <2>4 DEF Disk, GetsTo
      <3> QED
        BY <2>2, <3>1, <3>2, <3>3, <3>4
    <2> QED
      BY <2>3, <2>4
  <1>3. CASE Chmod
    <2> DEFINE x == IF run.cmd = "get" THEN run.fd ELSE Resolve(run.at)
    <2>1. /\ run.pc = "chmod" /\ run.at \in Places /\ run.env \in Plain
          /\ run.cmd \in Decrypting
      BY <1>3 DEF Chmod, Where, Steps
    <2>2. \E label \in {"times", "done", "stopped"} : run' = [run EXCEPT !.pc = label]
      BY <1>3 DEF Chmod, Goto
    <2>3. /\ run'.cmd = run.cmd /\ run'.at = run.at /\ run'.env = run.env /\ run'.fd = run.fd
      BY <2>2, Moving DEF Steps, Over
    <2>4. \/ UNCHANGED file
          \/ /\ x # None /\ file[x] \in Plain
             /\ file' = [file EXCEPT ![x] = [file[x] EXCEPT !.m = run.env.m]]
      BY <1>3 DEF Chmod, Disk
    <2>5. x # None => x \in Places /\ (run.cmd = "get" => GetsTo(x)) /\ x \in {run.fd, Resolve(run.at)}
      BY <2>1, Resolving DEF RunShape, Disk, GetsTo
    <2>6. x # None /\ file[x] \in Plain => [file[x] EXCEPT !.m = run.env.m] \in Plain
      BY <2>1 DEF Plain
    <2> HIDE DEF x
    <2> QED
      BY <2>3, <2>4, <2>5, <2>6
  <1> QED
    BY <1>1, <1>2, <1>3 DEF Writes

\* What others do to a file tears it from the command that has it open, and shows
\* up as a race where it is the one the command was given; no link led to it.
LEMMA Editing ==
    ASSUME Typed, NEW x \in Places, Edit(x)
    PROVE  /\ run' = [run EXCEPT !.fd = run'.fd, !.raced = run'.raced]
           /\ run'.pc = run.pc /\ run'.cmd = run.cmd /\ run'.at = run.at /\ run'.env = run.env
           /\ run'.fd = IF run.fd = x THEN None ELSE run.fd
           /\ ~run'.raced => ~run.raced /\ x # run.at
           /\ UNCHANGED blob
           /\ \A y \in Places : file[y] # x
           /\ \A y \in Places \ {x} : file'[y] = file[y]
           /\ file'[x] \in Plain \cup {None} \/ (file'[x] \in Places \ {x} /\ file[file'[x]] \notin Places)
  <1> DEFINE fd == IF run.fd = x THEN None ELSE run.fd
             raced == run.raced \/ x = run.at
  <1>1. run' = [run EXCEPT !.fd = fd, !.raced = raced] /\ UNCHANGED blob
    BY DEF Edit
  <1>2. fd \in Places \cup {None} /\ raced \in BOOLEAN
    BY DEF Typed, RunShape
  <1>3. ~raced => ~run.raced /\ x # run.at
    OBVIOUS
  <1>4. fd = IF run.fd = x THEN None ELSE run.fd
    OBVIOUS
  <1> HIDE DEF fd, raced
  <1>5. run'.fd = fd /\ run'.raced = raced
    BY <1>1 DEF Typed, RunShape
  <1>6. /\ run' = [run EXCEPT !.fd = run'.fd, !.raced = run'.raced]
        /\ run'.pc = run.pc /\ run'.cmd = run.cmd /\ run'.at = run.at /\ run'.env = run.env
    BY <1>1, <1>5 DEF Typed, RunShape
  <1>7. \A y \in Places : file[y] # x
    BY DEF Edit
  <1>8. [c : Contents, m : Modes] \subseteq Plain
    BY DEF Plain
  <1>9. PICK new : /\ file' = [file EXCEPT ![x] = new]
                   /\ new \in Plain \cup {None} \/ (new \in Places \ {x} /\ file[new] \notin Places)
    BY <1>8 DEF Edit
  <1>10. /\ \A y \in Places \ {x} : file'[y] = file[y]
         /\ file'[x] = new
    BY <1>9 DEF Typed
  <1> QED
    BY <1>1, <1>3, <1>4, <1>5, <1>6, <1>7, <1>9, <1>10

---------------------------------------------------------------------------
\* The inductive invariant, part by part.

\* No step makes a link to a link, or leaves a command with something open that is
\* no regular file, or get with another file than its own.
LEMMA NextDisk ==
    ASSUME Typed, Disk, [Next]_vars
    PROVE  Disk'
  <1> USE DEF Typed
  <1>1. CASE UNCHANGED vars
    BY <1>1 DEF vars, Disk
  <1>2. CASE Begins
    BY <1>2, BeginTyped DEF Begins, Disk
  <1>3. CASE Stores \/ Fail
    <2>1. run'.at = run.at \/ run.cmd # "get"
      <3>1. CASE Stores
        <4>1. run.cmd # "get"
          BY <3>1 DEF Stores, Scanned, AllConsidered, Cancel, Scan, Consider, ReadSource,
                      StatSource, Put, Where
        <4> QED
          BY <4>1
      <3>2. CASE Fail
        BY <3>2 DEF Fail, NotStored, Goto, RunShape
      <3> QED
        BY <1>3, <3>1, <3>2
    <2> QED
      BY <1>3, <2>1, Looking DEF Disk
  <1>4. CASE Asks
    <2>1. run'.at = run.at
      BY <1>4 DEF Asks, Look, AskRestore, AskReplace, Check, Times, Goto, RunShape
    <2> QED
      BY <1>4, <2>1, Looking DEF Disk
  <1>5. CASE Writes
    <2>1. \A y \in Places : file'[y] \in Places => file'[y] = file[y]
      BY <1>5, Writing, Kinds
    <2>2. \A y \in Places : file'[y] \in Places => file'[file'[y]] \notin Places
      BY <2>1 DEF Disk
    <2>3. run'.fd # None => file'[run'.fd] \in Plain
      BY <1>5, Writing DEF Disk, RunShape
    <2>4. run'.cmd = "get" =>
             /\ run'.at \in Inside
             /\ run'.fd # None => run'.fd \in Inside /\ (NoFollow => run'.fd = run'.at)
      BY <1>5, Writing DEF Disk, GetsTo
    <2> QED
      BY <2>2, <2>3, <2>4 DEF Disk
  <1>6. ASSUME NEW x \in Places, Edit(x)
        PROVE  Disk'
    <2>1. /\ run'.fd = IF run.fd = x THEN None ELSE run.fd
          /\ run'.cmd = run.cmd /\ run'.at = run.at
          /\ \A y \in Places : file[y] # x
          /\ \A y \in Places \ {x} : file'[y] = file[y]
          /\ file'[x] \in Plain \cup {None} \/ (file'[x] \in Places \ {x} /\ file[file'[x]] \notin Places)
      BY <1>6, Editing
    <2>2. \A y \in Places : file'[y] \in Places => file'[file'[y]] \notin Places
      BY <2>1, Kinds DEF Disk
    <2>3. run'.fd # None => file'[run'.fd] \in Plain
      BY <2>1 DEF Disk, RunShape
    <2> QED
      BY <2>1, <2>2, <2>3 DEF Disk
  <1> QED
    BY <1>1, <1>2, <1>3, <1>4, <1>5, <1>6, StepKinds DEF Edits

\* Every step of a run over candidates keeps its accounts.
LEMMA NextAccounted ==
    ASSUME Typed, Accounted, [Next]_vars
    PROVE  Accounted'
  <1> USE DEF Typed
  <1>1. CASE UNCHANGED vars
    BY <1>1 DEF vars, Accounted, InHand
  <1>2. CASE Begins
    BY <1>2, BeginTyped DEF Begins, Accounted
  <1>3. CASE Asks \/ Writes
    <2>1. run.cmd \in Decrypting
      BY <1>3 DEF Asks, Writes, Look, AskRestore, AskReplace, Check, Times, Truncate, Fill, Chmod,
                  Where, Decrypting
    <2>2. run'.cmd = run.cmd
      <3>1. CASE Asks
        BY <3>1, Looking
      <3>2. CASE Writes
        <4>1. CASE Truncate
          BY <4>1 DEF Truncate, Opened, Goto, RunShape
        <4>2. CASE Fill \/ Chmod
          BY <4>2 DEF Fill, Chmod, Goto, RunShape
        <4> QED
          BY <3>2, <4>1, <4>2 DEF Writes
      <3> QED
        BY <1>3, <3>1, <3>2
    <2>3. run'.pc # "scan"
      <3>1. CASE Asks
        BY <3>1 DEF Asks, Look, AskRestore, AskReplace, Check, Times, Goto, RunShape
      <3>2. CASE Writes
        <4>1. CASE Truncate
          BY <4>1 DEF Truncate, Opened, Goto, RunShape
        <4>2. CASE Fill \/ Chmod
          BY <4>2 DEF Fill, Chmod, Goto, RunShape
        <4> QED
          BY <3>2, <4>1, <4>2 DEF Writes
      <3> QED
        BY <1>3, <3>1, <3>2
    <2> QED
      BY <2>1, <2>2, <2>3 DEF Accounted, Decrypting
  <1>4. ASSUME NEW x \in Places, Edit(x)
        PROVE  Accounted'
    <2>1. /\ run' = [run EXCEPT !.fd = run'.fd, !.raced = run'.raced]
          /\ run'.pc = run.pc /\ run'.cmd = run.cmd /\ run'.at = run.at /\ UNCHANGED blob
      BY <1>4, Editing
    <2>2. /\ run'.todo = run.todo /\ run'.found = run.found /\ run'.stored = run.stored
          /\ run'.skipped = run.skipped /\ run'.name = run.name
      BY <2>1 DEF RunShape
    <2> QED
      BY <2>1, <2>2 DEF Accounted, InHand
  <1>5. ASSUME NotStored, run.pc \in {"read", "stat", "put"}, UNCHANGED blob
        PROVE  Accounted'
    <2>1. CASE run.cmd = "all"
      <3>1. /\ run'.pc = "next" /\ run'.todo = run.todo /\ run'.found = run.found
            /\ run'.stored = run.stored /\ run'.skipped = run.skipped \cup {run.at}
        BY <1>5, <2>1 DEF NotStored, RunShape
      <3> QED
        BY <1>5, <2>1, <3>1 DEF Accounted, InHand
    <2>2. CASE run.cmd # "all"
      BY <1>5, <2>2, Moving DEF NotStored, Accounted, Over
    <2> QED
      BY <2>1, <2>2
  <1>6. CASE Fail
    <2>1. CASE Goto("stopped")
      BY <2>1, Moving DEF Goto, Accounted, Over
    <2> QED
      BY <1>5, <1>6, <2>1 DEF Fail
  <1>7. CASE Scanned \/ AllConsidered \/ Cancel
    <2>1. CASE Goto("stopped")
      BY <2>1, Moving DEF Goto, Accounted, Over
    <2>2. CASE Scanned /\ run' = [run EXCEPT !.pc = "next", !.todo = run.found]
      <3>1. /\ run'.pc = "next" /\ run'.todo = run.found /\ run'.found = run.found
            /\ run'.stored = run.stored /\ run'.skipped = run.skipped
        BY <2>2 DEF RunShape
      <3>2. run.stored = {} /\ run.skipped = {}
        BY <2>2 DEF Scanned, Accounted
      <3> QED
        BY <3>1, <3>2 DEF Accounted, InHand
    <2>3. CASE AllConsidered
      <3>1. /\ run.pc = "next" /\ run.todo = {} /\ UNCHANGED blob
            /\ run' = [run EXCEPT !.pc = "done"]
        BY <2>3 DEF AllConsidered, Goto
      <3>2. run.cmd = "all"
        BY <3>1 DEF Where
      <3> QED
        BY <3>1, <3>2, Moving DEF Accounted, InHand, Over
    <2> QED
      BY <1>7, <2>1, <2>2, <2>3 DEF Scanned, Cancel
  <1>8. ASSUME NEW x \in Places, Scan(x)
        PROVE  Accounted'
    <2>1. /\ run.pc = "scan" /\ run'.pc = "scan"
          /\ run'.stored = run.stored /\ run'.skipped = run.skipped
      BY <1>8 DEF Scan, RunShape
    <2> QED
      BY <2>1 DEF Accounted
  <1>9. ASSUME NEW x \in Places, Consider(x)
        PROVE  Accounted'
    <2>1. run.pc = "next" /\ x \in run.todo /\ UNCHANGED blob /\ run.cmd = "all"
      BY <1>9 DEF Consider, Where
    <2>2. CASE run' = [run EXCEPT !.todo = run.todo \ {x}, !.pc = "read", !.at = x, !.name = NameOf[x]]
      <3>1. /\ run'.pc = "read" /\ run'.todo = run.todo \ {x} /\ run'.found = run.found
            /\ run'.stored = run.stored /\ run'.skipped = run.skipped
            /\ run'.at = x /\ run'.name = NameOf[x]
        BY <2>2 DEF RunShape
      <3> QED
        BY <2>1, <3>1 DEF Accounted, InHand
    <2>3. CASE run' = [run EXCEPT !.todo = run.todo \ {x}, !.skipped = run.skipped \cup {x}]
      <3>1. /\ run'.pc = "next" /\ run'.todo = run.todo \ {x} /\ run'.found = run.found
            /\ run'.stored = run.stored /\ run'.skipped = run.skipped \cup {x}
        BY <2>1, <2>3 DEF RunShape
      <3> QED
        BY <2>1, <3>1 DEF Accounted, InHand
    <2> QED
      BY <1>9, <2>2, <2>3 DEF Consider
  <1>10. CASE ReadSource \/ StatSource
    <2>1. run.pc \in {"read", "stat"} /\ UNCHANGED blob
      BY <1>10 DEF ReadSource, StatSource
    <2>2. CASE ~NotStored
      <3>1. /\ run'.pc \in {"stat", "put"} /\ run'.cmd = run.cmd /\ run'.todo = run.todo
            /\ run'.found = run.found /\ run'.stored = run.stored /\ run'.skipped = run.skipped
            /\ run'.at = run.at /\ run'.name = run.name
        <4>1. CASE ReadSource
          BY <2>2, <4>1, ZenonT(60) DEF ReadSource, RunShape
        <4>2. CASE StatSource
          <5> DEFINE e == [run.env EXCEPT !.m = file[Resolve(run.at)].m]
          <5>1. run' = [run EXCEPT !.pc = "put", !.env = e]
            BY <2>2, <4>2 DEF StatSource
          <5> HIDE DEF e
          <5> QED
            BY <5>1 DEF RunShape
        <4> QED
          BY <1>10, <4>1, <4>2
      <3> QED
        BY <2>1, <3>1 DEF Accounted, InHand
    <2> QED
      BY <1>5, <2>1, <2>2
  <1>11. CASE Put
    <2>1. /\ run.pc = "put" /\ run.name \in Names /\ run.at \in Places
          /\ blob' = [blob EXCEPT ![run.name] =
                         [c |-> run.env.c, m |-> run.env.m, origin |-> run.at]]
          /\ run' = IF run.cmd = "all" THEN [run EXCEPT !.pc = "next", !.stored = run.stored \cup {run.at}]
                                       ELSE [run EXCEPT !.pc = "done"]
      BY <1>11 DEF Put, Where
    <2>2. CASE run.cmd = "all"
      <3>1. /\ run'.pc = "next" /\ run'.todo = run.todo /\ run'.found = run.found
            /\ run'.stored = run.stored \cup {run.at} /\ run'.skipped = run.skipped
        BY <2>1, <2>2 DEF RunShape
      <3>2. /\ run.name = NameOf[run.at] /\ run.name # None
            /\ run.stored \subseteq Places
            /\ \A x \in run.stored : /\ NameOf[x] # None /\ blob[NameOf[x]] # None
                                     /\ blob[NameOf[x]].origin \in run.stored
        BY <2>1, <2>2, Kinds DEF Accounted, RunShape
      <3> DEFINE new == [c |-> run.env.c, m |-> run.env.m, origin |-> run.at]
      <3>3. new # None /\ new.origin = run.at
        <4>1. new \in Blob
          BY <2>1 DEF Where, Plain, Blob
        <4> QED
          BY <4>1, Kinds
      <3>4. blob' = [blob EXCEPT ![run.name] = new]
        BY <2>1
      <3> HIDE DEF new
      <3>5. ASSUME NEW x \in run'.stored
            PROVE  /\ NameOf[x] # None /\ blob'[NameOf[x]] # None
                   /\ blob'[NameOf[x]].origin \in run'.stored
        <4>1. NameOf[x] # None /\ NameOf[x] \in Names
          BY <2>1, <3>1, <3>2, FilesConstants
        <4>2. CASE NameOf[x] = run.name
          BY <2>1, <3>1, <3>3, <3>4, <4>1, <4>2
        <4>3. CASE NameOf[x] # run.name
          BY <2>1, <3>1, <3>2, <3>4, <4>1, <4>3
        <4> QED
          BY <4>2, <4>3
      <3> QED
        BY <2>1, <2>2, <3>1, <3>5 DEF Accounted, InHand
    <2>3. CASE run.cmd # "all"
      BY <2>1, <2>3, Moving DEF Accounted, Over
    <2> QED
      BY <2>2, <2>3
  <1> QED
    BY <1>1, <1>2, <1>3, <1>4, <1>6, <1>7, <1>8, <1>9, <1>10, <1>11, StepKinds DEF Edits, Stores

\* The file a name stands for stays what it is while others change neither the
\* name nor, as no link leads there, what a link of that name points to.
LEMMA SameBehindName ==
    ASSUME Typed, NEW x \in Places, Edit(x), NEW y \in Places, x # y
    PROVE  /\ IsLink(y)' <=> IsLink(y)
           /\ file'[y] = file[y]
           /\ Regular(y)' <=> Regular(y)
           /\ file'[Resolve(y)'] = file[Resolve(y)]
  <1>1. /\ \A z \in Places : file[z] # x
        /\ \A z \in Places \ {x} : file'[z] = file[z]
    BY Editing
  <1>2. file'[y] = file[y]
    BY <1>1
  <1>3. Resolve(y) # x /\ Resolve(y) \in Places
    BY <1>1, Resolving DEF Resolve
  <1>4. Resolve(y)' = Resolve(y) /\ (IsLink(y)' <=> IsLink(y))
    BY <1>2 DEF Resolve, IsLink
  <1>5. file'[Resolve(y)'] = file[Resolve(y)]
    BY <1>1, <1>3, <1>4
  <1> QED
    BY <1>2, <1>4, <1>5 DEF Regular

\* What was read stays what is there, until others change it.
LEMMA NextRead ==
    ASSUME Typed, Read, [Next]_vars
    PROVE  Read'
  <1> USE DEF Typed
  <1>1. CASE UNCHANGED vars
    BY <1>1 DEF vars, Read, Regular, Resolve, IsLink
  <1>2. CASE Begins
    BY <1>2, BeginTyped DEF Begins, Read
  <1>3. CASE run'.pc \notin {"stat", "put"}
    BY <1>3 DEF Read
  <1>4. CASE ReadSource
    <2>1. CASE Regular(run.at)
      <3>1. /\ run' = [run EXCEPT !.pc = "stat", !.env = file[Resolve(run.at)], !.raced = FALSE]
            /\ UNCHANGED file
        BY <1>4, <2>1 DEF ReadSource
      <3>2. run'.pc = "stat" /\ run'.env = file[Resolve(run.at)] /\ run'.at = run.at
        BY <3>1 DEF RunShape
      <3> QED
        BY <3>1, <3>2 DEF Read, Resolve, IsLink
    <2>2. CASE ~Regular(run.at)
      BY <1>4, <2>2 DEF ReadSource, NotStored, RunShape, Read
    <2> QED
      BY <2>1, <2>2
  <1>5. CASE StatSource
    <2>1. CASE Regular(run.at)
      <3> DEFINE e == [run.env EXCEPT !.m = file[Resolve(run.at)].m]
      <3>1. run' = [run EXCEPT !.pc = "put", !.env = e] /\ UNCHANGED file /\ run.pc = "stat"
        BY <1>5, <2>1 DEF StatSource
      <3>2. run.env \in Plain
        BY <3>1 DEF Where
      <3>3. e.c = run.env.c /\ e.m = file[Resolve(run.at)].m
        BY <3>2 DEF Plain
      <3> HIDE DEF e
      <3>4. run'.env = e /\ run'.at = run.at /\ run'.raced = run.raced
        BY <3>1 DEF RunShape
      <3> QED
        BY <2>1, <3>1, <3>3, <3>4 DEF Read, Regular, Resolve, IsLink
    <2>2. CASE ~Regular(run.at)
      BY <1>5, <2>2 DEF StatSource, NotStored, RunShape, Read
    <2> QED
      BY <2>1, <2>2
  <1>6. ASSUME NEW x \in Places, Edit(x)
        PROVE  Read'
    <2> SUFFICES ASSUME run'.pc \in {"stat", "put"}, ~run'.raced, Regular(run.at)'
                 PROVE  /\ run'.env.c = file'[Resolve(run.at)'].c
                        /\ run'.pc = "put" => run'.env.m = file'[Resolve(run.at)'].m
      BY DEF Read
    <2>1. /\ run'.pc = run.pc /\ run'.at = run.at /\ run'.env = run.env
          /\ ~run.raced /\ x # run.at
      BY <1>6, Editing
    <2>2. PICK y \in Places : y = run.at
      BY <2>1 DEF Where
    <2>3. (Regular(y)' <=> Regular(y)) /\ file'[Resolve(y)'] = file[Resolve(y)]
      BY <1>6, <2>1, <2>2, SameBehindName
    <2>4. Regular(run.at)' = Regular(y)' /\ Resolve(run.at)' = Resolve(y)'
      BY <2>1, <2>2 DEF Regular, Resolve, IsLink
    <2> QED
      BY <2>1, <2>2, <2>3, <2>4 DEF Read
  <1>7. ASSUME Scanned \/ AllConsidered \/ Cancel \/ Put \/ Fail \/ Writes
        PROVE  run'.pc \notin {"stat", "put"}
    <2>1. CASE Scanned \/ AllConsidered \/ Cancel
      BY <2>1 DEF Scanned, AllConsidered, Cancel, Goto, RunShape
    <2>2. CASE Put
      BY <2>2 DEF Put, RunShape
    <2>3. CASE Fail
      BY <2>3 DEF Fail, NotStored, Goto, RunShape
    <2>4. CASE Truncate
      BY <2>4 DEF Truncate, Opened, Goto, RunShape
    <2>5. CASE Fill \/ Chmod
      BY <2>5 DEF Fill, Chmod, Goto, RunShape
    <2> QED
      BY <1>7, <2>1, <2>2, <2>3, <2>4, <2>5 DEF Writes
  <1>8. ASSUME NEW x \in Places, Scan(x) \/ Consider(x)
        PROVE  run'.pc \notin {"stat", "put"}
    BY <1>8 DEF Scan, Consider, RunShape
  <1>9. ASSUME Asks
        PROVE  run'.pc \notin {"stat", "put"}
    BY <1>9 DEF Asks, Look, AskRestore, AskReplace, Check, Times, Goto, RunShape
  <1> QED
    BY <1>1, <1>2, <1>3, <1>4, <1>5, <1>6, <1>7, <1>8, <1>9, StepKinds DEF Edits, Stores

\* What was asked about stays so, until others change it.
LEMMA NextAsked ==
    ASSUME Typed, Asked, [Next]_vars
    PROVE  Asked'
  <1> USE DEF Typed
  <1>1. CASE UNCHANGED vars
    BY <1>1 DEF vars, Asked, IsLink
  <1>2. CASE Begins
    BY <1>2, BeginTyped DEF Begins, Asked
  <1>3. CASE run'.pc \notin {"ask", "replace", "truncate"} \/ run'.cmd # "restore"
    BY <1>3 DEF Asked
  <1>4. CASE Look
    <2>1. CASE IsLink(run.at)
      BY <1>4, <2>1 DEF Look, RunShape, Asked
    <2>2. CASE ~IsLink(run.at)
      <3> DEFINE there == file[run.at] # None
      <3>1. /\ UNCHANGED file
            /\ run' = [run EXCEPT !.pc = "ask", !.existed = there, !.raced = FALSE]
        BY <1>4, <2>2 DEF Look
      <3> HIDE DEF there
      <3>2. run'.pc = "ask" /\ run'.existed = there /\ run'.at = run.at
        BY <3>1 DEF RunShape
      <3> QED
        BY <2>2, <3>1, <3>2 DEF Asked, IsLink, there
    <2> QED
      BY <2>1, <2>2
  <1>5. CASE AskRestore
    <2>1. /\ UNCHANGED file /\ run.pc = "ask" /\ run.cmd = "restore"
          /\ \E label \in {"stopped", "replace", "truncate"} :
                /\ run' = [run EXCEPT !.pc = label]
                /\ label = "truncate" => ~NeedsConsent
      BY <1>5 DEF AskRestore, Goto, Where
    <2> QED
      BY <2>1, Moving DEF Asked, NeedsConsent, IsLink, Over, Steps
  <1>6. CASE AskReplace
    <2>1. CASE Goto("stopped")
      BY <2>1, Moving DEF Goto, Asked, Over
    <2>2. CASE run' = [run EXCEPT !.pc = "truncate", !.agreed = TRUE]
      <3>1. /\ run'.pc = "truncate" /\ run'.agreed /\ run'.existed = run.existed
            /\ run'.at = run.at /\ run'.raced = run.raced /\ UNCHANGED file
            /\ run.pc = "replace" /\ run.cmd = "restore"
        BY <1>6, <2>2 DEF AskReplace, RunShape, Where
      <3> QED
        BY <3>1 DEF Asked, IsLink
    <2> QED
      BY <1>6, <2>1, <2>2 DEF AskReplace
  <1>7. ASSUME NEW x \in Places, Edit(x)
        PROVE  Asked'
    <2> SUFFICES ASSUME run'.cmd = "restore", run'.pc \in {"ask", "replace", "truncate"}, ~run'.raced
                 PROVE  /\ ~IsLink(run.at)'
                        /\ run'.existed <=> file'[run'.at] # None
      BY DEF Asked
    <2>1. /\ run'.pc = run.pc /\ run'.cmd = run.cmd /\ run'.at = run.at
          /\ ~run.raced /\ x # run.at
          /\ run' = [run EXCEPT !.fd = run'.fd, !.raced = run'.raced]
      BY <1>7, Editing
    <2>2. run'.existed = run.existed /\ run'.ticked = run.ticked /\ run'.agreed = run.agreed
      BY <2>1 DEF RunShape
    <2>3. PICK y \in Places : y = run.at
      BY <2>1 DEF Where, Steps, Decrypting
    <2>4. file'[y] = file[y]
      BY <1>7, <2>1, <2>3, SameBehindName
    <2> QED
      BY <2>1, <2>2, <2>3, <2>4 DEF Asked, IsLink
  <1>8. ASSUME Stores \/ Fail \/ Writes \/ Check \/ Times
        PROVE  run'.pc \notin {"ask", "replace", "truncate"} \/ run'.cmd # "restore"
    <2>1. CASE Stores
      <3>1. run.cmd # "restore"
        BY <2>1 DEF Stores, Scanned, AllConsidered, Cancel, Scan, Consider, ReadSource,
                    StatSource, Put, Where
      <3> QED
        BY <2>1, <3>1, Looking
    <2>2. CASE Fail
      BY <2>2 DEF Fail, NotStored, Goto, RunShape
    <2>3. CASE Truncate
      BY <2>3 DEF Truncate, Opened, Goto, RunShape
    <2>4. CASE Fill \/ Chmod
      BY <2>4 DEF Fill, Chmod, Goto, RunShape
    <2>5. CASE Check
      <3>1. run.cmd = "get"
        BY <2>5 DEF Check, Where
      <3> QED
        BY <2>5, <3>1, Looking DEF Asks
    <2>6. CASE Times
      BY <2>6 DEF Times, Goto, RunShape
    <2> QED
      BY <1>8, <2>1, <2>2, <2>3, <2>4, <2>5, <2>6 DEF Writes
  <1> QED
    BY <1>1, <1>2, <1>3, <1>4, <1>5, <1>6, <1>7, <1>8, StepKinds DEF Edits, Asks

\* Only the answers lead to the open of a restore, and nobody takes them back.
LEMMA NextConsented ==
    ASSUME Typed, Consented, [Next]_vars
    PROVE  Consented'
  <1> USE DEF Typed
  <1>1. CASE UNCHANGED vars
    BY <1>1 DEF vars, Consented
  <1>2. CASE Begins
    BY <1>2, BeginTyped DEF Begins, Consented
  <1>3. CASE AskRestore
    <2>1. \E label \in {"stopped", "replace", "truncate"} :
             /\ run' = [run EXCEPT !.pc = label]
             /\ label = "truncate" => ~NeedsConsent
      BY <1>3 DEF AskRestore, Goto
    <2> QED
      BY <2>1, Moving DEF Consented, NeedsConsent, Over, Steps
  <1>4. CASE AskReplace
    <2>1. CASE Goto("stopped")
      BY <2>1, Moving DEF Goto, Consented, Over
    <2>2. CASE run' = [run EXCEPT !.pc = "truncate", !.agreed = TRUE]
      BY <2>2 DEF RunShape, Consented
    <2> QED
      BY <1>4, <2>1, <2>2 DEF AskReplace
  <1>5. ASSUME NEW x \in Places, Edit(x)
        PROVE  Consented'
    <2>1. /\ run'.pc = run.pc /\ run'.cmd = run.cmd
          /\ run' = [run EXCEPT !.fd = run'.fd, !.raced = run'.raced]
      BY <1>5, Editing
    <2>2. run'.existed = run.existed /\ run'.ticked = run.ticked /\ run'.agreed = run.agreed
      BY <2>1 DEF RunShape
    <2> QED
      BY <2>1, <2>2 DEF Consented
  <1>6. CASE Stores
    <2>1. run.cmd # "restore"
      BY <1>6 DEF Stores, Scanned, AllConsidered, Cancel, Scan, Consider, ReadSource,
                  StatSource, Put, Where
    <2> QED
      BY <1>6, <2>1, Looking DEF Consented
  <1>7. ASSUME Look \/ Times \/ Fail \/ Writes
        PROVE  run'.pc # "truncate"
    <2>1. CASE Look \/ Times
      BY <2>1 DEF Look, Times, Goto, RunShape
    <2>2. CASE Fail
      BY <2>2 DEF Fail, NotStored, Goto, RunShape
    <2>3. CASE Writes
      BY <2>3 DEF Writes, Truncate, Opened, Fill, Chmod, Goto, RunShape
    <2> QED
      BY <1>7, <2>1, <2>2, <2>3
  <1>8. CASE Check
    <2>1. run.cmd = "get"
      BY <1>8 DEF Check, Where
    <2> QED
      BY <1>8, <2>1, Looking DEF Asks, Consented
  <1> QED
    BY <1>1, <1>2, <1>3, <1>4, <1>5, <1>6, <1>7, <1>8, StepKinds DEF Consented, Edits, Asks

\* What was written stays what is there, until others change it.
LEMMA NextLanded ==
    ASSUME Typed, Disk, Landed, [Next]_vars
    PROVE  Landed'
  <1> USE DEF Typed
  <1>1. CASE UNCHANGED vars
    BY <1>1 DEF vars, Landed, IsLink
  <1>2. CASE Begins
    BY <1>2, BeginTyped DEF Begins, Landed
  <1>3. CASE \/ run'.pc \notin {"fill", "chmod", "times", "done"}
             \/ run'.cmd \notin Decrypting
    BY <1>3 DEF Landed
  <1>4. CASE Truncate
    <2> SUFFICES ASSUME run'.pc = "fill", ~IsLink(run.at)'
                 PROVE  run'.fd = run'.at /\ file'[run'.at] \in Plain
      BY <1>4 DEF Truncate, Opened, Goto, RunShape, Landed
    <2>1. run.pc = "truncate" /\ run.at \in Places
      BY <1>4 DEF Truncate, Where, Steps
    <2>2. ASSUME NEW x \in Places, Opened(x), x = Resolve(run.at)
          PROVE  run'.fd = run'.at /\ file'[run'.at] \in Plain
      <3>1. PICK m \in Modes : file' = [file EXCEPT ![x] = [c |-> Torn, m |-> m]]
        BY <2>1, <2>2, OpenedEffect
      <3>2. file'[x] \in Plain /\ run'.fd = x /\ run'.at = run.at
        BY <2>1, <2>2, OpenedEffect
      <3>3. CASE IsLink(run.at)
        <4>1. file[run.at] = x /\ x # run.at
          BY <2>1, <2>2, <3>3 DEF IsLink, Resolve, Disk
        <4>2. file'[run.at] = file[run.at]
          BY <2>1, <3>1, <4>1
        <4> QED
          BY <3>2, <3>3, <4>2 DEF IsLink
      <3>4. CASE ~IsLink(run.at)
        BY <2>1, <2>2, <3>2, <3>4, Resolving
      <3> QED
        BY <3>3, <3>4
    <2>3. CASE Goto("stopped")
      BY <2>3, Moving DEF Goto, Over
    <2> QED
      BY <1>4, <2>1, <2>2, <2>3, Resolving DEF Truncate
  <1>5. CASE Fill
    <2>1. /\ run.pc = "fill" /\ run.at \in Places /\ run.env \in Plain /\ run.cmd \in Decrypting
          /\ run' = [run EXCEPT !.pc = "chmod"]
      BY <1>5 DEF Fill, Goto, Where, Steps
    <2>2. /\ run'.pc = "chmod" /\ run'.at = run.at /\ run'.env = run.env /\ run'.fd = run.fd
          /\ run'.raced = run.raced /\ run'.cmd = run.cmd
      BY <2>1, Moving DEF Steps
    <2>3. CASE run.fd = run.at /\ file[run.at] \in Plain
      <3>1. file' = [file EXCEPT ![run.at] = [file[run.at] EXCEPT !.c = run.env.c]]
        BY <1>5, <2>1, <2>3, Kinds DEF Fill
      <3>2. [file[run.at] EXCEPT !.c = run.env.c] \in Plain
        BY <2>1, <2>3 DEF Plain
      <3>3. file'[run.at] = [file[run.at] EXCEPT !.c = run.env.c]
        BY <2>1, <3>1
      <3>4. file'[run.at].c = run.env.c
        BY <2>3, <3>3 DEF Plain
      <3> QED
        BY <2>2, <2>3, <3>2, <3>3, <3>4 DEF Landed
    <2>4. CASE ~(run.fd = run.at /\ file[run.at] \in Plain)
      <3>1. run.raced \/ IsLink(run.at)
        BY <2>1, <2>4 DEF Landed
      <3>2. IsLink(run.at) => file'[run.at] = file[run.at]
        BY <1>5, <2>1, Kinds DEF Fill, IsLink, Disk, RunShape
      <3> QED
        BY <2>2, <3>1, <3>2 DEF Landed, IsLink
    <2> QED
      BY <2>3, <2>4
  <1>6. CASE Chmod
    <2> DEFINE x == IF run.cmd = "get" THEN run.fd ELSE Resolve(run.at)
    <2>1. /\ run.pc = "chmod" /\ run.at \in Places /\ run.env \in Plain
          /\ run.cmd \in Decrypting
      BY <1>6 DEF Chmod, Where, Steps
    <2>2. \E label \in {"times", "done", "stopped"} : run' = [run EXCEPT !.pc = label]
      BY <1>6 DEF Chmod, Goto
    <2>3. /\ run'.at = run.at /\ run'.env = run.env /\ run'.fd = run.fd
          /\ run'.raced = run.raced /\ run'.cmd = run.cmd
          /\ run'.pc \in {"times", "done", "stopped"}
      BY <2>2, Moving DEF Steps, Over
    <2>4. CASE ~IsLink(run.at) /\ ~run.raced
      <3>1. run.fd = run.at /\ file[run.at] \in Plain /\ file[run.at].c = run.env.c
        BY <2>1, <2>4 DEF Landed
      <3>2. x = run.at /\ x # None
        BY <2>1, <2>4, <3>1, Resolving, Kinds
      <3>3. \/ run'.pc = "stopped"
            \/ file' = [file EXCEPT ![run.at] = [file[run.at] EXCEPT !.m = run.env.m]]
        BY <1>6, <2>1, <3>1, <3>2, Moving DEF Chmod, Goto, Over
      <3>4. /\ [file[run.at] EXCEPT !.m = run.env.m] \in Plain
            /\ [file[run.at] EXCEPT !.m = run.env.m].m = run.env.m
            /\ [file[run.at] EXCEPT !.m = run.env.m].c = run.env.c
        BY <2>1, <3>1 DEF Plain
      <3> DEFINE new == [file[run.at] EXCEPT !.m = run.env.m]
      <3> HIDE DEF new
      <3>5. run'.pc = "stopped" \/ file'[run.at] = new
        BY <2>1, <3>3 DEF new
      <3> QED
        BY <2>3, <3>1, <3>4, <3>5 DEF Landed, new
    <2>5. CASE IsLink(run.at)
      <3>1. UNCHANGED file \/ \E y \in Places : /\ file[y] \in Plain
                                                /\ \A z \in Places \ {y} : file'[z] = file[z]
        <4>1. x # None => x \in Places
          BY <2>1, Resolving DEF RunShape
        <4>2. \/ UNCHANGED file
              \/ x # None /\ file[x] \in Plain /\ file' = [file EXCEPT ![x].m = run.env.m]
          BY <1>6 DEF Chmod, Disk
        <4> HIDE DEF x
        <4> QED
          BY <4>1, <4>2
      <3>2. file'[run.at] = file[run.at]
        BY <2>1, <2>5, <3>1, Kinds DEF IsLink
      <3> QED
        BY <2>3, <2>5, <3>2 DEF Landed, IsLink
    <2> QED
      BY <2>3, <2>4, <2>5 DEF Landed
  <1>7. CASE Times
    <2>1. /\ run.pc = "times" /\ UNCHANGED file
          /\ \E label \in {"stopped", "done"} : run' = [run EXCEPT !.pc = label]
      BY <1>7 DEF Times, Goto
    <2> QED
      BY <2>1, Moving DEF Over, Landed, IsLink
  <1>8. ASSUME NEW x \in Places, Edit(x)
        PROVE  Landed'
    <2> SUFFICES ASSUME run'.pc \in {"fill", "chmod", "times", "done"}, run'.cmd \in Decrypting,
                        ~run'.raced, ~IsLink(run.at)'
                 PROVE  /\ run'.fd = run'.at /\ file'[run'.at] \in Plain
                        /\ run'.pc # "fill" => file'[run'.at].c = run'.env.c
                        /\ run'.pc \in {"times", "done"} => file'[run'.at].m = run'.env.m
      BY DEF Landed
    <2>1. /\ run'.pc = run.pc /\ run'.cmd = run.cmd /\ run'.at = run.at /\ run'.env = run.env
          /\ run'.fd = IF run.fd = x THEN None ELSE run.fd
          /\ ~run.raced /\ x # run.at
      BY <1>8, Editing
    <2>2. PICK y \in Places : y = run.at
      BY <2>1 DEF Where, Steps
    <2>3. file'[y] = file[y] /\ (IsLink(y)' <=> IsLink(y))
      BY <1>8, <2>1, <2>2, SameBehindName
    <2>4. ~IsLink(run.at)
      BY <2>1, <2>2, <2>3 DEF IsLink
    <2> QED
      BY <2>1, <2>2, <2>3, <2>4 DEF Landed
  <1>9. ASSUME Stores \/ Fail \/ Look \/ AskRestore \/ AskReplace \/ Check
        PROVE  \/ run'.pc \notin {"fill", "chmod", "times", "done"}
               \/ run'.cmd \notin Decrypting
    <2>1. CASE Stores
      <3>1. run.cmd \notin Decrypting
        BY <2>1 DEF Stores, Scanned, AllConsidered, Cancel, Scan, Consider, ReadSource,
                    StatSource, Put, Where, Decrypting
      <3> QED
        BY <2>1, <3>1, Looking
    <2>2. CASE Fail
      BY <2>2 DEF Fail, NotStored, Goto, RunShape
    <2>3. CASE Look \/ AskRestore \/ AskReplace \/ Check
      BY <2>3 DEF Look, AskRestore, AskReplace, Check, Goto, RunShape
    <2> QED
      BY <1>9, <2>1, <2>2, <2>3
  <1> QED
    BY <1>1, <1>2, <1>3, <1>4, <1>5, <1>6, <1>7, <1>8, <1>9, StepKinds DEF Edits, Asks, Writes

\* Every step keeps the inductive invariant.
LEMMA NextIInv == IInv /\ [Next]_vars => IInv'
  <1> SUFFICES ASSUME IInv, [Next]_vars PROVE IInv'
    OBVIOUS
  <1> QED
    BY NextTyped, NextDisk, NextAccounted, NextRead, NextAsked, NextConsented, NextLanded DEF IInv

\* So it holds of every reachable state.
LEMMA IInvAlways == Spec => []IInv
  BY InitIInv, NextIInv, PTL DEF Spec

---------------------------------------------------------------------------
\* What it says of the program.

\* Every command, at any point of it and whatever others do to the files, leaves
\* the machine, the store and itself in a state of the declared types.
THEOREM TypeCorrect == Spec => []TypeOK
  <1>1. IInv => TypeOK
    BY TypedIsTypeOK DEF IInv
  <1> QED
    BY <1>1, IInvAlways, PTL

\* A file that was decrypted (core.WriteTo, RestoreToOrigin, store.Extract) has
\* the stored content and the stored mode, though it is opened, filled and given
\* its mode in three steps, the last of them by name for all but get, unless
\* others changed it meanwhile or the disk has a link.
THEOREM DecryptedLands == Spec => []LandsAsStored
  <1>1. ASSUME IInv, run.pc = "done", run.cmd \in Decrypting, ~run.raced,
               \A y \in Places : ~IsLink(y)
        PROVE  file[run.at] = [c |-> run.env.c, m |-> run.env.m]
    <2>1. run.at \in Places
      BY <1>1 DEF IInv, Typed, Where
    <2>2. /\ file[run.at] \in Plain
          /\ file[run.at].c = run.env.c /\ file[run.at].m = run.env.m
      BY <1>1, <2>1 DEF IInv, Landed
    <2> QED
      BY <2>2 DEF Plain
  <1>2. IInv => LandsAsStored
    BY <1>1 DEF LandsAsStored, Decrypting
  <1> QED
    BY <1>2, IInvAlways, PTL

\* A run over scanned candidates (core.EncryptCandidates) that comes to its end has
\* stored or passed over each of them and none twice, and each name it stored
\* holds one of its own files, though two files may have one name.
THEOREM CandidatesAlwaysAccounted == Spec => []CandidatesAccounted
  <1>1. IInv => CandidatesAccounted
    BY DEF IInv, Accounted, InHand, CandidatesAccounted
  <1> QED
    BY <1>1, IInvAlways, PTL

\* What a put stores (core.EncryptFile) is the file behind the name, content and
\* mode, where nobody changed it between the read and the put: an edit between
\* the read and the stat stores one file's content with another's mode.
THEOREM PutStoresTheFile == Spec => StoresTheFile
  <1>1. ASSUME IInv, [Next]_vars
        PROVE  [Put /\ ~run.raced /\ Regular(run.at) =>
                  /\ blob'[run.name].c = file[Resolve(run.at)].c
                  /\ blob'[run.name].m = file[Resolve(run.at)].m]_vars
    <2> SUFFICES ASSUME Put, ~run.raced, Regular(run.at)
                 PROVE  /\ blob'[run.name].c = file[Resolve(run.at)].c
                        /\ blob'[run.name].m = file[Resolve(run.at)].m
      OBVIOUS
    <2>1. /\ run.pc = "put" /\ run.name \in Names
          /\ blob' = [blob EXCEPT ![run.name] =
                         [c |-> run.env.c, m |-> run.env.m, origin |-> run.at]]
      BY <1>1 DEF Put, IInv, Typed, Where
    <2>2. blob'[run.name] = [c |-> run.env.c, m |-> run.env.m, origin |-> run.at]
      BY <1>1, <2>1 DEF IInv, Typed
    <2> QED
      BY <1>1, <2>1, <2>2 DEF IInv, Read
  <1> QED
    BY <1>1, IInvAlways, PTL DEF Spec, StoresTheFile

\* A restore to the recorded place (core.RestoreToOrigin, and the questions that
\* dec asks) opens no file that was there at its look, nor one that replaced it
\* during the questions, without --overwrite or a yes to the second question, and
\* none through a link that was there; what comes during the questions where
\* nothing was is replaced unasked.
THEOREM RestoresWithConsent == Spec => ReplacesWithConsent
  <1>1. ASSUME IInv, [Next]_vars
        PROVE  [(Truncate /\ run.cmd = "restore") =>
                  /\ IsLink(run.at) => run.raced
                  /\ file[run.at] # None =>
                        run.ticked \/ run.agreed \/ (run.raced /\ ~run.existed)]_vars
    BY <1>1 DEF IInv, Asked, Consented, Truncate
  <1> QED
    BY <1>1, IInvAlways, PTL DEF Spec, ReplacesWithConsent

\* get (store.Extract) changes no file and no times outside --dest on any
\* platform, whatever links others put there between its check, its open and what
\* it does after; where the open can refuse a link, it changes no file but the
\* one it names.  The times it sets by name may be another file's beneath --dest.
THEOREM GetAlwaysStaysInside == Spec => GetStaysInside
  <1>1. ASSUME IInv, [Next]_vars
        PROVE  [(run.cmd = "get" /\ edits' = edits /\ runs' = runs) =>
                  /\ \A x \in Places : file'[x] # file[x] => x \in Inside /\ (NoFollow => x = run.at)
                  /\ timed' # timed => timed' \in Inside]_vars
    <2> SUFFICES ASSUME run.cmd = "get", edits' = edits, runs' = runs
                 PROVE  /\ \A x \in Places : file'[x] # file[x] => GetsTo(x)
                        /\ timed' # timed => timed' \in Inside
      BY DEF GetsTo
    <2>1. Typed /\ Disk
      BY <1>1 DEF IInv
    <2>2. CASE UNCHANGED vars
      BY <2>2 DEF vars
    <2>3. CASE Begins
      BY <2>1, <2>3, BeginTyped DEF Begins
    <2>4. CASE Stores \/ Asks \/ Fail
      <3>1. UNCHANGED file
        BY <2>1, <2>4, Looking
      <3>2. CASE Times
        BY <3>1, <3>2 DEF Times
      <3>3. CASE (Stores \/ Asks \/ Fail) /\ ~Times
        BY <3>1, <3>3 DEF Stores, Asks, Scanned, AllConsidered, Cancel, Scan, Consider, ReadSource,
                          StatSource, Put, Look, AskRestore, AskReplace, Check, Fail, Same
      <3> QED
        BY <2>4, <3>2, <3>3
    <2>5. CASE Writes
      <3>1. UNCHANGED timed
        BY <2>5 DEF Writes, Truncate, Fill, Chmod, Same
      <3> QED
        BY <2>1, <2>5, <3>1, Writing
    <2>6. ~Edits
      <3>1. \A y \in Places : Edit(y) => edits' = edits + 1
        BY DEF Edit
      <3>2. edits' # edits + 1
        BY <2>1, FilesConstants DEF Typed
      <3> QED
        BY <3>1, <3>2 DEF Edits
    <2> QED
      BY <1>1, <2>2, <2>3, <2>4, <2>5, <2>6, StepKinds
  <1> QED
    BY <1>1, IInvAlways, PTL DEF Spec, GetStaysInside
=============================================================================
