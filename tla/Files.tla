------------------------------- MODULE Files -------------------------------
(***************************************************************************)
(* Files of the machine against files of the store (core.EncryptFile,      *)
(* Scan, EncryptCandidates, WriteTo, RestoreToOrigin, store.Extract; the   *)
(* commands enc, dec and get, and the window's dialogs for them).          *)
(*                                                                         *)
(* A command looks at a file of the machine, may ask a question about it,  *)
(* and acts on it by name later; each look and each system call is a step, *)
(* and between two of them anybody else may replace the file, remove it or *)
(* put a link in its place.  A file that is written is truncated, filled   *)
(* and given its mode in three steps, and a command that is killed leaves  *)
(* it as it is.  The store is a map from logical paths here: a put is one  *)
(* rename (Store.tla).                                                     *)
(*                                                                         *)
(* get works beneath an os.Root, which follows no link out of --dest on    *)
(* any platform; a link that stays beneath it is refused by O_NOFOLLOW,    *)
(* which Windows does not have, and followed by what goes by name again.   *)
(***************************************************************************)
EXTENDS Naturals, FiniteSets

CONSTANTS
    Places,     \* files of the machine, by their absolute path
    Names,      \* logical paths
    NameOf,     \* NameOf[x]: the logical path x gets by default, None for a bad one
    Inside,     \* the places beneath --dest
    Below,      \* Below[n]: the place of name n beneath --dest
    NoFollow,   \* whether the platform's open can refuse a link: not on Windows
    Contents,
    Secret,     \* the contents the scan takes for a credential
    Modes,
    MaxRuns,    \* bound: commands started
    MaxEdits,   \* bound: changes made by others
    MaxFaults,  \* bound: kills and failed steps
    None,
    Torn        \* the content of a file that was truncated and not filled

Commands == {"enc", "all", "out", "other", "restore", "get"}
Plain == [c : Contents \cup {Torn}, m : Modes]   \* a regular file
Blob  == [c : Contents \cup {Torn}, m : Modes, origin : Places]

ASSUME FilesConstants ==
    /\ NameOf \in [Places -> Names \cup {None}]
    /\ Inside \subseteq Places
    /\ Below \in [Names -> Inside]
    /\ NoFollow \in BOOLEAN
    /\ Secret \subseteq Contents
    /\ MaxRuns \in Nat /\ MaxEdits \in Nat /\ MaxFaults \in Nat
    /\ None \notin Names \cup Places \cup Plain \cup Blob \cup Commands
    /\ Torn \notin Contents
    /\ Places \cap Plain = {}

VARIABLES
    file,    \* file[x]: a regular file, the place a link points to, or None
    blob,    \* blob[n]: what the store holds under n
    run,     \* the command under way, or the last one
    timed,   \* the file whose times a get set last, or None
    runs, edits, faults

vars == <<file, blob, run, timed, runs, edits, faults>>

Over     == {"idle", "done", "stopped"}
Steps    == {"scan", "next", "read", "stat", "put", "look", "ask", "replace", "check",
             "truncate", "fill", "chmod", "times"}

NoRun == [pc |-> "idle", cmd |-> None, at |-> None, name |-> None, env |-> None,
          ticked |-> FALSE, agreed |-> FALSE, existed |-> FALSE, fd |-> None,
          raced |-> FALSE, todo |-> {}, found |-> {}, stored |-> {}, skipped |-> {}]

TypeOK ==
    /\ file \in [Places -> Plain \cup Places \cup {None}]
    /\ blob \in [Names -> Blob \cup {None}]
    /\ run.pc \in Over \cup Steps
    /\ run.cmd \in Commands \cup {None}
    /\ run.at \in Places \cup {None} /\ run.fd \in Places \cup {None}
    /\ run.name \in Names \cup {None}
    /\ run.pc \in {"truncate", "fill", "chmod", "times", "put"} => run.env \in Plain
    /\ {run.ticked, run.agreed, run.existed, run.raced} \subseteq BOOLEAN
    /\ {run.todo, run.found, run.stored, run.skipped} \subseteq SUBSET Places
    /\ timed \in Places \cup {None}
    /\ runs \in 0..MaxRuns /\ edits \in 0..MaxEdits /\ faults \in 0..MaxFaults

Init ==
    /\ file \in [Places -> Plain \cup {None}]
    /\ \A x \in Places : file[x] # None => file[x].c # Torn
    /\ blob = [n \in Names |-> None]
    /\ run = NoRun
    /\ timed = None
    /\ runs = 0 /\ edits = 0 /\ faults = 0

IsLink(x)  == file[x] \in Places
Resolve(x) == IF IsLink(x) THEN file[x] ELSE x   \* a link never points to a link here
Regular(x) == file[Resolve(x)] \in Plain

Goto(label) == run' = [run EXCEPT !.pc = label]
Same == UNCHANGED <<timed, runs, edits, faults>>

Begin(cmd, label, at, name) ==
    /\ run.pc \in Over /\ runs < MaxRuns
    /\ runs' = runs + 1
    /\ run' = [NoRun EXCEPT !.pc = label, !.cmd = cmd, !.at = at, !.name = name]
    /\ UNCHANGED <<file, blob, timed, edits, faults>>

---------------------------------------------------------------------------
\* Encrypting one file, and encrypting what a scan found.

\* enc: --as names any logical path; without it the path is worked out.
Encrypt(x, n) == Begin("enc", "read", x, n)

\* A file the store cannot name is read and then refused, which changes nothing.
ScanAll ==
    /\ run.pc \in Over /\ runs < MaxRuns
    /\ runs' = runs + 1
    /\ run' = [NoRun EXCEPT !.pc = "scan", !.cmd = "all", !.todo = Places]
    /\ UNCHANGED <<file, blob, timed, edits, faults>>

\* Only regular files that look like a credential are offered.
Flagged(x) == file[x] \in Plain /\ file[x].c \in Secret

Scan(x) ==
    /\ run.pc = "scan" /\ x \in run.todo
    /\ run' = [run EXCEPT !.todo = @ \ {x}, !.found = IF Flagged(x) THEN @ \cup {x} ELSE @]
    /\ UNCHANGED <<file, blob>> /\ Same

\* The list is on screen: the user lets it be, or it is encrypted.
Scanned ==
    /\ run.pc = "scan" /\ run.todo = {}
    /\ \/ run' = [run EXCEPT !.pc = "next", !.todo = run.found]
       \/ Goto("stopped")
    /\ UNCHANGED <<file, blob>> /\ Same

\* One candidate: it is named, asked about, and encrypted or passed over.
Consider(x) ==
    /\ run.pc = "next" /\ x \in run.todo
    /\ \/ /\ NameOf[x] # None
          /\ run' = [run EXCEPT !.todo = @ \ {x}, !.pc = "read", !.at = x, !.name = NameOf[x]]
       \/ run' = [run EXCEPT !.todo = @ \ {x}, !.skipped = @ \cup {x}]
    /\ UNCHANGED <<file, blob>> /\ Same

AllConsidered ==
    /\ run.pc = "next" /\ run.todo = {}
    /\ Goto("done")
    /\ UNCHANGED <<file, blob>> /\ Same

\* A cancelled run stops between two files.
Cancel ==
    /\ run.pc = "next" /\ run.todo # {}
    /\ Goto("stopped")
    /\ UNCHANGED <<file, blob>> /\ Same

\* Mutant: a file that could not be read is neither stored nor skipped.
NotStoredSilently ==
    run' = IF run.cmd = "all" THEN [run EXCEPT !.pc = "next"] ELSE [run EXCEPT !.pc = "stopped"]

\* A file that cannot be read ends enc, and is passed over by a whole run.
NotStored ==
    run' = IF run.cmd = "all" THEN [run EXCEPT !.pc = "next", !.skipped = @ \cup {run.at}]
                              ELSE [run EXCEPT !.pc = "stopped"]

\* The content is read by name, and so, later, is the mode.
ReadSource ==
    /\ run.pc = "read"
    /\ IF Regular(run.at)
       THEN run' = [run EXCEPT !.pc = "stat", !.env = file[Resolve(run.at)], !.raced = FALSE]
       ELSE NotStored
    /\ UNCHANGED <<file, blob>> /\ Same

\* Mutant: the mode is not asked of the file but of where the store had it from.
StatStored ==
    /\ run.pc = "stat"
    /\ IF Regular(run.at)
       THEN run' = [run EXCEPT !.pc = "put",
                        !.env.m = IF blob[run.name] # None THEN blob[run.name].m
                                  ELSE file[Resolve(run.at)].m]
       ELSE NotStored
    /\ UNCHANGED <<file, blob>> /\ Same

StatSource ==
    /\ run.pc = "stat"
    /\ IF Regular(run.at)
       THEN run' = [run EXCEPT !.pc = "put", !.env.m = file[Resolve(run.at)].m]
       ELSE NotStored
    /\ UNCHANGED <<file, blob>> /\ Same

\* The same logical path is updated in place.
Put ==
    /\ run.pc = "put"
    /\ blob' = [blob EXCEPT ![run.name] =
                   [c |-> run.env.c, m |-> run.env.m, origin |-> run.at]]
    /\ run' = IF run.cmd = "all" THEN [run EXCEPT !.pc = "next", !.stored = @ \cup {run.at}]
                                 ELSE [run EXCEPT !.pc = "done"]
    /\ UNCHANGED file /\ Same

---------------------------------------------------------------------------
\* Decrypting: to a chosen path, back to the origin, or beneath a directory.

Decrypt(cmd, label, at, n, ticked) ==
    /\ run.pc \in Over /\ runs < MaxRuns
    /\ blob[n] # None
    /\ runs' = runs + 1
    /\ run' = [NoRun EXCEPT !.pc = label, !.cmd = cmd, !.at = at, !.name = n, !.ticked = ticked,
                            !.env = [c |-> blob[n].c, m |-> blob[n].m]]
    /\ UNCHANGED <<file, blob, timed, edits, faults>>

\* dec -o, and the window's "To another path"; the box is for the other choice.
DecryptTo(n, x)            == Decrypt("out", "truncate", x, n, FALSE)
DecryptOther(n, x, ticked) == Decrypt("other", "truncate", x, n, ticked)
Restore(n, overwrite)      == blob[n] # None /\ Decrypt("restore", "look", blob[n].origin, n, overwrite)
Get(n)                     == Decrypt("get", "check", Below[n], n, FALSE)

\* Mutant: the existing file is looked for through the link.
LookThrough ==
    /\ run.pc = "look"
    /\ run' = [run EXCEPT !.pc = "ask", !.existed = file[Resolve(run.at)] # None, !.raced = FALSE]
    /\ UNCHANGED <<file, blob>> /\ Same

\* A link at the recorded place is refused; whether something is there is
\* remembered for the second question.
Look ==
    /\ run.pc = "look"
    /\ run' = IF IsLink(run.at) THEN [run EXCEPT !.pc = "stopped"]
              ELSE [run EXCEPT !.pc = "ask", !.existed = file[run.at] # None, !.raced = FALSE]
    /\ UNCHANGED <<file, blob>> /\ Same

\* --overwrite skips the second question, never the first.
NeedsConsent == run.existed /\ ~run.ticked

AskRestore ==
    /\ run.pc = "ask"
    /\ \/ Goto("stopped")
       \/ Goto(IF NeedsConsent THEN "replace" ELSE "truncate")
    /\ UNCHANGED <<file, blob>> /\ Same

AskReplace ==
    /\ run.pc = "replace"
    /\ \/ Goto("stopped")
       \/ run' = [run EXCEPT !.pc = "truncate", !.agreed = TRUE]
    /\ UNCHANGED <<file, blob>> /\ Same

\* RefuseSymlink: the only check of the leaf where there is no O_NOFOLLOW.
Check ==
    /\ run.pc = "check"
    /\ Goto(IF IsLink(run.at) THEN "stopped" ELSE "truncate")
    /\ UNCHANGED <<file, blob>> /\ Same

\* An open file keeps the mode it has; a new one gets the stored mode.
Opened(x) ==
    /\ file' = [file EXCEPT ![x] = [c |-> Torn, m |-> IF @ \in Plain THEN @.m ELSE run.env.m]]
    /\ run' = [run EXCEPT !.pc = "fill", !.fd = x, !.raced = FALSE]

\* Mutant: the open of get follows a link.
TruncateFollowing ==
    /\ run.pc = "truncate"
    /\ Opened(Resolve(run.at))
    /\ UNCHANGED blob /\ Same

\* A link is refused to get where the open can refuse one, and out of --dest; the
\* other commands follow it.
Refused ==
    run.cmd = "get" /\ IsLink(run.at) /\ (NoFollow \/ file[run.at] \notin Inside)

Truncate ==
    /\ run.pc = "truncate"
    /\ \/ ~Refused /\ Opened(Resolve(run.at))
       \/ Refused /\ Goto("stopped") /\ UNCHANGED file
    /\ UNCHANGED blob /\ Same

\* A file that was replaced while it was open is written where nobody sees it.
Fill ==
    /\ run.pc = "fill"
    /\ file' = IF run.fd # None THEN [file EXCEPT ![run.fd].c = run.env.c] ELSE file
    /\ Goto("chmod")
    /\ UNCHANGED blob /\ Same

\* Mutant: the mode is what the open was asked for.
ChmodAtOpen ==
    /\ run.pc = "chmod"
    /\ Goto(IF run.cmd = "get" THEN "times" ELSE "done")
    /\ UNCHANGED <<file, blob>> /\ Same

\* get sets the mode of the open file, the others that of the name.
Chmod ==
    /\ run.pc = "chmod"
    /\ LET x == IF run.cmd = "get" THEN run.fd ELSE Resolve(run.at)
       IN  \/ /\ x # None /\ (run.cmd # "get" => file[x] \in Plain)
              /\ file' = [file EXCEPT ![x].m = run.env.m]
              /\ Goto(IF run.cmd = "get" THEN "times" ELSE "done")
           \/ x = None /\ Goto("times") /\ UNCHANGED file
           \/ x # None /\ file[x] \notin Plain /\ Goto("stopped") /\ UNCHANGED file
    /\ UNCHANGED blob /\ Same

\* The times are set by name, which by now may be gone or lead to another file
\* beneath --dest.
Times ==
    /\ run.pc = "times"
    /\ LET x == Resolve(run.at)
       IN  \/ /\ x \in Inside /\ file[x] # None
              /\ timed' = x /\ Goto("done")
           \/ /\ x \notin Inside \/ file[x] = None
              /\ UNCHANGED timed /\ Goto("stopped")
    /\ UNCHANGED <<file, blob, runs, edits, faults>>

---------------------------------------------------------------------------
\* Others, and failures.

\* Somebody replaces a file by another, removes it, or puts a link there.
Edit(x) ==
    /\ edits < MaxEdits /\ edits' = edits + 1
    /\ \A y \in Places : file[y] # x
    /\ \/ \E new \in [c : Contents, m : Modes] : file' = [file EXCEPT ![x] = new]
       \/ file' = [file EXCEPT ![x] = None]
       \/ \E y \in Places \ {x} : file[y] \notin Places /\ file' = [file EXCEPT ![x] = y]
    /\ file' # file
    /\ run' = [run EXCEPT !.fd = IF @ = x THEN None ELSE @,
                          !.raced = @ \/ x = run.at]
    /\ UNCHANGED <<blob, timed, runs, faults>>

\* The command is killed, or its next system call fails.
Fail ==
    /\ run.pc \in Steps /\ faults < MaxFaults /\ faults' = faults + 1
    /\ \/ Goto("stopped")
       \/ run.pc \in {"read", "stat", "put"} /\ NotStored
    /\ UNCHANGED <<file, blob, timed, runs, edits>>

---------------------------------------------------------------------------
Next ==
    \/ \E x \in Places, n \in Names : Encrypt(x, n)
    \/ ScanAll \/ Scanned \/ AllConsidered \/ Cancel
    \/ \E x \in Places : Scan(x) \/ Consider(x)
    \/ ReadSource \/ StatSource \/ Put
    \/ \E x \in Places, n \in Names :
          DecryptTo(n, x) \/ \E ticked \in BOOLEAN : DecryptOther(n, x, ticked)
    \/ \E n \in Names : Get(n) \/ \E overwrite \in BOOLEAN : Restore(n, overwrite)
    \/ Look \/ AskRestore \/ AskReplace \/ Check \/ Truncate \/ Fill \/ Chmod \/ Times
    \/ \E x \in Places : Edit(x)
    \/ Fail

Spec == Init /\ [][Next]_vars

---------------------------------------------------------------------------
\* Properties.

\* What is stored is the file as it is, content and mode, though the scan, the
\* question, the read and the stat are apart, unless it changed since the read.
StoresTheFile ==
    [][Put /\ ~run.raced /\ Regular(run.at) =>
          /\ blob'[run.name].c = file[Resolve(run.at)].c
          /\ blob'[run.name].m = file[Resolve(run.at)].m]_vars

\* A run over candidates that comes to its end has stored or passed over each of
\* them, and each name it stored holds one of its files.
CandidatesAccounted ==
    (run.cmd = "all" /\ run.pc = "done") =>
        /\ run.stored \cup run.skipped = run.found
        /\ run.stored \cap run.skipped = {}
        /\ \A x \in run.stored : blob[NameOf[x]] # None /\ blob[NameOf[x]].origin \in run.stored

\* A file that was decrypted has the stored content and the stored mode, also
\* over a file that had another, unless others changed it meanwhile.
LandsAsStored ==
    (run.pc = "done" /\ run.cmd \in {"out", "other", "restore", "get"} /\ ~run.raced
       /\ \A y \in Places : ~IsLink(y)) =>
        file[run.at] = [c |-> run.env.c, m |-> run.env.m]

\* Restoring replaces no file without --overwrite or a yes to the second question,
\* also when others replaced it during the questions, unless it came there during
\* them, where none was; and it writes through no link but one that did.
ReplacesWithConsent ==
    [][(Truncate /\ run.cmd = "restore") =>
          /\ IsLink(run.at) => run.raced
          /\ file[run.at] # None =>
                run.ticked \/ run.agreed \/ (run.raced /\ ~run.existed)]_vars

\* get changes no file and no times outside --dest, whatever links others put
\* there meanwhile, and where the platform's open can refuse a link it changes
\* no file but the one it names; the times it sets may be another file's.
GetStaysInside ==
    [][(run.cmd = "get" /\ edits' = edits /\ runs' = runs) =>
          /\ \A x \in Places : file'[x] # file[x] => x \in Inside /\ (NoFollow => x = run.at)
          /\ timed' # timed => timed' \in Inside]_vars
=============================================================================
