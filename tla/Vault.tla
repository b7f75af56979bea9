------------------------------- MODULE Vault -------------------------------
(***************************************************************************)
(* What an angou store promises: at every logical path it holds one secret *)
(* or none, and nothing but a requested write or a requested removal ever  *)
(* changes that.  Rotating the identity, changing the recovery passphrase, *)
(* pruning, rebuilding the index and being killed in the middle of any of  *)
(* them are all invisible here.                                            *)
(***************************************************************************)
CONSTANTS
    Procs,      \* the processes that run commands
    Paths,      \* normalized logical paths
    Contents,   \* what a secret can hold
    None        \* "no secret here", which is not in Contents

VARIABLES
    holds,      \* holds[path]: the secret at path, or None
    asked       \* asked[p]: what p's running command may still do

vaultVars == <<holds, asked>>

\* One effect: from now on `path` holds `secret` (None: it holds nothing).
Effect == [path : Paths, secret : Contents \cup {None}]

Holding(path, secret) == [path |-> path, secret |-> secret]

VaultTypeOK ==
    /\ holds \in [Paths -> Contents \cup {None}]
    /\ asked \in [Procs -> SUBSET Effect]

VaultInit ==
    /\ holds = [path \in Paths |-> None]
    /\ asked = [p \in Procs |-> {}]

Ask(p, effects) ==
    /\ asked[p] = {}
    /\ asked' = [asked EXCEPT ![p] = effects]
    /\ UNCHANGED holds

AskPut(p) == \E path \in Paths, c \in Contents : Ask(p, {Holding(path, c)})

AskRemove(p) == \E path \in Paths : Ask(p, {Holding(path, None)})

\* A move writes what `from` holds at `to`, and only then empties `from`.
AskMove(p) ==
    \E from, to \in Paths :
        /\ from # to
        /\ holds[from] # None
        /\ Ask(p, {Holding(to, holds[from]), Holding(from, None)})

Fulfil(p) ==
    \E e \in asked[p] :
        /\ e.secret = None => \A other \in asked[p] : other.secret = None
        /\ holds' = [holds EXCEPT ![e.path] = e.secret]
        /\ asked' = [asked EXCEPT ![p] = @ \ {e}]

\* The command fails or its process dies: what is done stays done.
GiveUp(p) ==
    /\ asked' = [asked EXCEPT ![p] = {}]
    /\ UNCHANGED holds

VaultNext ==
    \E p \in Procs :
        AskPut(p) \/ AskRemove(p) \/ AskMove(p) \/ Fulfil(p) \/ GiveUp(p)

VaultSpec == VaultInit /\ [][VaultNext]_vaultVars
=============================================================================
