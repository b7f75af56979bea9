-------------------------- MODULE MachineInvariant --------------------------
(***************************************************************************)
(* The inductive invariant of Machine: what each step of a command may     *)
(* count on.  Much of it is conditional on nothing having gone wrong since *)
(* the command began; the rest holds whatever happens around it.           *)
(***************************************************************************)
EXTENDS Machine

\* One command at a time changes the machine's state.
OneWriter ==
    \A p, q \in Procs : job[p].cmd \in Writers /\ job[q].cmd \in Writers => p = q

\* The commands that can be at a step.
Runs(label) ==
    CASE label \in {"export", "bootSet", "bootStage"} -> {"bootstrap", "force", "windowBootstrap"}
      [] label \in {"stage", "set"} -> {"rekeyLocal"}
      [] label = "commit" -> {"bootstrap", "force", "windowBootstrap", "rekeyLocal"}
      [] label = "rotate" -> {"rekeyIdentity", "windowRotate"}
      [] label \in {"forgetRing", "forgetFile"} -> {"forget", "rekeyIdentity"}
      [] label = "hold" -> {"agent"}
      [] label \in {"unlock", "get", "read"} -> Commands
      [] OTHER -> {None}

\* A self-test is the end of a set-up; a command that opens the store to do
\* something else is none of these two.
Flow ==
    \A p \in Procs :
        /\ job[p].cmd \in Runs(pc[p])
        /\ job[p].test => /\ pc[p] \in {"get", "read"}
                          /\ job[p].cmd \in {"bootstrap", "force", "windowBootstrap", "rekeyLocal"}
        /\ pc[p] \in {"unlock", "get", "read"} /\ ~job[p].test =>
              job[p].cmd \in {"rekeyLocal", "rekeyIdentity", "windowBootstrap", "windowRotate",
                              "use", "agent"}
        /\ pc[p] = "idle" => job[p] = NoJob

\* p has the identity it will install.
Carries(p) ==
    \/ pc[p] \in {"stage", "set", "bootSet", "bootStage", "commit"}
    \/ pc[p] = "export" /\ job[p].cmd = "windowBootstrap"

\* A drawn passphrase is a real one, and there is one left for who has to draw.
Drawing ==
    \A p \in Procs :
        /\ pc[p] \in {"stage", "bootSet", "bootStage", "set", "commit", "forgetRing"} => job[p].key \in Keys
        /\ Carries(p) => job[p].key \in Keys
        /\ pc[p] \in {"bootSet", "bootStage", "set", "commit"} => job[p].secret \in Secrets
        /\ \/ pc[p] \in {"export", "stage"}
           \/ pc[p] \in {"unlock", "get", "read"} /\ job[p].cmd \in {"rekeyLocal", "windowBootstrap"} /\ ~job[p].test
           => CanDraw

\* Whatever happens around it, a command that installs a local key replaces none
\* of a later identity, its replacement is on disk before it counts, and the
\* keyring entry is the new passphrase or nothing.
Installing ==
    /\ local \in LocalKey => local.key <= storeKey
    /\ \A p \in Procs :
          /\ job[p].cmd = "bootstrap" /\ pc[p] \in {"export", "bootSet"} => ~HasLocalKey
          /\ Carries(p) =>
                /\ job[p].key <= storeKey
                /\ local \in LocalKey => local.key <= job[p].key
          /\ pc[p] \in {"bootStage", "commit"} => ring[job[p].key] \in {job[p].secret, 0}
          /\ pc[p] \in {"set", "commit"} => staged = [key |-> job[p].key, secret |-> job[p].secret]

\* Nothing has gone wrong since p's command began.
Quiet(p) == events = job[p].since

\* Then the command has the identity of the store as it is, and from the moment
\* the keyring has the new passphrase it stays reachable and keeps it.
Undisturbed ==
    \A p \in Procs : Quiet(p) =>
        /\ Carries(p) => job[p].key = storeKey
        /\ pc[p] \in {"bootStage", "commit"} => ringUp /\ ring[job[p].key] = job[p].secret
        /\ job[p].test => ringUp /\ Usable
        /\ job[p].test /\ pc[p] = "read" => job[p].secret = local.secret

\* While nothing has gone wrong at all, a local key that is there opens the store,
\* outside the steps that replace or forget it.
KeyOpens ==
    events = 0 =>
        /\ local # Damaged
        /\ \/ HasLocalKey => Usable
           \/ leftBehind
           \/ \E p \in Procs : pc[p] \in {"bootStage", "commit", "forgetRing", "forgetFile"}

IInv ==
    /\ TypeOK /\ OneWriter /\ Flow /\ Drawing /\ Installing /\ Undisturbed /\ KeyOpens
    /\ \A p \in Procs : job[p].since <= events
=============================================================================
