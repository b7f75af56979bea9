----------------------------- MODULE MCRelease -----------------------------
\* Instances of Release for model checking.
EXTENDS Release

CONSTANTS k1, k2

MCTargets == {<<"angou", "linux">>, <<"angou-gui", "linux">>}

\* An unstamped build, two commits of version 1, and version 2.
MCTools ==
    {[ver |-> 0, rev |-> Unknown, pin |-> None],
     [ver |-> 1, rev |-> "a", pin |-> k1],
     [ver |-> 1, rev |-> "b", pin |-> k1],
     [ver |-> 2, rev |-> "c", pin |-> k1]}

\* Each build for both kinds; the GUI alone, a directory with a stale build, and
\* the CLI alone, of the commit of version 2 but built without a version.
MCDists ==
    LET cli == <<"angou", "linux">>
        gui == <<"angou-gui", "linux">>
        b(v, r) == [ver |-> v, rev |-> r]
    IN  {[t \in MCTargets |-> b(k.ver, k.rev)] : k \in MCTools}
        \cup {[t \in {gui} |-> b(2, "c")], [t \in {cli} |-> b(0, "c")],
              [t \in MCTargets |-> IF t = cli THEN b(2, "c") ELSE b(1, "a")]}
=============================================================================
