------------------------------ MODULE MCFiles ------------------------------
\* Instances of Files for model checking.
EXTENDS Files

CONSTANTS home, dest, near, a, b

\* A file outside --dest, the place get writes to, and another beneath --dest,
\* which shares its logical path with the first.
MCPlaces == {home, dest, near}
MCInside == {dest, near}
MCNameOf == [x \in MCPlaces |-> IF x = dest THEN None ELSE a]
MCBelow  == [n \in {a, b} |-> dest]
=============================================================================
