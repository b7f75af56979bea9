----------------------------- MODULE MCFormats -----------------------------
\* Instances of Formats for model checking.
EXTENDS Formats

\* Two numbers, and a part that is none.
MCParts == {0, 1, Word}
\* Suffixes such as "Beta", "alpha" and "beta", in the order of their bytes, of which
\* a locale puts the first between the other two.
MCPres    == 0..3
MCCollate == [p \in MCPres |-> CASE p = 0 -> 0 [] p = 1 -> 2 [] p = 2 -> 1 [] OTHER -> 3]
\* A name, the home directory, what cleaning takes out, and what the grammar refuses.
MCSegments == {"a", "nothing", ".", "..", "home", "\\", "c:"}
MCHome  == <<"home">>
=============================================================================
