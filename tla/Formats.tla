------------------------------ MODULE Formats ------------------------------
(***************************************************************************)
(* What angou writes as text and reads back: versions and the names of     *)
(* stashed binaries, lifetimes, logical paths, and the framing of a blob.  *)
(* Each reader is an operator on a parsed form of its input, and the       *)
(* system asks one question after another; the properties compare what two *)
(* readers say of one text, or what is read with what was written.         *)
(*                                                                         *)
(* A version is [v, num, pre]: whether a "v" stands in front, the parts    *)
(* between the dots, and what follows the first dash.  Word is a part that *)
(* is no number; a pre-release suffix is a number in the order of bytes, 0 *)
(* for none, and the user's locale may sort suffixes in another order.     *)
(***************************************************************************)
EXTENDS Integers, Sequences, FiniteSets

CONSTANTS
    Parts,        \* what stands between two dots: numbers, and Word
    MaxParts,     \* bound: parts of a version where two are compared
    MaxOrdered,   \* bound: parts of a version where three are
    Pres,         \* pre-release suffixes, 0 for none
    Collate,      \* Collate[p]: the rank of suffix p in the user's locale
    Second, Hour, \* in ticks of the clock; a day is two hours and a week three days
    Word64,       \* the largest signed integer
    Bytes,        \* what a payload is made of, the delimiters among it
    MaxPayload,   \* bound: length of a payload
    Segments,     \* what stands between two slashes
    MaxSegments,  \* bound: segments of a path
    Home          \* the home directory, as segments

Word == -1
NL   == "nl"

ASSUME FormatsConstants ==
    /\ Parts \subseteq Nat \cup {Word} /\ Pres \subseteq Nat
    /\ Collate \in [Pres -> Nat]
    /\ Second \in Nat \ {0} /\ Hour \in Nat \ {0} /\ Word64 \in Nat
    /\ MaxParts \in Nat /\ MaxOrdered \in 1..MaxParts
    /\ MaxPayload \in Nat /\ MaxSegments \in Nat
    /\ Home \in Seq(Segments)

VARIABLE asked    \* the question put last

UpTo(S, least, most) == UNION {[1..n -> S] : n \in least..most}

Version(parts) == [v : BOOLEAN, num : UpTo(Parts, 1, parts), pre : Pres]

---------------------------------------------------------------------------
\* Versions (release.CompareVersions and the installers).

\* splitVersion: the numbers up to the first part that is none.
Numbers(a) ==
    LET stops == {i \in DOMAIN a.num : a.num[i] = Word}
    IN  IF stops = {} THEN a.num
        ELSE SubSeq(a.num, 1, (CHOOSE i \in stops : \A j \in stops : i <= j) - 1)

At(s, i) == IF i \in DOMAIN s THEN s[i] ELSE 0

\* Mutant: only the parts both versions have are compared.
ComparedParts(s, t) == {i \in DOMAIN s \cap DOMAIN t : s[i] # t[i]}

Differ(s, t) == {i \in DOMAIN s \cup DOMAIN t : At(s, i) # At(t, i)}

\* A release outranks its pre-releases, and Go compares their bytes.
PreGreater(p, q) == p # q /\ (p = 0 \/ (q # 0 /\ p > q))

CompareVersions(a, b) ==
    LET s == Numbers(a)
        t == Numbers(b)
        d == Differ(s, t)
        i == CHOOSE j \in d : \A k \in d : j <= k
    IN  IF d # {} THEN (IF At(s, i) < At(t, i) THEN -1 ELSE 1)
        ELSE IF PreGreater(a.pre, b.pre) THEN 1
        ELSE IF PreGreater(b.pre, a.pre) THEN -1 ELSE 0

\* Part i as cut -d. -f sees it: a text without a dot is every part, and what is
\* not all digits counts as 0, a leading "v" making the first part so.
ShellPart(a, i) ==
    LET n == IF Len(a.num) = 1 THEN 1 ELSE i
        part == At(a.num, n)
    IN  IF part = Word \/ (a.v /\ n = 1) THEN 0 ELSE part

\* bootstrap.ps1 counts missing parts as 0.
WindowsPart(a, i) ==
    LET part == At(a.num, i)
    IN  IF part = Word \/ (a.v /\ i = 1) THEN 0 ELSE part

Four(Part(_, _), a) == [i \in 1..4 |-> Part(a, i)]

\* The shell has no order of strings and asks sort, which falls back to bytes
\* for what the locale ranks alike.
SortsAfter(p, q) == Collate[p] > Collate[q] \/ (Collate[p] = Collate[q] /\ p > q)

ShellPreGreater(p, q) == p # q /\ (p = 0 \/ (q # 0 /\ SortsAfter(p, q)))

\* bootstrap.ps1 compares code units, which are the bytes of an ASCII suffix.
WindowsPreGreater(p, q) ==
    \/ p = 0 /\ q # 0
    \/ p # 0 /\ q # 0 /\ p > q

\* Mutant: the loop stops at the minor version.
GreaterOfTwo(s, t, pre) ==
    LET d == {i \in 1..2 : s[i] # t[i]}
        i == CHOOSE j \in d : \A k \in d : j <= k
    IN  IF d # {} THEN s[i] > t[i] ELSE pre

\* Four parts, then what the suffixes say.
Greater(s, t, pre) ==
    LET d == {i \in 1..4 : s[i] # t[i]}
        i == CHOOSE j \in d : \A k \in d : j <= k
    IN  IF d # {} THEN s[i] > t[i] ELSE pre

\* version_gt, and Test-VersionGreater.
ShellGreater(a, b) ==
    Greater(Four(ShellPart, a), Four(ShellPart, b), ShellPreGreater(a.pre, b.pre))
WindowsGreater(a, b) ==
    Greater(Four(WindowsPart, a), Four(WindowsPart, b), WindowsPreGreater(a.pre, b.pre))

\* What a VERSION file holds: numbers with at least one dot, and no "v".
IsReleaseVersion(a) ==
    ~a.v /\ Len(a.num) \in 2..4 /\ \A i \in DOMAIN a.num : a.num[i] # Word

---------------------------------------------------------------------------
\* The name of a stashed binary: kind-os-arch-version.

\* The version may hold dashes; the kinds overlap: angou and angou-gui.
BinaryName(kind, os, arch, version) == kind \o <<os, arch>> \o version

KindOf(name) ==
    IF Len(name) >= 2 /\ name[2] = "gui" THEN <<"angou", "gui">> ELSE <<"angou">>

ParseBinaryName(name) ==
    LET kind == KindOf(name)
        rest == SubSeq(name, Len(kind) + 1, Len(name))
    IN  [ok |-> Len(rest) >= 3, kind |-> kind, os |-> At(rest, 1), arch |-> At(rest, 2),
         version |-> SubSeq(rest, 3, Len(rest))]

---------------------------------------------------------------------------
\* Lifetimes (cli/duration.go), in a word of its own width.

Wrap(n) == ((n + Word64 + 1) % (2 * (Word64 + 1))) - (Word64 + 1)

Unit == [s |-> Second, h |-> Hour]
Hours == [d |-> 2, w |-> 6]

\* time.ParseDuration refuses what does not fit.
ParseStandard(n, unit) ==
    LET ticks == n * Unit[unit]
    IN  IF ticks > Word64 \/ ticks < -Word64 THEN 0 ELSE ticks

\* A number without a unit, "none" here, is a number of seconds.
Ticks(n, unit) ==
    CASE unit = "none" -> Wrap(n * Second)
      [] unit \in DOMAIN Hours -> ParseStandard(Wrap(n * Hours[unit]), "h")
      [] OTHER -> ParseStandard(n, unit)

\* Mutant: the sign is checked where the standard parser was used.
ParseDurationUnchecked(n, unit) ==
    [ok |-> unit = "none" \/ Ticks(n, unit) > 0, ticks |-> Ticks(n, unit)]

\* Nothing that is not positive is a lifetime.
ParseDuration(n, unit) == [ok |-> Ticks(n, unit) > 0, ticks |-> Ticks(n, unit)]

---------------------------------------------------------------------------
\* Logical paths: segments, and whether the text is absolute.

\* What the grammar refuses in a segment: nothing, ".", "..", and "c:", a
\* backslash and a control character, "\\" here.
BadSegment(s, i) == s[i] \in {"nothing", ".", "..", "\\"} \/ (i = 1 /\ s[i] = "c:")

NormalizePath(path) ==
    [ok |-> path.rel /\ path.seg # <<>> /\ \A i \in DOMAIN path.seg : ~BadSegment(path.seg, i),
     seg |-> path.seg]

IsBelow(dir, seg) == Len(seg) >= Len(dir) /\ SubSeq(seg, 1, Len(dir)) = dir

\* filepath.Abs cleans an absolute path, segment by segment.
Cleaned(done, s) ==
    CASE s \in {"nothing", "."} -> done
      [] s = ".." -> SubSeq(done, 1, Len(done) - 1)
      [] OTHER -> Append(done, s)

Clean(seg) ==
    LET Fold[i \in 0..Len(seg)] == IF i = 0 THEN <<>> ELSE Cleaned(Fold[i - 1], seg[i])
    IN  Fold[Len(seg)]

\* Mutant: a file is stored under its own name.
DefaultBaseName(path) ==
    [rel |-> TRUE, seg |-> IF path.seg = <<>> THEN <<>> ELSE <<path.seg[Len(path.seg)]>>]

\* An absolute path is taken from the home directory where it is below it, and
\* from the root elsewhere; the home directory itself is ".".
DefaultLogicalPath(path) ==
    LET abs == Clean(path.seg)
        rest == SubSeq(abs, Len(Home) + 1, Len(abs))
    IN  IF path.rel THEN path
        ELSE IF ~IsBelow(Home, abs) THEN [rel |-> TRUE, seg |-> abs]
        ELSE [rel |-> TRUE, seg |-> IF rest = <<>> THEN <<".">> ELSE rest]

Path == [rel : BOOLEAN, seg : UpTo(Segments, 0, MaxSegments)]

---------------------------------------------------------------------------
\* The container: a header, an empty line, the payload, and the closing line.

Encodings == {"armor", "binary"}

\* Mutant: the separator is left out after a payload that ends in a newline.
MarshalIfNeeded(payload, encoding) ==
    <<"begin", NL, "format", NL, encoding, NL, NL>> \o payload
        \o (IF payload # <<>> /\ payload[Len(payload)] = NL THEN <<>> ELSE <<NL>>)
        \o <<"end", NL>>

Marshal(payload, encoding) ==
    <<"begin", NL, "format", NL, encoding, NL, NL>> \o payload \o <<NL, "end", NL>>

Refused == [ok |-> FALSE, payload |-> <<>>, encoding |-> "none"]

\* The header ends at the first empty line, the payload at the last closing line,
\* one newline before it taken off; the header holds its two fields and no other.
Unmarshal(raw) ==
    LET body  == SubSeq(raw, 3, Len(raw))
        seps  == {i \in 1..(Len(body) - 1) : body[i] = NL /\ body[i + 1] = NL}
        sep   == CHOOSE i \in seps : \A j \in seps : i <= j
        head  == {body[i] : i \in 1..(sep - 1)} \ {NL}
        rest  == SubSeq(body, sep + 2, Len(body))
        ends  == {i \in DOMAIN rest : rest[i] = "end"}
        end   == CHOOSE i \in ends : \A j \in ends : i >= j
    IN  IF /\ Len(raw) >= 2 /\ raw[1] = "begin" /\ raw[2] = NL
           /\ seps # {} /\ ends # {}
           /\ end > 1 /\ rest[end - 1] = NL
           /\ \E e \in Encodings : head = {"format", e}
        THEN [ok |-> TRUE, payload |-> SubSeq(rest, 1, end - 2),
              encoding |-> CHOOSE e \in Encodings : e \in head]
        ELSE Refused

---------------------------------------------------------------------------
\* The questions.

Init == asked = [about |-> "nothing"]

AskTwoVersions ==
    \E a, b \in Version(MaxParts) : asked' = [about |-> "two", a |-> a, b |-> b]

AskThreeVersions ==
    \E a, b, c \in Version(MaxOrdered) : asked' = [about |-> "three", a |-> a, b |-> b, c |-> c]

AskName ==
    \E kind \in {<<"angou">>, <<"angou", "gui">>}, os \in {"linux", "angou"},
       version \in UpTo({"1", "gui", "linux"}, 1, 2) :
        asked' = [about |-> "name", kind |-> kind, os |-> os, version |-> version]

AskDuration ==
    \E n \in (-Word64)..Word64, unit \in {"none", "s", "h", "d", "w"} :
        asked' = [about |-> "duration", n |-> n, unit |-> unit]

AskPaths ==
    \E p, q \in Path : asked' = [about |-> "paths", p |-> p, q |-> q]

AskBlob ==
    \E payload \in UpTo(Bytes, 0, MaxPayload), encoding \in Encodings :
        asked' = [about |-> "blob", payload |-> payload, encoding |-> encoding]

Next ==
    /\ asked.about = "nothing"
    /\ AskTwoVersions \/ AskThreeVersions \/ AskName \/ AskDuration \/ AskPaths \/ AskBlob

Spec == Init /\ [][Next]_asked

---------------------------------------------------------------------------
\* Properties.

\* The floor, retention and the listing sort by CompareVersions: any versions,
\* well formed or not, are ordered by it, so none of these depends on the order
\* in which they meet them.
VersionsAreOrdered ==
    asked.about = "three" =>
        LET a == asked.a
            b == asked.b
            c == asked.c
        IN  /\ CompareVersions(a, b) = -CompareVersions(b, a)
            /\ (CompareVersions(a, b) >= 0 /\ CompareVersions(b, c) >= 0) =>
                  /\ CompareVersions(a, c) >= 0
                  /\ CompareVersions(a, c) = 0 =>
                        CompareVersions(a, b) = 0 /\ CompareVersions(b, c) = 0

\* The locale puts two suffixes as their bytes do, or one of the two is none.
SortedAsBytes(p, q) == p = 0 \/ q = 0 \/ (SortsAfter(p, q) <=> p > q)

\* The installers, which choose a binary before there is an angou to ask, agree
\* with CompareVersions on the versions releases are given: bootstrap.ps1 always,
\* bootstrap.sh where the user's locale does not put two suffixes the other way.
InstallersAgree ==
    (asked.about = "two" /\ IsReleaseVersion(asked.a) /\ IsReleaseVersion(asked.b)) =>
        LET newer == CompareVersions(asked.a, asked.b) = 1
        IN  /\ WindowsGreater(asked.a, asked.b) = newer
            /\ SortedAsBytes(asked.a.pre, asked.b.pre) => ShellGreater(asked.a, asked.b) = newer

\* A lifetime that is accepted is positive and, where no multiplication leaves
\* the word, is what was asked for; what is refused was no lifetime.
LifetimeExact ==
    asked.about = "duration" =>
        LET r == ParseDuration(asked.n, asked.unit)
            hours == asked.n * (IF asked.unit \in DOMAIN Hours THEN Hours[asked.unit] ELSE 0)
            exact == CASE asked.unit = "none" -> asked.n * Second
                       [] asked.unit \in DOMAIN Hours -> hours * Hour
                       [] OTHER -> asked.n * Unit[asked.unit]
            fits == hours \in (-Word64)..Word64 /\ (asked.unit = "none" => exact \in (-Word64)..Word64)
        IN  /\ r.ok => r.ticks > 0
            /\ fits => /\ r.ok <=> exact \in 1..Word64
                       /\ r.ok => r.ticks = exact

\* Two files get one name only where one is below the home directory and the
\* other is not, and the name of a file whose segments the grammar allows is valid.
NamesKeepDirectories ==
    (asked.about = "paths" /\ ~asked.p.rel /\ ~asked.q.rel) =>
        LET p == Clean(asked.p.seg)
            q == Clean(asked.q.seg)
        IN  /\ (p # q /\ DefaultLogicalPath(asked.p) = DefaultLogicalPath(asked.q)) =>
                  IsBelow(Home, p) # IsBelow(Home, q)
            /\ (p \notin {<<>>, Home} /\ \A i \in DOMAIN p : p[i] \notin {"\\", "c:"}) =>
                  NormalizePath(DefaultLogicalPath(asked.p)).ok

\* What one side writes the other reads back: a blob whatever its payload holds,
\* the delimiters included, and the parts of a stashed binary's name.
RoundTrips ==
    /\ asked.about = "blob" =>
          Unmarshal(Marshal(asked.payload, asked.encoding)) =
              [ok |-> TRUE, payload |-> asked.payload, encoding |-> asked.encoding]
    /\ asked.about = "name" =>
          ParseBinaryName(BinaryName(asked.kind, asked.os, "amd64", asked.version)) =
              [ok |-> TRUE, kind |-> asked.kind, os |-> asked.os, arch |-> "amd64",
               version |-> asked.version]
=============================================================================
