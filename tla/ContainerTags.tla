---------------------------- MODULE ContainerTags ----------------------------
(***************************************************************************)
(* Which tag replaces the tag of a container image: the ranking and the    *)
(* choice that update_container_image_versions makes from a list of tags.  *)
(*                                                                         *)
(* What the regular expressions read from a tag is the constant Parsed.    *)
(***************************************************************************)
EXTENDS Integers, Sequences, FiniteSets

CONSTANTS
    Tags,               \* tags of the registries
    PythonRuntimes,     \* repositories of the Python runtime
    PythonPrefixes,     \* the prefixes that start with "python"
    Latest,             \* the tag "latest"
    None,               \* no tag
    Parsed,             \* [Tags -> ParsedTag]
    EndsWith,           \* [Tags -> SUBSET Tags]: the tags t such that the tag ends with "-t"
    Surround            \* [Tags -> Nat]: how much text a tag has around its version

\* prefix, version and suffix of _CONTAINER_VERSION_RE, the number of a "-p<n>"
\* suffix, the time of a RELEASE tag (each <<>> where there is none), and
\* whether the tag names no variant.
ParsedTag == [prefix : STRING, version : Seq(Nat), suffix : STRING,
              build : Seq(Nat), release : Seq(Nat), plain : BOOLEAN]

ASSUME ParsedAssumption == DOMAIN Parsed = Tags /\ \A t \in Tags : Parsed[t] \in ParsedTag
ASSUME EndsWithAssumption == EndsWith \in [Tags -> SUBSET Tags]
ASSUME NoneAssumption == None \notin Tags

Versioned(tag) == Parsed[tag].version # <<>>

ASSUME LatestAssumption == Latest \in Tags => ~Versioned(Latest)

\* In front of "-t" the expression finds either the version of t itself, with
\* more text before it, or another one, with all of "-t" after it.
ASSUME SurroundAssumption ==
    /\ Surround \in [Tags -> Nat]
    /\ \A c \in Tags : \A t \in EndsWith[c] : Surround[t] < Surround[c]
    /\ \A c, t \in Tags :
         /\ Versioned(c) /\ Versioned(t)
         /\ Parsed[c].prefix = Parsed[t].prefix /\ Parsed[c].suffix = Parsed[t].suffix
         => Surround[c] = Surround[t]

\* The first n parts of two versions are the same: v[:n] == w[:n], when w has
\* as many.
SameParts(v, w, n) == n <= Len(v) /\ \A i \in 1 .. n : v[i] = w[i]

\* Tuples of numbers in Python's order.
Precedes(v, w) ==
    \E n \in 0 .. Len(v) :
        /\ n < Len(w)
        /\ SameParts(v, w, n)
        /\ n = Len(v) \/ v[n + 1] < w[n + 1]

\* _container_tag_rank: dated releases before versions.
Rank(tag) ==
    LET p == Parsed[tag]
    IN  [kind |-> IF p.release # <<>> THEN 2 ELSE 1,
         key  |-> IF p.release # <<>> THEN p.release ELSE p.version \o p.build,
         preference |-> IF p.plain THEN 3 ELSE 2]

Lower(a, b) ==
    \/ a.kind < b.kind
    \/ a.kind = b.kind /\ Precedes(a.key, b.key)
    \/ a.kind = b.kind /\ a.key = b.key /\ a.preference < b.preference

\* _best_ranked_container_tag: the first of the highest tags of a list that
\* are among the candidates.
best_ranked_container_tag(tags, candidates) ==
    LET ranked == {i \in DOMAIN tags : tags[i] \in candidates /\ Versioned(tags[i])}
        best(i) == \A j \in ranked : ~Lower(Rank(tags[i]), Rank(tags[j]))
    IN  IF ranked = {} THEN None
        ELSE tags[CHOOSE i \in ranked : best(i) /\ \A j \in ranked : best(j) => i <= j]

\* _required_container_version_prefix: how much of the version stays; major
\* and minor version of a Python runtime, the major version of anything else.
FixedParts(repository, tag) ==
    IF /\ repository \in PythonRuntimes \/ Parsed[tag].prefix \in PythonPrefixes
       /\ Len(Parsed[tag].version) >= 2
      THEN 2
      ELSE 1

\* Variant: the suffix, the variant of the image, is not compared.
matches_container_tag_any_suffix(repository, tag, candidate) ==
    /\ Versioned(candidate)
    /\ Parsed[candidate].prefix = Parsed[tag].prefix
    /\ SameParts(Parsed[candidate].version, Parsed[tag].version, FixedParts(repository, tag))

\* Variant: a tag is not a candidate for its own succession.
matches_container_tag_but_itself(repository, tag, candidate) ==
    /\ candidate # tag
    /\ matches_container_tag_any_suffix(repository, tag, candidate)
    /\ Parsed[candidate].suffix = Parsed[tag].suffix

matches_container_tag_variant(repository, tag, candidate) ==
    /\ Versioned(candidate)
    /\ Parsed[candidate].prefix = Parsed[tag].prefix
    /\ Parsed[candidate].suffix = Parsed[tag].suffix
    /\ SameParts(Parsed[candidate].version, Parsed[tag].version, FixedParts(repository, tag))

best_same_variant_container_tag(repository, tag, tags) ==
    IF ~Versioned(tag) THEN None
    ELSE best_ranked_container_tag(
           tags, {c \in Tags : matches_container_tag_variant(repository, tag, c)})

best_pinned_floating_container_tag(tag, tags) ==
    best_ranked_container_tag(tags, {c \in Tags : tag \in EndsWith[c]})

best_compatible_container_tag(repository, tag, tags) ==
    LET versioned == best_same_variant_container_tag(repository, tag, tags)
        pinned    == best_pinned_floating_container_tag(tag, tags)
    IN  IF versioned \notin {None, tag} THEN versioned
        ELSE IF pinned # tag THEN pinned ELSE None

\* The tag to use instead of `tag`, or None.
latest_container_image_tag(repository, tag, tags) ==
    IF tag \in {None, Latest} THEN best_ranked_container_tag(tags, Tags)
    ELSE best_compatible_container_tag(repository, tag, tags)
=============================================================================
