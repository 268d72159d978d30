------------------------ MODULE ContainerImagesProofs ------------------------
(***************************************************************************)
(* Theorems about ContainerImages for every set of repositories, tags and  *)
(* files, any number of pages, runs and publications.                      *)
(***************************************************************************)
EXTENDS ContainerImages, SequenceTheorems, WellFoundedInduction, TLAPS

-----------------------------------------------------------------------------
(* Bounded induction and least elements.                                   *)

LEMMA LeastElement ==
  ASSUME NEW S, S \subseteq Nat, S # {}
  PROVE  \E least \in S : \A n \in S : least <= n
<1> DEFINE R == OpToRel(<, Nat)
<1>1. PICK least \in S : \A n \in S : ~(<<n, least>> \in R)
  <2>1. IsWellFoundedOn(R, Nat)
    BY NatLessThanWellFounded
  <2> HIDE DEF R
  <2> QED
    BY <2>1, WFMin
<1>2. \A n \in S : <<n, least>> \in Nat \X Nat
  OBVIOUS
<1>3. \A n \in S : ~(n < least)
  BY <1>1, <1>2 DEF OpToRel
<1> QED
  BY <1>3

\* A set of numbers with 0 and with the successor of each of its members
\* below N has all numbers up to N.
LEMMA BoundedInduction ==
  ASSUME NEW N \in Nat, NEW S, 0 \in S, \A n \in 1 .. N : n - 1 \in S => n \in S
  PROVE  \A n \in 0 .. N : n \in S
<1> DEFINE missing == {n \in 0 .. N : n \notin S}
<1> SUFFICES ASSUME missing # {} PROVE FALSE
  OBVIOUS
<1>1. missing \subseteq Nat
  OBVIOUS
<1>2. PICK least \in missing : \A m \in missing : least <= m
  <2> HIDE DEF missing
  <2> QED
    BY <1>1, LeastElement
<1>3. least \in 1 .. N /\ least \notin S
  BY <1>2
<1>4. least - 1 \in 0 .. N /\ ~(least <= least - 1)
  BY <1>3
<1>5. least - 1 \in S
  BY <1>2, <1>4
<1> QED
  BY <1>3, <1>5

-----------------------------------------------------------------------------
(* The ranking of the tags.                                                *)

LEMMA PrecedesIsTransitive ==
  ASSUME NEW v \in Seq(Nat), NEW w \in Seq(Nat), NEW u \in Seq(Nat),
         Precedes(v, w), Precedes(w, u)
  PROVE  Precedes(v, u)
<1>1. PICK n \in 0 .. Len(v) :
        n < Len(w) /\ SameParts(v, w, n) /\ (n = Len(v) \/ v[n + 1] < w[n + 1])
  BY DEF Precedes
<1>2. PICK m \in 0 .. Len(w) :
        m < Len(u) /\ SameParts(w, u, m) /\ (m = Len(w) \/ w[m + 1] < u[m + 1])
  BY DEF Precedes
<1>3. n \in Nat /\ m \in Nat /\ Len(v) \in Nat /\ Len(w) \in Nat /\ Len(u) \in Nat
  OBVIOUS
<1>4. CASE n < m
  <2>1. SameParts(v, u, n) /\ n < Len(u) /\ w[n + 1] = u[n + 1]
    BY <1>1, <1>2, <1>3, <1>4 DEF SameParts
  <2> QED
    BY <1>1, <2>1 DEF Precedes
<1>5. CASE n = m
  <2>1. SameParts(v, u, n) /\ w[n + 1] < u[n + 1]
    BY <1>1, <1>2, <1>3, <1>5 DEF SameParts
  <2>2. w[n + 1] \in Nat /\ u[n + 1] \in Nat
    BY <1>1, <1>2, <1>3, <1>5
  <2>3. n # Len(v) => v[n + 1] \in Nat
    BY <1>3
  <2>4. n # Len(v) => v[n + 1] < u[n + 1]
    BY <1>1, <2>1, <2>2, <2>3
  <2>5. n < Len(u)
    BY <1>2, <1>5
  <2> QED
    BY <2>1, <2>4, <2>5 DEF Precedes
<1>6. CASE m < n
  <2>1. SameParts(v, u, m) /\ v[m + 1] = w[m + 1] /\ m # Len(w)
    BY <1>1, <1>2, <1>3, <1>6 DEF SameParts
  <2>2. m \in 0 .. Len(v)
    BY <1>3, <1>6
  <2> QED
    BY <1>2, <2>1, <2>2 DEF Precedes
<1> QED
  BY <1>3, <1>4, <1>5, <1>6

LEMMA PrecedesIsIrreflexive == ASSUME NEW v \in Seq(Nat) PROVE ~Precedes(v, v)
  BY DEF Precedes

LEMMA RankType ==
  ASSUME NEW t \in Tags
  PROVE  Rank(t).kind \in Nat /\ Rank(t).key \in Seq(Nat) /\ Rank(t).preference \in Nat
<1>1. Parsed[t] \in ParsedTag
  BY ParsedAssumption
<1>2. Parsed[t].version \in Seq(Nat) /\ Parsed[t].build \in Seq(Nat) /\ Parsed[t].release \in Seq(Nat)
  BY <1>1 DEF ParsedTag
<1>3. Parsed[t].version \o Parsed[t].build \in Seq(Nat)
  BY <1>2
<1> QED
  BY <1>2, <1>3 DEF Rank

\* The rank, as Python compares it, is an order.
LEMMA LowerIsTransitive ==
  ASSUME NEW s \in Tags, NEW t \in Tags, NEW u \in Tags,
         Lower(Rank(s), Rank(t)), Lower(Rank(t), Rank(u))
  PROVE  Lower(Rank(s), Rank(u))
<1> DEFINE a == Rank(s)
           b == Rank(t)
           c == Rank(u)
<1>1. /\ a.kind \in Nat /\ a.key \in Seq(Nat) /\ a.preference \in Nat
      /\ b.kind \in Nat /\ b.key \in Seq(Nat) /\ b.preference \in Nat
      /\ c.kind \in Nat /\ c.key \in Seq(Nat) /\ c.preference \in Nat
  BY RankType
<1>2. Lower(a, b) /\ Lower(b, c)
  OBVIOUS
<1>3. Precedes(a.key, b.key) /\ Precedes(b.key, c.key) => Precedes(a.key, c.key)
  BY <1>1, PrecedesIsTransitive
<1> HIDE DEF a, b, c
<1>4. Lower(a, c)
  BY <1>1, <1>2, <1>3 DEF Lower
<1> QED
  BY <1>4 DEF a, c

LEMMA LowerIsIrreflexive == ASSUME NEW t \in Tags PROVE ~Lower(Rank(t), Rank(t))
<1> DEFINE a == Rank(t)
<1>1. a.kind \in Nat /\ a.key \in Seq(Nat) /\ a.preference \in Nat
  BY RankType
<1>2. ~Precedes(a.key, a.key)
  BY <1>1, PrecedesIsIrreflexive
<1> HIDE DEF a
<1>3. ~Lower(a, a)
  BY <1>1, <1>2 DEF Lower
<1> QED
  BY <1>3 DEF a

-----------------------------------------------------------------------------
(* The choice of a tag.                                                    *)

\* The tag that is chosen from a list stands at the first of the highest places
\* of candidates; there is none only when the list has no candidate.
LEMMA BestRankedIsFirst ==
  ASSUME NEW tags \in Seq(Tags), NEW candidates,
         NEW best, best = best_ranked_container_tag(tags, candidates)
  PROVE  LET ranked == {i \in DOMAIN tags : tags[i] \in candidates /\ Versioned(tags[i])}
             best_at(i) == \A j \in ranked : ~Lower(Rank(tags[i]), Rank(tags[j]))
         IN  \/ best = None /\ ranked = {}
             \/ \E i \in ranked : /\ best_at(i) /\ \A j \in ranked : best_at(j) => i <= j
                                 /\ tags[i] = best
<1> DEFINE ranked == {i \in DOMAIN tags : tags[i] \in candidates /\ Versioned(tags[i])}
           Below(i, j) == Lower(Rank(tags[i]), Rank(tags[j]))
           highest == {i \in ranked : \A j \in ranked : ~Below(i, j)}
<1>1. CASE ranked = {}
  <2>1. best = None
    BY <1>1 DEF best_ranked_container_tag
  <2> QED
    BY <1>1, <2>1
<1>2. CASE ranked # {}
  <2>1. /\ ranked \subseteq 1 .. Len(tags) /\ Len(tags) \in Nat
        /\ \A i \in ranked : tags[i] \in Tags
    OBVIOUS
  <2>2. \A i, j, k \in ranked : Below(i, j) /\ Below(j, k) => Below(i, k)
    BY <2>1, LowerIsTransitive
  <2>3. \A i \in ranked : ~Below(i, i)
    BY <2>1, LowerIsIrreflexive
  <2>4. highest # {}
    <3> DEFINE S == {n \in 0 .. Len(tags) :
                       (\E i \in ranked : i <= n) =>
                          \E i \in ranked : i <= n /\ \A j \in ranked : j <= n => ~Below(i, j)}
    <3> HIDE DEF ranked, Below
    <3>1. 0 \in S
      BY <2>1
    <3>2. ASSUME NEW n \in 1 .. Len(tags), n - 1 \in S PROVE n \in S
      <4>1. CASE n \notin ranked
        <5>1. \A i \in ranked : i <= n <=> i <= n - 1
          BY <2>1, <4>1
        <5> QED
          BY <2>1, <3>2, <5>1
      <4>2. CASE n \in ranked /\ ~\E i \in ranked : i <= n - 1
        <5>1. \A i \in ranked : i <= n => i = n
          BY <2>1, <4>2
        <5> QED
          BY <2>1, <2>3, <4>2, <5>1
      <4>3. CASE n \in ranked /\ \E i \in ranked : i <= n - 1
        <5>1. PICK i \in ranked : i <= n - 1 /\ \A j \in ranked : j <= n - 1 => ~Below(i, j)
          BY <3>2, <4>3
        <5>2. \A j \in ranked : j <= n => j = n \/ j <= n - 1
          BY <2>1
        <5>3. CASE Below(i, n)
          <6>1. \A j \in ranked : j <= n => ~Below(n, j)
            BY <2>2, <2>3, <4>3, <5>1, <5>2, <5>3
          <6> QED
            BY <2>1, <4>3, <6>1
        <5>4. CASE ~Below(i, n)
          <6>1. \A j \in ranked : j <= n => ~Below(i, j)
            BY <5>1, <5>2, <5>4
          <6>2. i <= n
            BY <2>1, <5>1
          <6> QED
            BY <6>1, <6>2
        <5> QED
          BY <5>3, <5>4
      <4> QED
        BY <4>1, <4>2, <4>3
    <3>3. Len(tags) \in S
      <4> HIDE DEF S
      <4>1. \A n \in 0 .. Len(tags) : n \in S
        BY <2>1, <3>1, <3>2, BoundedInduction
      <4> QED
        BY <2>1, <4>1
    <3>4. PICK i \in ranked : \A j \in ranked : j <= Len(tags) => ~Below(i, j)
      BY <1>2, <2>1, <3>3
    <3> QED
      BY <2>1, <3>4
  <2>5. PICK first \in highest : \A i \in highest : first <= i
    <3>1. highest \subseteq Nat
      BY <2>1
    <3> HIDE DEF highest
    <3> QED
      BY <2>4, <3>1, LeastElement
  <2> DEFINE chosen == CHOOSE i \in ranked : /\ \A j \in ranked : ~Below(i, j)
                                             /\ \A j \in ranked : (\A k \in ranked : ~Below(j, k)) => i <= j
  <2>6. /\ chosen \in ranked /\ \A j \in ranked : ~Below(chosen, j)
        /\ \A j \in ranked : (\A k \in ranked : ~Below(j, k)) => chosen <= j
    <3> HIDE DEF ranked, Below
    <3> QED
      BY <2>5
  <2>7. best = tags[chosen]
    BY <1>2 DEF best_ranked_container_tag
  <2> HIDE DEF chosen
  <2> QED
    BY <2>6, <2>7
<1> QED
  BY <1>1, <1>2

\* No other candidate of the list ranks above the tag that is chosen.
LEMMA BestRankedIsHighest ==
  ASSUME NEW tags \in Seq(Tags), NEW candidates,
         NEW best, best = best_ranked_container_tag(tags, candidates)
  PROVE  \/ /\ best = None
            /\ \A i \in DOMAIN tags : ~(tags[i] \in candidates /\ Versioned(tags[i]))
         \/ /\ best \in Tags /\ best \in candidates /\ Versioned(best)
            /\ \E i \in DOMAIN tags : tags[i] = best
            /\ \A i \in DOMAIN tags : tags[i] \in candidates /\ Versioned(tags[i]) =>
                 ~Lower(Rank(best), Rank(tags[i]))
<1>1. \A i \in DOMAIN tags : tags[i] \in Tags
  OBVIOUS
<1> QED
  BY <1>1, BestRankedIsFirst

\* A lookup answers with a tag of the registry or with nothing.
LEMMA LatestTagType ==
  ASSUME NEW repository, NEW tag \in Tags \cup {None}, NEW tags \in Seq(Tags)
  PROVE  latest_container_image_tag(repository, tag, tags) \in Tags \cup {None}
<1>1. \A candidates : best_ranked_container_tag(tags, candidates) \in Tags \cup {None}
  BY BestRankedIsHighest
<1> HIDE DEF best_ranked_container_tag
<1> QED
  BY <1>1 DEF latest_container_image_tag, best_compatible_container_tag,
       best_same_variant_container_tag, best_pinned_floating_container_tag

\* A tag that is on the list is replaced by an upgrade or not at all.
LEMMA ListedTagIsUpgraded ==
  ASSUME NEW repository, NEW tag \in Tags, tag # Latest, NEW tags \in Seq(Tags),
         NEW place \in DOMAIN tags, tags[place] = tag,
         NEW new, new = latest_container_image_tag(repository, tag, tags), new # None
  PROVE  IsUpgrade(repository, tag, new)
<1> DEFINE versioned == best_same_variant_container_tag(repository, tag, tags)
           pinned    == best_pinned_floating_container_tag(tag, tags)
           variants  == {c \in Tags : matches_container_tag_variant(repository, tag, c)}
<1>1. tag # None
  BY NoneAssumption
<1>2. new = IF versioned \notin {None, tag} THEN versioned
            ELSE IF pinned # tag THEN pinned ELSE None
  BY <1>1 DEF latest_container_image_tag, best_compatible_container_tag
<1>3. CASE versioned \notin {None, tag}
  <2>1. Versioned(tag) /\ new = best_ranked_container_tag(tags, variants)
    BY <1>2, <1>3 DEF best_same_variant_container_tag
  <2>2. /\ new \in variants /\ Versioned(new)
        /\ \A i \in DOMAIN tags : tags[i] \in variants /\ Versioned(tags[i]) =>
             ~Lower(Rank(new), Rank(tags[i]))
    <3> HIDE DEF variants
    <3> QED
      BY <2>1, <1>2, <1>3, BestRankedIsHighest
  <2>3. /\ Parsed[tag] \in ParsedTag /\ Parsed[new] \in ParsedTag
        /\ Parsed[tag].version \in Seq(Nat) /\ Parsed[new].version \in Seq(Nat)
    BY <2>2, ParsedAssumption DEF ParsedTag
  <2>4. Len(Parsed[tag].version) >= 1
    BY <2>1, <2>3 DEF Versioned
  <2>5. SameParts(Parsed[tag].version, Parsed[tag].version, FixedParts(repository, tag))
    BY <2>3, <2>4 DEF SameParts, FixedParts
  <2>6. tag \in variants
    BY <2>1, <2>5 DEF matches_container_tag_variant
  <2>7. ~Lower(Rank(new), Rank(tag))
    BY <2>1, <2>2, <2>6
  <2>8. /\ Parsed[new].prefix = Parsed[tag].prefix /\ Parsed[new].suffix = Parsed[tag].suffix
        /\ SameParts(Parsed[new].version, Parsed[tag].version, FixedParts(repository, tag))
    BY <2>2 DEF matches_container_tag_variant
  <2>9. FixedParts(repository, tag) \in {1, 2}
    BY DEF FixedParts
  <2>10. Parsed[new].version[1] = Parsed[tag].version[1]
    BY <2>8, <2>9 DEF SameParts
  <2>11. repository \in PythonRuntimes /\ Len(Parsed[tag].version) >= 2 =>
           Parsed[new].version[2] = Parsed[tag].version[2]
    BY <2>8 DEF SameParts, FixedParts
  <2> QED
    BY <2>1, <2>2, <2>7, <2>8, <2>10, <2>11 DEF IsUpgrade
<1>4. CASE versioned \in {None, tag}
  <2>1. new = pinned
    BY <1>2, <1>4
  <2>2. new \in {c \in Tags : tag \in EndsWith[c]}
    BY <2>1, BestRankedIsHighest DEF best_pinned_floating_container_tag
  <2> QED
    BY <2>2 DEF IsUpgrade
<1> QED
  BY <1>3, <1>4

-----------------------------------------------------------------------------
(* Chains of choices.                                                      *)

LEMMA PrecedesIsTotal ==
  ASSUME NEW v \in Seq(Nat), NEW w \in Seq(Nat)
  PROVE  v = w \/ Precedes(v, w) \/ Precedes(w, v)
<1> DEFINE differ == {i \in Nat : i + 1 <= Len(v) /\ i + 1 <= Len(w) /\ v[i + 1] # w[i + 1]}
<1>1. /\ Len(v) \in Nat /\ Len(w) \in Nat
      /\ \A i \in 1 .. Len(v) : v[i] \in Nat
      /\ \A i \in 1 .. Len(w) : w[i] \in Nat
  OBVIOUS
<1>2. CASE differ # {}
  <2>1. PICK n \in differ : \A i \in differ : n <= i
    <3>1. differ \subseteq Nat
      OBVIOUS
    <3> HIDE DEF differ
    <3> QED
      BY <1>2, <3>1, LeastElement
  <2>2. n \in 0 .. Len(v) /\ n \in 0 .. Len(w) /\ n < Len(v) /\ n < Len(w)
    BY <1>1
  <2>3. \A i \in 1 .. n : v[i] = w[i]
    <3> SUFFICES ASSUME NEW i \in 1 .. n, v[i] # w[i] PROVE FALSE
      OBVIOUS
    <3>1. i - 1 \in Nat /\ (i - 1) + 1 = i /\ i <= Len(v) /\ i <= Len(w) /\ ~(n <= i - 1)
      BY <1>1, <2>2
    <3>2. i - 1 \in differ
      BY <3>1
    <3> QED
      BY <2>1, <3>1, <3>2
  <2>4. SameParts(v, w, n) /\ SameParts(w, v, n)
    BY <2>2, <2>3 DEF SameParts
  <2>5. v[n + 1] < w[n + 1] \/ w[n + 1] < v[n + 1]
    BY <1>1, <2>1, <2>2
  <2> HIDE DEF differ
  <2> QED
    BY <2>2, <2>4, <2>5 DEF Precedes
<1>3. CASE differ = {}
  <2>1. \A i \in Nat : i + 1 <= Len(v) /\ i + 1 <= Len(w) => v[i + 1] = w[i + 1]
    BY <1>3
  <2>2. \A i \in 1 .. Len(v) : i <= Len(w) => v[i] = w[i]
    <3> SUFFICES ASSUME NEW i \in 1 .. Len(v), i <= Len(w) PROVE v[i] = w[i]
      OBVIOUS
    <3>1. i - 1 \in Nat /\ (i - 1) + 1 = i /\ i <= Len(v)
      BY <1>1
    <3> QED
      BY <2>1, <3>1
  <2>3. CASE Len(v) < Len(w)
    <3>1. SameParts(v, w, Len(v))
      BY <1>1, <2>2, <2>3 DEF SameParts
    <3>2. Len(v) \in 0 .. Len(v)
      BY <1>1
    <3> QED
      BY <2>3, <3>1, <3>2 DEF Precedes
  <2>4. CASE Len(w) < Len(v)
    <3>1. SameParts(w, v, Len(w))
      BY <1>1, <2>2, <2>4 DEF SameParts
    <3>2. Len(w) \in 0 .. Len(w)
      BY <1>1
    <3> QED
      BY <2>4, <3>1, <3>2 DEF Precedes
  <2>5. CASE Len(v) = Len(w)
    BY <1>1, <2>2, <2>5, SeqEqual
  <2> QED
    BY <1>1, <2>3, <2>4, <2>5
<1> QED
  BY <1>2, <1>3

LEMMA LowerIsTotal ==
  ASSUME NEW s \in Tags, NEW t \in Tags, ~Lower(Rank(s), Rank(t)), ~Lower(Rank(t), Rank(s))
  PROVE  Rank(s) = Rank(t)
<1> DEFINE a == Rank(s)
           b == Rank(t)
<1>1. /\ a.kind \in Nat /\ a.key \in Seq(Nat) /\ a.preference \in Nat
      /\ b.kind \in Nat /\ b.key \in Seq(Nat) /\ b.preference \in Nat
  BY RankType
<1>2. a.key = b.key \/ Precedes(a.key, b.key) \/ Precedes(b.key, a.key)
  BY <1>1, PrecedesIsTotal
<1>3. /\ a = [kind |-> a.kind, key |-> a.key, preference |-> a.preference]
      /\ b = [kind |-> b.kind, key |-> b.key, preference |-> b.preference]
  BY DEF Rank
<1>4. ~Lower(a, b) /\ ~Lower(b, a)
  OBVIOUS
<1> HIDE DEF a, b
<1>5. a.kind = b.kind /\ a.key = b.key /\ a.preference = b.preference
  BY <1>1, <1>2, <1>4 DEF Lower
<1>6. a = b
  BY <1>3, <1>5
<1> QED
  BY <1>6 DEF a, b

\* What is chosen among some candidates is chosen among fewer of them too.
LEMMA BestOfFewer ==
  ASSUME NEW tags \in Seq(Tags), NEW candidates, NEW fewer, fewer \subseteq candidates,
         NEW best \in fewer, best = best_ranked_container_tag(tags, candidates), best # None
  PROVE  best_ranked_container_tag(tags, fewer) = best
<1> DEFINE Ranked(C) == {i \in DOMAIN tags : tags[i] \in C /\ Versioned(tags[i])}
           Best(C, i) == \A j \in Ranked(C) : ~Lower(Rank(tags[i]), Rank(tags[j]))
           First(C, i) == i \in Ranked(C) /\ Best(C, i) /\ \A j \in Ranked(C) : Best(C, j) => i <= j
           Chosen(C) == CHOOSE i \in Ranked(C) : Best(C, i) /\ \A j \in Ranked(C) : Best(C, j) => i <= j
<1>1. PICK i : First(candidates, i) /\ tags[i] = best
  BY BestRankedIsFirst
<1>2. Ranked(fewer) \subseteq Ranked(candidates) /\ i \in Ranked(fewer) /\ i \in Nat
  BY <1>1
<1>3. \A C : \A j \in Ranked(C) : tags[j] \in Tags /\ j \in Nat
  OBVIOUS
<1>4. First(fewer, i)
  <2>1. Best(fewer, i)
    BY <1>1, <1>2
  <2>2. ASSUME NEW j \in Ranked(fewer), Best(fewer, j) PROVE i <= j
    <3>1. Rank(tags[i]) = Rank(tags[j])
      <4>1. ~Lower(Rank(tags[i]), Rank(tags[j])) /\ ~Lower(Rank(tags[j]), Rank(tags[i]))
        BY <1>2, <2>1, <2>2
      <4> QED
        BY <1>2, <1>3, <4>1, LowerIsTotal
    <3>2. Best(candidates, j) /\ j \in Ranked(candidates)
      BY <1>1, <1>2, <3>1
    <3> QED
      BY <1>1, <3>2
  <2> QED
    BY <1>2, <2>1, <2>2
<1>5. Chosen(fewer) = i
  <2>1. First(fewer, Chosen(fewer))
    <3> HIDE DEF Ranked, Best
    <3> QED
      BY <1>4
  <2>2. Chosen(fewer) <= i /\ i <= Chosen(fewer)
    <3> HIDE DEF Ranked, Best, Chosen
    <3> QED
      BY <1>4, <2>1
  <2> HIDE DEF Best, Chosen
  <2> QED
    BY <1>2, <1>3, <2>1, <2>2
<1>6. best_ranked_container_tag(tags, fewer) = tags[Chosen(fewer)]
  BY <1>2 DEF best_ranked_container_tag
<1> QED
  BY <1>1, <1>5, <1>6

LEMMA OwnVariant ==
  ASSUME NEW repository, NEW tag \in Tags, Versioned(tag)
  PROVE  matches_container_tag_variant(repository, tag, tag)
<1>1. Parsed[tag].version \in Seq(Nat)
  BY ParsedAssumption DEF ParsedTag
<1>2. Len(Parsed[tag].version) >= 1
  BY <1>1 DEF Versioned
<1>3. SameParts(Parsed[tag].version, Parsed[tag].version, FixedParts(repository, tag))
  BY <1>1, <1>2 DEF SameParts, FixedParts
<1> QED
  BY <1>3 DEF matches_container_tag_variant

\* The two ways to a successor: the best tag of the variant, which no further
\* tag of the variant succeeds, or a tag that ends with the current one.
LEMMA SuccessorKinds ==
  ASSUME NEW repository, NEW tag \in Tags, tag # Latest, NEW tags \in Seq(Tags),
         NEW new, new = latest_container_image_tag(repository, tag, tags), new # None
  PROVE  \/ /\ Surround[new] = Surround[tag]
            /\ best_same_variant_container_tag(repository, new, tags) = new
         \/ /\ tag \in EndsWith[new]
            /\ new = best_pinned_floating_container_tag(tag, tags)
<1> DEFINE versioned == best_same_variant_container_tag(repository, tag, tags)
           pinned    == best_pinned_floating_container_tag(tag, tags)
           variants(t) == {c \in Tags : matches_container_tag_variant(repository, t, c)}
<1>1. tag # None
  BY NoneAssumption
<1>2. new = IF versioned \notin {None, tag} THEN versioned
            ELSE IF pinned # tag THEN pinned ELSE None
  BY <1>1 DEF latest_container_image_tag, best_compatible_container_tag
<1>3. CASE versioned \notin {None, tag}
  <2>1. Versioned(tag) /\ new = best_ranked_container_tag(tags, variants(tag))
    BY <1>2, <1>3 DEF best_same_variant_container_tag
  <2>2. new \in variants(tag) /\ Versioned(new) /\ new \in Tags
    <3> HIDE DEF variants
    <3> QED
      BY <2>1, <1>2, <1>3, BestRankedIsHighest
  <2>3. /\ Parsed[tag].version \in Seq(Nat) /\ Parsed[new].version \in Seq(Nat)
        /\ \A t \in Tags : Parsed[t].version \in Seq(Nat)
    BY <2>2, ParsedAssumption DEF ParsedTag
  <2>4. /\ Parsed[new].prefix = Parsed[tag].prefix /\ Parsed[new].suffix = Parsed[tag].suffix
        /\ SameParts(Parsed[new].version, Parsed[tag].version, FixedParts(repository, tag))
    BY <2>2 DEF matches_container_tag_variant
  <2>5. Surround[new] = Surround[tag]
    BY <2>1, <2>2, <2>4, SurroundAssumption
  <2>6. new \in variants(new)
    BY <2>2, OwnVariant
  <2>7. /\ FixedParts(repository, tag) \in {1, 2} /\ FixedParts(repository, new) \in {1, 2}
        /\ FixedParts(repository, tag) <= FixedParts(repository, new)
    <3>1. FixedParts(repository, tag) = 2 => Len(Parsed[new].version) >= 2
      BY <2>4 DEF SameParts
    <3> QED
      BY <2>4, <3>1 DEF FixedParts
  <2>8. variants(new) \subseteq variants(tag)
    <3> SUFFICES ASSUME NEW c \in Tags, matches_container_tag_variant(repository, new, c)
                 PROVE  matches_container_tag_variant(repository, tag, c)
      OBVIOUS
    <3>1. SameParts(Parsed[c].version, Parsed[new].version, FixedParts(repository, new))
      BY DEF matches_container_tag_variant
    <3>2. Len(Parsed[c].version) \in Nat
      BY <2>3
    <3>3. SameParts(Parsed[c].version, Parsed[tag].version, FixedParts(repository, tag))
      <4>1. \A i \in 1 .. FixedParts(repository, tag) : i \in 1 .. FixedParts(repository, new)
        BY <2>7
      <4> QED
        BY <2>4, <2>7, <3>1, <3>2, <4>1 DEF SameParts
    <3> QED
      BY <2>4, <3>3 DEF matches_container_tag_variant
  <2>9. best_ranked_container_tag(tags, variants(new)) = new
    <3> HIDE DEF variants
    <3> QED
      BY <1>2, <1>3, <2>1, <2>6, <2>8, BestOfFewer
  <2> QED
    BY <2>2, <2>5, <2>9 DEF best_same_variant_container_tag
<1>4. CASE versioned \in {None, tag}
  <2>1. new = pinned
    BY <1>2, <1>4
  <2>2. new \in {c \in Tags : tag \in EndsWith[c]}
    BY <2>1, BestRankedIsHighest DEF best_pinned_floating_container_tag
  <2> QED
    BY <2>1, <2>2
<1> QED
  BY <1>3, <1>4

\* A successor has a version and stands on the list.
LEMMA SuccessorsAreListed ==
  ASSUME NEW repository, NEW tag, NEW tags \in Seq(Tags),
         NEW new, new = latest_container_image_tag(repository, tag, tags), new # None
  PROVE  new \in Tags /\ Versioned(new) /\ \E i \in DOMAIN tags : tags[i] = new
<1>1. \A candidates, best :
        best = best_ranked_container_tag(tags, candidates) /\ best # None =>
          best \in Tags /\ Versioned(best) /\ \E i \in DOMAIN tags : tags[i] = best
  BY BestRankedIsHighest
<1>2. \E candidates : new = best_ranked_container_tag(tags, candidates)
  BY DEF latest_container_image_tag, best_compatible_container_tag,
       best_same_variant_container_tag, best_pinned_floating_container_tag
<1> QED
  BY <1>1, <1>2

\* A successor in the variant has no successor but a longer tag.
LEMMA SettledTagsArePinned ==
  ASSUME NEW repository, NEW tag \in Tags, tag # Latest, NEW tags \in Seq(Tags),
         best_same_variant_container_tag(repository, tag, tags) = tag,
         NEW new, new = latest_container_image_tag(repository, tag, tags), new # None
  PROVE  tag \in EndsWith[new]
<1>1. tag # None
  BY NoneAssumption
<1>2. new = best_pinned_floating_container_tag(tag, tags)
  BY <1>1 DEF latest_container_image_tag, best_compatible_container_tag
<1>3. new \in {c \in Tags : tag \in EndsWith[c]}
  BY <1>2, BestRankedIsHighest DEF best_pinned_floating_container_tag
<1> QED
  BY <1>3

\* What a chosen tag has for a successor: nothing, a longer tag, or, when a
\* floating name was pinned to it, one that no longer ends with that name.
LEMMA ChosenTagsRest ==
  ASSUME NEW repository, NEW tag \in Tags \cup {None}, NEW tags \in Seq(Tags),
         NEW new, new = latest_container_image_tag(repository, tag, tags), new # None,
         NEW next, next = latest_container_image_tag(repository, new, tags)
  PROVE  \/ next \in {None, new}
         \/ new \in EndsWith[next]
         \/ tag \in EndsWith[new] \ EndsWith[next]
<1> SUFFICES ASSUME next \notin {None, new}
             PROVE  new \in EndsWith[next] \/ tag \in EndsWith[new] \ EndsWith[next]
  OBVIOUS
<1> DEFINE variants == {c \in Tags : matches_container_tag_variant(repository, new, c)}
<1>1. new \in Tags /\ Versioned(new)
  BY SuccessorsAreListed
<1>2. new # Latest /\ new # None /\ new \in variants
  BY <1>1, LatestAssumption, OwnVariant
<1>3. ASSUME best_same_variant_container_tag(repository, new, tags) = new
      PROVE  new \in EndsWith[next]
  BY <1>1, <1>2, <1>3, SettledTagsArePinned
<1>4. CASE tag \in {None, Latest}
  <2>1. new = best_ranked_container_tag(tags, Tags)
    BY <1>4 DEF latest_container_image_tag
  <2>2. best_ranked_container_tag(tags, variants) = new
    <3>1. variants \subseteq Tags
      OBVIOUS
    <3> HIDE DEF variants
    <3> QED
      BY <1>2, <2>1, <3>1, BestOfFewer
  <2> QED
    BY <1>1, <1>3, <2>2 DEF best_same_variant_container_tag
<1>5. CASE tag \in Tags /\ tag # Latest
  <2>1. CASE best_same_variant_container_tag(repository, new, tags) = new
    BY <1>3, <2>1
  <2>2. CASE best_same_variant_container_tag(repository, new, tags) # new
    <3> DEFINE endings == {c \in Tags : tag \in EndsWith[c]}
    <3>1. tag \in EndsWith[new] /\ new = best_ranked_container_tag(tags, endings)
      BY <1>5, <2>2, SuccessorKinds DEF best_pinned_floating_container_tag
    <3>2. CASE best_same_variant_container_tag(repository, new, tags) = None
      <4>1. next = best_pinned_floating_container_tag(new, tags)
        BY <1>2, <3>2 DEF latest_container_image_tag, best_compatible_container_tag
      <4>2. next \in {c \in Tags : new \in EndsWith[c]}
        BY <4>1, BestRankedIsHighest DEF best_pinned_floating_container_tag
      <4> QED
        BY <4>2
    <3>3. CASE best_same_variant_container_tag(repository, new, tags) # None
      <4>1. next = best_same_variant_container_tag(repository, new, tags)
        BY <1>2, <2>2, <3>3 DEF latest_container_image_tag, best_compatible_container_tag
      <4>2. next = best_ranked_container_tag(tags, variants)
        BY <1>1, <4>1 DEF best_same_variant_container_tag
      <4>3. next \in variants /\ next \in Tags
        <5> HIDE DEF variants
        <5> QED
          BY <4>2, BestRankedIsHighest
      <4>4. ASSUME tag \in EndsWith[next] PROVE FALSE
        <5> DEFINE both == variants \cap endings
        <5>1. new \in both /\ next \in both /\ both \subseteq variants /\ both \subseteq endings
          BY <1>1, <1>2, <3>1, <4>3, <4>4
        <5> HIDE DEF variants, endings, both
        <5>2. best_ranked_container_tag(tags, both) = new
          BY <3>1, <5>1, BestOfFewer
        <5>3. best_ranked_container_tag(tags, both) = next
          BY <4>2, <5>1, BestOfFewer
        <5> QED
          BY <5>2, <5>3
      <4> QED
        BY <3>1, <4>4
    <3> QED
      BY <3>2, <3>3
  <2> QED
    BY <2>1, <2>2
<1> QED
  BY <1>4, <1>5

\* Of some of the tags of a list, one has the most text around its version.
LEMMA LongestSurround ==
  ASSUME NEW tags \in Seq(Tags), NEW some, some \subseteq {tags[i] : i \in DOMAIN tags}, some # {}
  PROVE  \E longest \in some : \A t \in some : Surround[t] <= Surround[longest]
<1> DEFINE Places(n) == {i \in 1 .. n : tags[i] \in some}
           Longest(n, i) == /\ i \in Places(n)
                            /\ \A j \in Places(n) : Surround[tags[j]] <= Surround[tags[i]]
           S == {n \in 0 .. Len(tags) : Places(n) # {} => \E i : Longest(n, i)}
<1>1. /\ Len(tags) \in Nat /\ DOMAIN tags = 1 .. Len(tags)
      /\ \A i \in DOMAIN tags : Surround[tags[i]] \in Nat
  BY SurroundAssumption
<1>2. 0 \in S
  BY <1>1
<1>3. ASSUME NEW n \in 1 .. Len(tags), n - 1 \in S, Places(n) # {} PROVE \E i : Longest(n, i)
  <2>1. /\ \A i \in Places(n) : i = n \/ i \in Places(n - 1)
        /\ Places(n - 1) \subseteq Places(n)
        /\ \A i \in Places(n) : Surround[tags[i]] \in Nat
    BY <1>1
  <2>2. Places(n - 1) # {} => \E i : Longest(n - 1, i)
    BY <1>3
  <2> HIDE DEF Places
  <2>3. CASE n \notin Places(n)
    <3>1. Places(n) = Places(n - 1)
      BY <2>1, <2>3
    <3> QED
      BY <1>3, <2>2, <3>1
  <2>4. CASE n \in Places(n) /\ Places(n - 1) = {}
    <3>1. Longest(n, n)
      BY <2>1, <2>4
    <3> QED
      BY <3>1
  <2>5. CASE n \in Places(n) /\ Places(n - 1) # {}
    <3>1. PICK i : Longest(n - 1, i)
      BY <2>2, <2>5
    <3>2. i \in Places(n)
      BY <2>1, <3>1
    <3>3. CASE Surround[tags[n]] <= Surround[tags[i]]
      <4>1. Longest(n, i)
        BY <2>1, <3>1, <3>2, <3>3
      <4> QED
        BY <4>1
    <3>4. CASE ~(Surround[tags[n]] <= Surround[tags[i]])
      <4>1. Longest(n, n)
        BY <2>1, <2>5, <3>1, <3>2, <3>4
      <4> QED
        BY <4>1
    <3> QED
      BY <3>3, <3>4
  <2> QED
    BY <2>3, <2>4, <2>5
<1>4. Len(tags) \in S
  <2>1. \A n \in 1 .. Len(tags) : n - 1 \in S => n \in S
    <3> HIDE DEF Places, Longest
    <3> QED
      BY <1>1, <1>3
  <2> HIDE DEF S
  <2>2. \A n \in 0 .. Len(tags) : n \in S
    BY <1>1, <1>2, <2>1, BoundedInduction
  <2> QED
    BY <1>1, <2>2
<1>5. Places(Len(tags)) # {}
  BY <1>1
<1>6. PICK i : Longest(Len(tags), i)
  BY <1>4, <1>5
<1>7. \A t \in some : \E j \in Places(Len(tags)) : tags[j] = t
  BY <1>1
<1> QED
  BY <1>6, <1>7

\* No tags replace each other in turn: a chain of successors lengthens the
\* text around the version at every second step at the latest.
LEMMA NoCycle ==
  ASSUME NEW repository, NEW tags \in Seq(Tags), NEW cycle \in SUBSET Tags, cycle # {},
         NEW next, \A t \in cycle : next[t] = latest_container_image_tag(repository, t, tags),
         \A t \in cycle : next[t] # None
  PROVE  \E t \in cycle : next[t] \notin cycle
<1> SUFFICES ASSUME \A t \in cycle : next[t] \in cycle PROVE FALSE
  OBVIOUS
<1> DEFINE reached == {next[t] : t \in cycle}
<1>1. \A t \in cycle : next[t] \in Tags /\ Versioned(next[t]) /\ \E i \in DOMAIN tags : tags[i] = next[t]
  BY SuccessorsAreListed
<1>2. reached \subseteq {tags[i] : i \in DOMAIN tags} /\ reached # {}
  BY <1>1
<1>3. \A t \in reached : t \in cycle /\ t \in Tags /\ t # Latest /\ next[t] \in reached
  BY <1>1, LatestAssumption
<1>4. PICK t \in reached : \A u \in reached : Surround[u] <= Surround[t]
  <2> HIDE DEF reached
  <2> QED
    BY <1>2, LongestSurround
<1> HIDE DEF reached
<1>5. \A u \in reached : u \in EndsWith[next[u]] => Surround[u] < Surround[next[u]]
  BY <1>3, SurroundAssumption
<1>6. \A u \in reached : Surround[u] \in Nat
  BY <1>3, SurroundAssumption
<1>7. t \notin EndsWith[next[t]]
  BY <1>3, <1>4, <1>5, <1>6
<1>8. /\ Surround[next[t]] = Surround[t]
      /\ best_same_variant_container_tag(repository, next[t], tags) = next[t]
  BY <1>3, <1>7, SuccessorKinds
<1>9. next[t] \in EndsWith[next[next[t]]]
  BY <1>3, <1>8, SettledTagsArePinned
<1> QED
  BY <1>3, <1>4, <1>5, <1>6, <1>8, <1>9

-----------------------------------------------------------------------------
(* The pages of a list.                                                    *)

\* The tags of the first n pages, page by page.
LEMMA FirstPagesCourse ==
  ASSUME NEW pages \in Seq(Seq(Tags))
  PROVE  /\ FirstPages(pages)[0] = <<>>
         /\ \A n \in 1 .. Len(pages) : FirstPages(pages)[n] = FirstPages(pages)[n - 1] \o pages[n]
<1> DEFINE L == Len(pages)
           Joined(before, n) == before \o pages[n]
           Defines(f, k) == f = [n \in 0 .. k |-> IF n = 0 THEN <<>> ELSE Joined(f[n - 1], n)]
           S == {k \in 0 .. L : \E f : Defines(f, k)}
           upto == CHOOSE f : Defines(f, L)
<1>1. L \in Nat /\ \A n \in 1 .. L : pages[n] \in Seq(Tags)
  BY ElementOfSeq
<1>2. 0 \in S
  <2> DEFINE f == [n \in 0 .. 0 |-> <<>>]
  <2>1. Defines(f, 0)
    OBVIOUS
  <2> HIDE DEF Defines, f
  <2> QED
    BY <1>1, <2>1
<1>3. ASSUME NEW k \in 1 .. L, k - 1 \in S PROVE k \in S
  <2>1. PICK f : Defines(f, k - 1)
    BY <1>3
  <2> DEFINE g == [n \in 0 .. k |-> IF n = k THEN Joined(f[k - 1], k) ELSE f[n]]
  <2>2. \A n \in 0 .. k - 1 : f[n] = IF n = 0 THEN <<>> ELSE Joined(f[n - 1], n)
    <3> HIDE DEF Joined
    <3> QED
      BY <2>1
  <2>3. \A n \in 0 .. k : n # k => n \in 0 .. k - 1 /\ (n # 0 => n - 1 \in 0 .. k /\ n - 1 # k)
    BY <1>1
  <2>4. k - 1 \in 0 .. k /\ k - 1 # k /\ k # 0
    BY <1>1
  <2>5. \A n \in 0 .. k : g[n] = IF n = 0 THEN <<>> ELSE Joined(g[n - 1], n)
    <3> SUFFICES ASSUME NEW n \in 0 .. k PROVE g[n] = IF n = 0 THEN <<>> ELSE Joined(g[n - 1], n)
      OBVIOUS
    <3>1. CASE n = k
      <4>1. g[n - 1] = f[k - 1] /\ g[n] = Joined(f[k - 1], k)
        BY <2>4, <3>1
      <4> QED
        BY <2>4, <3>1, <4>1
    <3>2. CASE n # k
      <4>1. g[n] = f[n] /\ (n # 0 => g[n - 1] = f[n - 1])
        BY <2>3, <3>2
      <4> QED
        BY <2>2, <2>3, <3>2, <4>1
    <3> QED
      BY <3>1, <3>2
  <2>6. Defines(g, k)
    <3>1. g = [n \in 0 .. k |-> g[n]]
      OBVIOUS
    <3> HIDE DEF g
    <3> QED
      BY <2>5, <3>1
  <2> HIDE DEF Defines, g
  <2> QED
    BY <1>1, <2>6
<1>4. L \in S
  <2> HIDE DEF S
  <2>1. \A k \in 0 .. L : k \in S
    BY <1>1, <1>2, <1>3, BoundedInduction
  <2> QED
    BY <1>1, <2>1
<1>5. Defines(upto, L)
  BY <1>4
<1>6. FirstPages(pages) = upto
  BY DEF FirstPages
<1> HIDE DEF upto
<1>7. upto[0] = <<>> /\ \A n \in 1 .. L : upto[n] = Joined(upto[n - 1], n)
  <2> HIDE DEF Joined
  <2> QED
    BY <1>1, <1>5
<1> QED
  BY <1>6, <1>7

\* The pages of a registry make one list of tags.
LEMMA WholeListType ==
  ASSUME NEW pages \in Seq(Seq(Tags)) PROVE WholeList(pages) \in Seq(Tags)
<1> DEFINE L == Len(pages)
           T == {k \in 0 .. L : FirstPages(pages)[k] \in Seq(Tags)}
<1>1. L \in Nat /\ \A n \in 1 .. L : pages[n] \in Seq(Tags)
  BY ElementOfSeq
<1>2. 0 \in T
  <2>1. <<>> \in Seq(Tags) /\ 0 \in 0 .. L
    BY <1>1, EmptySeq
  <2> QED
    BY <2>1, FirstPagesCourse
<1>3. ASSUME NEW n \in 1 .. L, n - 1 \in T PROVE n \in T
  <2>1. FirstPages(pages)[n - 1] \in Seq(Tags) /\ pages[n] \in Seq(Tags)
    BY <1>1, <1>3
  <2>2. FirstPages(pages)[n - 1] \o pages[n] \in Seq(Tags)
    BY <2>1, ConcatProperties
  <2>3. FirstPages(pages)[n] = FirstPages(pages)[n - 1] \o pages[n]
    BY FirstPagesCourse
  <2>4. n \in 0 .. L
    BY <1>1
  <2> QED
    BY <2>2, <2>3, <2>4
<1>4. L \in T
  <2> HIDE DEF T
  <2>1. \A k \in 0 .. L : k \in T
    BY <1>1, <1>2, <1>3, BoundedInduction
  <2> QED
    BY <1>1, <2>1
<1> QED
  BY <1>4 DEF WholeList

-----------------------------------------------------------------------------
(* The rewriting of a reference.                                           *)

ReplacementsType(rs) == DOMAIN rs \subseteq Refs /\ rs \in [DOMAIN rs -> Repositories \X Tags]

\* What the n-th replacement of a text makes of a reference.
Step(before, n) ==
    IF before = Longer[n] /\ before \in DOMAIN replacements THEN replacements[before] ELSE before

\* The references that `ref` goes through, from its own text to the last one.
Course(ref, after) ==
    /\ after[0] = ref
    /\ \A n \in 1 .. Len(Longer) : after[n] = Step(after[n - 1], n)
    /\ after[Len(Longer)] = Rewritten(ref)

LEMMA RewrittenHasCourse == ASSUME NEW ref PROVE \E after : Course(ref, after)
<1> DEFINE L == Len(Longer)
           Defines(f, k) == f = [n \in 0 .. k |-> IF n = 0 THEN ref ELSE Step(f[n - 1], n)]
           S == {k \in 0 .. L : \E f : Defines(f, k)}
           after == CHOOSE f : Defines(f, L)
<1>1. L \in Nat
  BY LongerAssumption
<1>2. 0 \in S
  <2> DEFINE f == [n \in 0 .. 0 |-> ref]
  <2>1. Defines(f, 0)
    OBVIOUS
  <2> HIDE DEF Defines, f
  <2> QED
    BY <1>1, <2>1
<1>3. ASSUME NEW k \in 1 .. L, k - 1 \in S PROVE k \in S
  <2>1. PICK f : Defines(f, k - 1)
    BY <1>3
  <2> DEFINE g == [n \in 0 .. k |-> IF n = k THEN Step(f[k - 1], k) ELSE f[n]]
  <2>2. \A n \in 0 .. k - 1 : f[n] = IF n = 0 THEN ref ELSE Step(f[n - 1], n)
    <3> HIDE DEF Step
    <3> QED
      BY <2>1
  <2>3. \A n \in 0 .. k : n # k => n \in 0 .. k - 1 /\ (n # 0 => n - 1 \in 0 .. k /\ n - 1 # k)
    BY <1>1
  <2>4. k - 1 \in 0 .. k /\ k - 1 # k /\ k # 0
    BY <1>1
  <2>5. \A n \in 0 .. k : g[n] = IF n = 0 THEN ref ELSE Step(g[n - 1], n)
    <3> SUFFICES ASSUME NEW n \in 0 .. k PROVE g[n] = IF n = 0 THEN ref ELSE Step(g[n - 1], n)
      OBVIOUS
    <3>1. CASE n = k
      <4>1. g[n - 1] = f[k - 1] /\ g[n] = Step(f[k - 1], k)
        BY <2>4, <3>1
      <4> QED
        BY <2>4, <3>1, <4>1
    <3>2. CASE n # k
      <4>1. g[n] = f[n] /\ (n # 0 => g[n - 1] = f[n - 1])
        BY <2>3, <3>2
      <4> QED
        BY <2>2, <2>3, <3>2, <4>1
    <3> QED
      BY <3>1, <3>2
  <2>6. Defines(g, k)
    <3>1. g = [n \in 0 .. k |-> g[n]]
      OBVIOUS
    <3> HIDE DEF g
    <3> QED
      BY <2>5, <3>1
  <2> HIDE DEF Defines, g
  <2> QED
    BY <1>1, <2>6
<1>4. L \in S
  <2> HIDE DEF S
  <2>1. \A k \in 0 .. L : k \in S
    BY <1>1, <1>2, <1>3, BoundedInduction
  <2> QED
    BY <1>1, <2>1
<1>5. Defines(after, L)
  BY <1>4
<1>6. Rewritten(ref) = after[L]
  BY DEF Rewritten, Step
<1> HIDE DEF after
<1>7. /\ after[0] = ref
      /\ \A n \in 1 .. L : after[n] = Step(after[n - 1], n)
  <2> HIDE DEF Step
  <2> QED
    BY <1>1, <1>5
<1> QED
  BY <1>6, <1>7 DEF Course

LEMMA RewrittenType ==
  ASSUME ReplacementsType(replacements), NEW ref \in Refs,
         \A old \in DOMAIN replacements : replacements[old][1] = old[1]
  PROVE  Rewritten(ref) \in Refs /\ Rewritten(ref)[1] = ref[1]
<1> DEFINE Kin == {r \in Refs : r[1] = ref[1]}
<1>1. PICK after : Course(ref, after)
  BY RewrittenHasCourse
<1>2. \A n, r : r \in Kin => Step(r, n) \in Kin
  <2>1. \A old \in DOMAIN replacements : replacements[old] \in Refs
    BY DEF ReplacementsType, Refs
  <2> QED
    BY <2>1 DEF Step
<1>3. Len(Longer) \in Nat
  BY LongerAssumption
<1> DEFINE S == {n \in 0 .. Len(Longer) : after[n] \in Kin}
<1>4. 0 \in S
  BY <1>1, <1>3 DEF Course
<1>5. \A n \in 1 .. Len(Longer) : n - 1 \in S => n \in S
  <2> HIDE DEF Kin
  <2> QED
    BY <1>1, <1>2, <1>3 DEF Course
<1>6. Len(Longer) \in S
  <2> HIDE DEF S
  <2>1. \A n \in 0 .. Len(Longer) : n \in S
    BY <1>3, <1>4, <1>5, BoundedInduction
  <2> QED
    BY <1>3, <2>1
<1> QED
  BY <1>1, <1>6 DEF Course

\* A reference without a replacement stays.
LEMMA RewrittenStays ==
  ASSUME NEW ref, ref \notin DOMAIN replacements
  PROVE  Rewritten(ref) = ref
<1>1. PICK after : Course(ref, after)
  BY RewrittenHasCourse
<1>2. Len(Longer) \in Nat
  BY LongerAssumption
<1> DEFINE S == {n \in 0 .. Len(Longer) : after[n] = ref}
<1>3. 0 \in S
  BY <1>1, <1>2 DEF Course
<1>4. \A n \in 1 .. Len(Longer) : n - 1 \in S => n \in S
  BY <1>1, <1>2 DEF Course, Step
<1>5. Len(Longer) \in S
  <2> HIDE DEF S
  <2>1. \A n \in 0 .. Len(Longer) : n \in S
    BY <1>2, <1>3, <1>4, BoundedInduction
  <2> QED
    BY <1>2, <2>1
<1> QED
  BY <1>1, <1>5 DEF Course

\* A reference whose replacement has no replacement becomes its replacement.
LEMMA RewrittenOnce ==
  ASSUME NEW ref \in Refs, ref \in DOMAIN replacements,
         replacements[ref] \notin DOMAIN replacements
  PROVE  Rewritten(ref) = replacements[ref]
<1>1. PICK after : Course(ref, after)
  BY RewrittenHasCourse
<1>2. Len(Longer) \in Nat /\ DOMAIN Longer = 1 .. Len(Longer)
  BY LongerAssumption
<1>3. PICK place \in 1 .. Len(Longer) : Longer[place] = ref
  BY <1>2, LongerAssumption
<1> DEFINE new == replacements[ref]
           S == {n \in 0 .. Len(Longer) : \/ after[n] = new
                                          \/ n < place /\ after[n] = ref}
<1>4. 0 \in S
  BY <1>1, <1>2 DEF Course
<1>5. ASSUME NEW n \in 1 .. Len(Longer), n - 1 \in S PROVE n \in S
  <2>1. after[n] = Step(after[n - 1], n)
    BY <1>1 DEF Course
  <2>2. CASE after[n - 1] = new
    BY <1>2, <2>1, <2>2 DEF Step
  <2>3. CASE n - 1 < place /\ after[n - 1] = ref
    <3>1. after[n] = new \/ (after[n] = ref /\ n # place)
      BY <1>3, <2>1, <2>3 DEF Step
    <3>2. n # place => n < place
      BY <1>2, <1>3, <2>3
    <3> QED
      BY <1>2, <3>1, <3>2
  <2> QED
    BY <1>5, <2>2, <2>3
<1>6. Len(Longer) \in S
  <2> HIDE DEF S
  <2>1. \A n \in 0 .. Len(Longer) : n \in S
    BY <1>2, <1>4, <1>5, BoundedInduction
  <2> QED
    BY <1>2, <2>1
<1> QED
  BY <1>1, <1>2, <1>3, <1>6 DEF Course

\* A reference that has a replacement becomes one of the replacements.
LEMMA RewrittenRange ==
  ASSUME NEW ref \in Refs, ref \in DOMAIN replacements
  PROVE  \E old \in DOMAIN replacements : Rewritten(ref) = replacements[old]
<1>1. PICK after : Course(ref, after)
  BY RewrittenHasCourse
<1>2. Len(Longer) \in Nat /\ DOMAIN Longer = 1 .. Len(Longer)
  BY LongerAssumption
<1>3. PICK place \in 1 .. Len(Longer) : Longer[place] = ref
  BY <1>2, LongerAssumption
<1> DEFINE range == {replacements[old] : old \in DOMAIN replacements}
           S == {n \in 0 .. Len(Longer) : \/ after[n] \in range
                                          \/ n < place /\ after[n] = ref}
<1>4. 0 \in S
  BY <1>1, <1>2 DEF Course
<1>5. ASSUME NEW n \in 1 .. Len(Longer), n - 1 \in S PROVE n \in S
  <2>1. after[n] = Step(after[n - 1], n)
    BY <1>1 DEF Course
  <2>2. CASE after[n - 1] \in range
    BY <1>2, <2>1, <2>2 DEF Step
  <2>3. CASE n - 1 < place /\ after[n - 1] = ref
    <3>1. after[n] \in range \/ (after[n] = ref /\ n # place)
      BY <1>3, <2>1, <2>3 DEF Step
    <3>2. n # place => n < place
      BY <1>2, <1>3, <2>3
    <3> QED
      BY <1>2, <3>1, <3>2
  <2> QED
    BY <1>5, <2>2, <2>3
<1>6. Len(Longer) \in S
  <2> HIDE DEF S
  <2>1. \A n \in 0 .. Len(Longer) : n \in S
    BY <1>2, <1>4, <1>5, BoundedInduction
  <2> QED
    BY <1>2, <2>1
<1> QED
  BY <1>1, <1>2, <1>3, <1>6 DEF Course

-----------------------------------------------------------------------------
(* A completed rewriting of the files.                                     *)

DefinitionRefsIn(fs) == UNION {fs[f] : f \in Definitions}

AlignedIn(fs) ==
    \A f \in Documents : \A ref \in fs[f] :
        \/ ref \in DefinitionRefsIn(fs)
        \/ ref[2] = None /\ \E used \in DefinitionRefsIn(fs) : used[1] = ref[1]

\* The lookups give every replacement the repository of what it replaces.
LEMMA ReplacementsFollow ==
  ASSUME images \subseteq Refs, listed \in [images -> Seq(Tags)],
         NEW new, new = container_image_replacements
  PROVE  /\ ReplacementsType(new)
         /\ \A old \in DOMAIN new :
              /\ new[old][1] = old[1]
              /\ \/ old \in Improved
                 \/ /\ old[2] = None
                    /\ <<old[1], Latest>> \in Improved
                    /\ new[old] = new[<<old[1], Latest>>]
         /\ \A old \in Improved : old \in images /\ new[old] = <<old[1], NewTag(old)>>
<1>1. \A i \in images : i = <<i[1], i[2]>> /\ i[1] \in Repositories /\ i[2] \in Tags \cup {None}
  BY DEF Refs
<1>2. \A i \in images : NewTag(i) \in Tags \cup {None}
  BY <1>1, LatestTagType DEF NewTag, Lookup
<1>3. Improved \subseteq images /\ \A i \in Improved : NewTag(i) \in Tags
  BY <1>2 DEF Improved
<1>4. \A old \in BareRefs : /\ old = <<old[1], None>> /\ old[1] \in Repositories
                            /\ <<old[1], Latest>> \in Improved /\ old \notin Improved
  <2> SUFFICES ASSUME NEW old \in BareRefs
               PROVE  /\ old = <<old[1], None>> /\ old[1] \in Repositories
                      /\ <<old[1], Latest>> \in Improved /\ old \notin Improved
    OBVIOUS
  <2>1. PICK k \in Improved : k[2] = Latest /\ old = <<k[1], None>>
    BY DEF BareRefs
  <2>2. k = <<k[1], Latest>> /\ k[1] \in Repositories
    BY <1>1, <1>3, <2>1
  <2>3. old[1] = k[1]
    BY <2>1
  <2>4. old \notin Improved
    BY DEF BareRefs
  <2> QED
    BY <2>1, <2>2, <2>3, <2>4
<1>5. \A old \in Improved \cup BareRefs : old \in Refs
  <2>1. Improved \subseteq Refs
    BY <1>3
  <2>2. \A old \in BareRefs : old \in Refs
    <3>1. \A r \in Repositories : <<r, None>> \in Refs
      BY DEF Refs
    <3> QED
      BY <1>4, <3>1
  <2> QED
    BY <2>1, <2>2
<1>6. DOMAIN new = Improved \cup BareRefs
  BY DEF container_image_replacements
<1>7. \A old \in Improved : new[old] = <<old[1], NewTag(old)>>
  BY DEF container_image_replacements
<1>8. \A old \in BareRefs : new[old] = <<old[1], NewTag(<<old[1], Latest>>)>>
  <2> SUFFICES ASSUME NEW old \in BareRefs
               PROVE  new[old] = <<old[1], NewTag(<<old[1], Latest>>)>>
    OBVIOUS
  <2>1. old \in Improved \cup BareRefs /\ old \notin Improved
    BY <1>4
  <2> HIDE DEF Improved, BareRefs, NewTag
  <2> QED
    BY <2>1 DEF container_image_replacements
<1>9. \A old \in DOMAIN new :
        new[old] \in Repositories \X Tags /\ new[old][1] = old[1]
  <2> SUFFICES ASSUME NEW old \in DOMAIN new
               PROVE  \E r \in Repositories, t \in Tags : r = old[1] /\ new[old] = <<r, t>>
    OBVIOUS
  <2>1. CASE old \in Improved
    BY <1>1, <1>3, <1>7, <2>1
  <2>2. CASE old \in BareRefs
    BY <1>3, <1>4, <1>8, <2>2
  <2> QED
    BY <1>6, <2>1, <2>2
<1>10. new \in [DOMAIN new -> Repositories \X Tags]
  <2>1. new = [old \in DOMAIN new |-> new[old]]
    BY DEF container_image_replacements
  <2> QED
    BY <1>9, <2>1
<1>11. \A old \in BareRefs : new[<<old[1], Latest>>] = new[old]
  BY <1>4, <1>7, <1>8
<1>12. \A old \in Improved : old \in images /\ new[old] = <<old[1], NewTag(old)>>
  BY <1>3, <1>7
<1>13. \A old \in DOMAIN new :
         \/ old \in Improved
         \/ /\ old[2] = None
            /\ <<old[1], Latest>> \in Improved
            /\ new[old] = new[<<old[1], Latest>>]
  <2> SUFFICES ASSUME NEW old \in BareRefs
               PROVE  /\ old[2] = None
                      /\ <<old[1], Latest>> \in Improved
                      /\ new[old] = new[<<old[1], Latest>>]
    BY <1>6
  <2> HIDE DEF BareRefs, Improved
  <2> QED
    BY <1>4, <1>11
<1>14. ReplacementsType(new)
  BY <1>5, <1>6, <1>10 DEF ReplacementsType
<1> QED
  <2> HIDE DEF Improved, NewTag
  <2> QED
    BY <1>9, <1>12, <1>13, <1>14

\* Documents that were in line with the Docker files are so when every file
\* has been rewritten.
LEMMA AlignmentSurvives ==
  ASSUME images \subseteq Refs, listed \in [images -> Seq(Tags)],
         replacements = container_image_replacements, Unchained,
         NEW before \in [Files -> SUBSET Refs], AlignedIn(before),
         images = DefinitionRefsIn(before) \ Skipped,
         NEW after, \A f \in Files : after[f] = {Rewritten(ref) : ref \in before[f]}
  PROVE  AlignedIn(after)
<1>1. /\ ReplacementsType(replacements)
      /\ \A old \in DOMAIN replacements :
           /\ replacements[old][1] = old[1]
           /\ \/ old \in Improved
              \/ /\ old[2] = None
                 /\ <<old[1], Latest>> \in Improved
                 /\ replacements[old] = replacements[<<old[1], Latest>>]
  BY ReplacementsFollow
<1>2. \A ref \in DefinitionRefsIn(before) :
        ref \in Refs /\ Rewritten(ref) \in DefinitionRefsIn(after) /\ Rewritten(ref)[1] = ref[1]
  <2> SUFFICES ASSUME NEW f \in Definitions, NEW ref \in before[f]
               PROVE  /\ ref \in Refs
                      /\ Rewritten(ref) \in DefinitionRefsIn(after) /\ Rewritten(ref)[1] = ref[1]
    BY DEF DefinitionRefsIn
  <2>1. f \in Files
    BY DEF Files
  <2>2. ref \in Refs
    BY <2>1
  <2>3. Rewritten(ref) \in after[f]
    BY <2>1
  <2>4. Rewritten(ref)[1] = ref[1]
    BY <1>1, <2>2, RewrittenType
  <2> QED
    BY <2>2, <2>3, <2>4 DEF DefinitionRefsIn
<1> SUFFICES ASSUME NEW f \in Documents, NEW ref \in before[f]
             PROVE  \/ Rewritten(ref) \in DefinitionRefsIn(after)
                    \/ /\ Rewritten(ref)[2] = None
                       /\ \E used \in DefinitionRefsIn(after) : used[1] = Rewritten(ref)[1]
  <2>1. \A d \in Documents : after[d] = {Rewritten(ref) : ref \in before[d]}
    BY DEF Files
  <2> QED
    BY <2>1 DEF AlignedIn
<1>3. ref \in Refs
  BY DEF Files
<1>4. CASE ref \in DefinitionRefsIn(before)
  BY <1>2, <1>4
<1>5. CASE ref \notin DefinitionRefsIn(before)
  <2>1. ref[2] = None /\ \E used \in DefinitionRefsIn(before) : used[1] = ref[1]
    BY <1>5 DEF AlignedIn
  <2>2. CASE ref \notin DOMAIN replacements
    <3>1. Rewritten(ref) = ref
      BY <2>2, RewrittenStays
    <3>2. PICK used \in DefinitionRefsIn(before) : used[1] = ref[1]
      BY <2>1
    <3>3. Rewritten(used) \in DefinitionRefsIn(after) /\ Rewritten(used)[1] = ref[1]
      BY <1>2, <3>2
    <3> QED
      BY <2>1, <3>1, <3>3
  <2>3. CASE ref \in DOMAIN replacements
    <3> DEFINE latest == <<ref[1], Latest>>
    <3>1. ref \notin images /\ ref \notin Improved
      BY <1>5 DEF Improved
    <3>2. latest \in Improved /\ replacements[ref] = replacements[latest]
      BY <1>1, <2>3, <3>1
    <3>3. replacements[ref] \notin DOMAIN replacements
      BY <2>1, <2>3, <3>1 DEF Unchained
    <3>4. Rewritten(ref) = replacements[ref]
      BY <1>3, <2>3, <3>3, RewrittenOnce
    <3>5. latest \in DOMAIN replacements /\ latest \in DefinitionRefsIn(before)
      BY <3>2 DEF Improved, container_image_replacements
    <3>6. Rewritten(latest) = replacements[latest]
      <4> HIDE DEF latest
      <4> QED
        BY <1>2, <3>2, <3>3, <3>5, RewrittenOnce
    <3>7. Rewritten(latest) \in DefinitionRefsIn(after)
      BY <1>2, <3>5
    <3> QED
      BY <3>2, <3>4, <3>6, <3>7
  <2> QED
    BY <2>2, <2>3
<1> QED
  BY <1>4, <1>5

AtRest(ref) ==
    LET next == latest_container_image_tag(ref[1], ref[2], WholeList(registry[ref[1]]))
    IN  \/ next \in {None, ref[2]}
        \/ ref[2] \in EndsWith[next]
        \/ \E old \in DOMAIN replacements :
             replacements[old] = ref /\ old[2] \in EndsWith[ref[2]] \ EndsWith[next]

\* When the lookups have seen the whole lists, a run that rewrites all files
\* leaves tags that the lists have nothing better for, but for the exceptions
\* that DefinitionsConverge names.
LEMMA RewrittenReferencesRest ==
  ASSUME images \subseteq Refs, listed \in [images -> Seq(Tags)],
         \A i \in images : listed[i] = WholeList(registry[i[1]]),
         replacements = container_image_replacements,
         NEW before \in [Files -> SUBSET Refs], images = DefinitionRefsIn(before) \ Skipped,
         NEW after, \A f \in Files : after[f] = {Rewritten(ref) : ref \in before[f]},
         NEW ref \in DefinitionRefsIn(after) \ Skipped
  PROVE  AtRest(ref)
<1> DEFINE next == latest_container_image_tag(ref[1], ref[2], WholeList(registry[ref[1]]))
<1> SUFFICES \/ next \in {None, ref[2]}
             \/ ref[2] \in EndsWith[next]
             \/ \E old \in DOMAIN replacements :
                  replacements[old] = ref /\ old[2] \in EndsWith[ref[2]] \ EndsWith[next]
  BY DEF AtRest
<1>1. PICK f \in Definitions : ref \in after[f]
  BY DEF DefinitionRefsIn
<1>2. PICK old \in before[f] : ref = Rewritten(old)
  BY <1>1 DEF Files
<1>3. old \in DefinitionRefsIn(before) /\ old \in Refs
  BY <1>1 DEF DefinitionRefsIn, Files
<1>4. \A i \in images :
        NewTag(i) = latest_container_image_tag(i[1], i[2], WholeList(registry[i[1]]))
  BY DEF NewTag, Lookup
<1>5. CASE old \notin DOMAIN replacements
  <2>1. ref = old /\ ref \in images
    BY <1>2, <1>3, <1>5, RewrittenStays
  <2>2. ref \notin Improved
    BY <1>5, <2>1 DEF container_image_replacements
  <2> QED
    BY <1>4, <2>1, <2>2 DEF Improved
<1>6. CASE old \in DOMAIN replacements
  <2>1. PICK any \in DOMAIN replacements : ref = replacements[any]
    BY <1>2, <1>3, <1>6, RewrittenRange
  <2>2. PICK i \in Improved : ref = replacements[i]
    <3>1. \/ any \in Improved
          \/ <<any[1], Latest>> \in Improved /\ replacements[any] = replacements[<<any[1], Latest>>]
      BY <2>1, ReplacementsFollow
    <3> QED
      BY <2>1, <3>1
  <2>3. i \in images /\ i \in DOMAIN replacements /\ ref = <<i[1], NewTag(i)>> /\ NewTag(i) # None
    BY <2>2, ReplacementsFollow DEF container_image_replacements, Improved
  <2>4. /\ ref[1] = i[1] /\ ref[2] = NewTag(i) /\ i[2] \in Tags \cup {None}
        /\ WholeList(registry[i[1]]) \in Seq(Tags)
        /\ ref[2] = latest_container_image_tag(i[1], i[2], WholeList(registry[i[1]]))
        /\ next = latest_container_image_tag(i[1], ref[2], WholeList(registry[i[1]]))
    BY <1>4, <2>3 DEF Refs
  <2>5. next \in {None, ref[2]} \/ ref[2] \in EndsWith[next] \/ i[2] \in EndsWith[ref[2]] \ EndsWith[next]
    BY <2>3, <2>4, ChosenTagsRest
  <2> QED
    BY <2>2, <2>3, <2>5
<1> QED
  BY <1>5, <1>6

-----------------------------------------------------------------------------
(* The inductive invariant.                                                *)

Pending(f) == \E i \in DOMAIN todo : todo[i] = f

\* How far a run has come: nothing is replaced before the lookups have ended,
\* and while it writes, each file is as the run found it or rewritten.
RunInv ==
    /\ pc \in {"idle", "lookup"} => replacements = <<>>
    /\ pc = "lookup" => images = DefinitionRefs \ Skipped /\ (aligned => Aligned)
    /\ pc = "write" =>
         /\ todo # <<>>
         /\ replacements = container_image_replacements
         /\ \E before \in [Files -> SUBSET Refs] :
              /\ images = DefinitionRefsIn(before) \ Skipped
              /\ aligned => AlignedIn(before)
              /\ \A f \in Files :
                   files[f] = IF Pending(f) THEN before[f] ELSE {Rewritten(ref) : ref \in before[f]}

IInv == TypeOK /\ RunInv /\ ListedTagsOnlyRise /\ DocumentsFollow

\* The files that are yet to be rewritten, at every point of the write phase.
LEMMA RemainingFiles ==
  ASSUME NEW n \in 0 .. Len(Order), todo = SubSeq(Order, n + 1, Len(Order)), todo # <<>>
  PROVE  /\ Head(todo) \in Files
         /\ n + 1 \in 0 .. Len(Order)
         /\ Tail(todo) = SubSeq(Order, (n + 1) + 1, Len(Order))
         /\ \A f : Pending(f) <=> f = Head(todo) \/ \E i \in DOMAIN Tail(todo) : Tail(todo)[i] = f
         /\ \A i \in DOMAIN Tail(todo) : Tail(todo)[i] # Head(todo)
<1>1. Order \in Seq(Files) /\ Len(Order) \in Nat /\ DOMAIN Order = 1 .. Len(Order)
  BY OrderAssumption
<1>2. \A i \in n + 1 .. Len(Order) : Order[i] \in Files
  BY <1>1
<1>3. /\ todo \in Seq(Files)
      /\ Len(todo) = IF n + 1 <= Len(Order) THEN Len(Order) - n ELSE 0
      /\ \A i \in 1 .. Len(Order) - n : todo[i] = Order[n + i]
  BY <1>1, <1>2, SubSeqProperties
<1>4. n + 1 \in 1 .. Len(Order) /\ Len(todo) = Len(Order) - n
  <2>1. Len(todo) # 0
    BY <1>3, EmptySeq
  <2>2. n + 1 <= Len(Order)
    BY <1>3, <2>1
  <2> QED
    BY <1>1, <1>3, <2>2
<1>5. /\ Head(todo) = todo[1] /\ Tail(todo) \in Seq(Files)
      /\ Len(Tail(todo)) = Len(todo) - 1
      /\ \A i \in 1 .. Len(Tail(todo)) : Tail(todo)[i] = todo[i + 1]
  BY <1>3, HeadTailProperties
<1>6. /\ DOMAIN todo = 1 .. Len(Order) - n /\ DOMAIN Tail(todo) = 1 .. (Len(Order) - n) - 1
      /\ 1 \in DOMAIN todo
      /\ \A i \in DOMAIN Tail(todo) : i + 1 \in DOMAIN todo
      /\ \A i \in DOMAIN todo : i = 1 \/ (i - 1 \in DOMAIN Tail(todo) /\ (i - 1) + 1 = i)
  BY <1>1, <1>3, <1>4, <1>5
<1>7. Tail(todo) = SubSeq(Order, (n + 1) + 1, Len(Order))
  BY <1>1, <1>4, HeadTailOfSubSeq
<1>8. \A f : Pending(f) <=> f = Head(todo) \/ \E i \in DOMAIN Tail(todo) : Tail(todo)[i] = f
  <2> SUFFICES ASSUME NEW f
               PROVE  Pending(f) <=> f = Head(todo) \/ \E i \in DOMAIN Tail(todo) : Tail(todo)[i] = f
    OBVIOUS
  <2>1. Pending(f) => f = Head(todo) \/ \E i \in DOMAIN Tail(todo) : Tail(todo)[i] = f
    <3> SUFFICES ASSUME NEW i \in DOMAIN todo, todo[i] = f, i # 1
                 PROVE  \E k \in DOMAIN Tail(todo) : Tail(todo)[k] = f
      BY <1>5 DEF Pending
    <3>1. i - 1 \in DOMAIN Tail(todo) /\ (i - 1) + 1 = i
      BY <1>6
    <3>2. Tail(todo)[i - 1] = todo[(i - 1) + 1]
      BY <1>5, <1>6, <3>1
    <3> QED
      BY <3>1, <3>2
  <2>2. f = Head(todo) => Pending(f)
    BY <1>5, <1>6 DEF Pending
  <2>3. ASSUME NEW i \in DOMAIN Tail(todo), Tail(todo)[i] = f PROVE Pending(f)
    BY <1>5, <1>6, <2>3 DEF Pending
  <2> QED
    BY <2>1, <2>2, <2>3
<1>9. ASSUME NEW i \in DOMAIN Tail(todo) PROVE Tail(todo)[i] # Head(todo)
  <2>1. Tail(todo)[i] = todo[i + 1] /\ i + 1 \in 1 .. Len(Order) - n /\ 1 \in 1 .. Len(Order) - n
    BY <1>5, <1>6, <1>9
  <2>2. Tail(todo)[i] = Order[n + (i + 1)] /\ Head(todo) = Order[n + 1]
    BY <1>3, <1>5, <2>1
  <2>3. n + (i + 1) \in DOMAIN Order /\ n + 1 \in DOMAIN Order /\ n + (i + 1) # n + 1
    BY <1>1, <1>4, <1>6, <1>9, <2>1
  <2> QED
    BY <2>2, <2>3, OrderAssumption
<1>10. Head(todo) \in Files
  BY <1>3, <1>5, <1>6, ElementOfSeq
<1>11. n + 1 \in 0 .. Len(Order)
  BY <1>1, <1>4
<1> HIDE DEF Pending
<1> QED
  BY <1>7, <1>8, <1>9, <1>10, <1>11

\* What the run has read and looked up decides its replacements and its texts.
LEMMA ReplacementsFrame ==
  ASSUME UNCHANGED <<images, listed>>
  PROVE  container_image_replacements' = container_image_replacements /\ Improved' = Improved
<1>1. \A i : NewTag(i)' = NewTag(i)
  BY DEF NewTag, Lookup
<1>2. Improved' = Improved
  <2> HIDE DEF NewTag
  <2> QED
    BY <1>1 DEF Improved
<1>3. BareRefs' = BareRefs
  BY <1>2 DEF BareRefs
<1> QED
  <2> HIDE DEF NewTag, Improved, BareRefs
  <2> QED
    BY <1>1, <1>2, <1>3 DEF container_image_replacements

LEMMA RewrittenFrame ==
  ASSUME UNCHANGED replacements, NEW ref PROVE Rewritten(ref)' = Rewritten(ref)
BY DEF Rewritten

LEMMA TypeFacts ==
  ASSUME TypeOK
  PROVE  /\ images \subseteq Refs /\ listed \in [images -> Seq(Tags)]
         /\ DefinitionRefs = DefinitionRefsIn(files) /\ DefinitionRefs \subseteq Refs
         /\ Aligned <=> AlignedIn(files)
<1>1. \A f \in Definitions : files[f] \subseteq Refs
  BY DEF TypeOK, Files
<1> QED
  BY <1>1 DEF TypeOK, DefinitionRefs, DefinitionRefsIn, Aligned, AlignedIn

LEMMA InitIInv == Init => IInv
<1> SUFFICES ASSUME Init PROVE IInv
  OBVIOUS
<1> USE DEF Init
<1>1. \A S : <<>> \in [{} -> S]
  OBVIOUS
<1>2. DOMAIN replacements = {} /\ images = {} /\ todo = <<>> /\ pc = "idle" /\ replacements = <<>>
  OBVIOUS
<1>3. registry \in [Repositories -> Seq(Seq(Tags))] /\ files \in [Files -> SUBSET Refs]
  BY PublishedAssumption, RefsAssumption
<1>4. runs \in 0 .. Runs
  BY BoundsAssumption
<1>5. \E n \in 0 .. Len(Order) : todo = SubSeq(Order, n + 1, Len(Order))
  <2>1. Order \in Seq(Files) /\ Len(Order) \in 0 .. Len(Order)
    BY OrderAssumption
  <2>2. SubSeq(Order, Len(Order) + 1, Len(Order)) = <<>>
    BY <2>1
  <2> QED
    BY <1>2, <2>1, <2>2
<1>6. TypeOK
  BY <1>1, <1>2, <1>3, <1>4, <1>5 DEF TypeOK
<1>7. RunInv /\ ListedTagsOnlyRise /\ DocumentsFollow
  BY <1>2 DEF RunInv, ListedTagsOnlyRise, DocumentsFollow
<1> QED
  BY <1>6, <1>7 DEF IInv

\* A run begins with the references that the Docker files hold.
LEMMA StartStep == IInv /\ Start => IInv'
<1> SUFFICES ASSUME IInv, Start PROVE IInv'
  OBVIOUS
<1>1. TypeOK
  BY DEF IInv
<1>2. /\ images' = DefinitionRefs \ Skipped /\ replacements' = <<>> /\ todo' = <<>>
      /\ listed' = [i \in images' |-> <<>>] /\ page' = [i \in images' |-> 1]
      /\ whole' = {} /\ fresh' = TRUE /\ aligned' = Aligned
      /\ pc' = IF images' = {} THEN "done" ELSE "lookup"
      /\ registry' = registry /\ files' = files /\ runs' = runs + 1 /\ runs < Runs
  BY DEF Start
<1>3. DefinitionRefs' = DefinitionRefs /\ Aligned' = Aligned /\ aligned' \in BOOLEAN
  BY <1>2 DEF DefinitionRefs, Aligned
<1>4. DefinitionRefs \subseteq Refs
  BY <1>1, TypeFacts
<1>5. images' \subseteq Refs \ Skipped /\ listed' \in [images' -> Seq(Tags)]
      /\ page' \in [images' -> 0 .. MaxPages]
  BY <1>2, <1>4, BoundsAssumption
<1>6. runs' \in 0 .. Runs
  BY <1>1, <1>2, BoundsAssumption DEF TypeOK
<1>7. \E n \in 0 .. Len(Order) : todo' = SubSeq(Order, n + 1, Len(Order))
  <2>1. Order \in Seq(Files) /\ Len(Order) \in 0 .. Len(Order)
    BY OrderAssumption
  <2>2. SubSeq(Order, Len(Order) + 1, Len(Order)) = <<>>
    BY <2>1
  <2> QED
    BY <1>2, <2>1, <2>2
<1>8. DOMAIN replacements' = {} /\ replacements' \in [DOMAIN replacements' -> Repositories \X Tags]
  BY <1>2
<1>9. TypeOK'
  BY <1>1, <1>2, <1>3, <1>5, <1>6, <1>7, <1>8 DEF TypeOK
<1>10. RunInv'
  BY <1>2, <1>3 DEF RunInv
<1>11. ListedTagsOnlyRise' /\ DocumentsFollow'
  BY <1>2, <1>3, <1>8 DEF ListedTagsOnlyRise, DocumentsFollow
<1> QED
  BY <1>9, <1>10, <1>11 DEF IInv

\* Lookups change neither the files nor what the run has read.
LEMMA LookupStep ==
  ASSUME IInv, NEW i \in images, FetchPage(i) \/ PageFails(i)
  PROVE  IInv'
<1>1. TypeOK /\ RunInv
  BY DEF IInv
<1>2. /\ pc = "lookup" /\ page[i] # 0
      /\ UNCHANGED <<registry, files, pc, runs, images, replacements, todo, fresh, aligned>>
  BY DEF FetchPage, PageFails
<1>3. /\ listed' \in [images -> Seq(Tags)] /\ page' \in [images -> 0 .. MaxPages]
      /\ whole' \subseteq images
  <2>1. CASE FetchPage(i)
    <3> DEFINE pages == registry[i[1]]
    <3>1. pages \in Seq(Seq(Tags)) /\ page[i] \in 1 .. Len(pages) /\ page[i] \in 0 .. MaxPages
      <4>1. i[1] \in Repositories
        BY <1>1 DEF TypeOK, Refs
      <4>2. pages \in Seq(Seq(Tags)) /\ Len(pages) \in Nat
        BY <1>1, <4>1 DEF TypeOK
      <4>3. page[i] \in 0 .. MaxPages /\ page[i] <= Len(pages) /\ page[i] # 0
        BY <1>1, <2>1 DEF TypeOK, FetchPage
      <4> QED
        BY <4>2, <4>3, BoundsAssumption
    <3>2. pages[page[i]] \in Seq(Tags)
      BY <3>1, ElementOfSeq
    <3>3. listed[i] \o pages[page[i]] \in Seq(Tags)
      BY <1>1, <3>2 DEF TypeOK
    <3>4. page[i] # MaxPages => page[i] + 1 \in 0 .. MaxPages
      BY <3>1, BoundsAssumption
    <3>5. /\ listed' = [listed EXCEPT ![i] = listed[i] \o pages[page[i]]]
          /\ page' = [page EXCEPT ![i] = IF page[i] = Len(pages) \/ page[i] = MaxPages THEN 0
                                         ELSE page[i] + 1]
          /\ whole' \in {whole, whole \cup {i}}
      BY <2>1 DEF FetchPage
    <3> HIDE DEF pages
    <3> QED
      BY <1>1, <3>3, <3>4, <3>5, BoundsAssumption DEF TypeOK
  <2>2. CASE PageFails(i)
    BY <1>1, <2>2, BoundsAssumption DEF TypeOK, PageFails
  <2> QED
    BY <2>1, <2>2
<1>4. TypeOK'
  BY <1>1, <1>2, <1>3 DEF TypeOK
<1>5. replacements = <<>> /\ DOMAIN replacements = {}
  BY <1>1, <1>2 DEF RunInv
<1>6. RunInv'
  BY <1>1, <1>2 DEF RunInv, DefinitionRefs, Aligned
<1>7. ListedTagsOnlyRise' /\ DocumentsFollow'
  BY <1>2, <1>5 DEF ListedTagsOnlyRise, DocumentsFollow
<1> QED
  BY <1>4, <1>6, <1>7 DEF IInv

\* A run that ends early promises nothing but keeps what the lookups chose.
LEMMA AbortStep == IInv /\ Abort => IInv'
<1> SUFFICES ASSUME IInv, Abort PROVE IInv'
  OBVIOUS
<1>1. TypeOK /\ ListedTagsOnlyRise
  BY DEF IInv
<1>2. /\ pc' = "failed"
      /\ UNCHANGED <<registry, runs, images, listed, page, replacements, todo, whole, fresh, aligned>>
  BY DEF Abort
<1>3. files' \in [Files -> SUBSET Refs]
  BY <1>1 DEF Abort, TypeOK
<1>4. TypeOK'
  BY <1>1, <1>2, <1>3 DEF TypeOK
<1>5. RunInv' /\ ListedTagsOnlyRise' /\ DocumentsFollow'
  BY <1>1, <1>2 DEF RunInv, ListedTagsOnlyRise, DocumentsFollow
<1> QED
  BY <1>4, <1>5 DEF IInv

\* The replacements are upgrades of the tags that the lookups have listed, and
\* the files still are as the run found them.
LEMMA ReplaceStep == IInv /\ Replace => IInv'
<1> SUFFICES ASSUME IInv, Replace PROVE IInv'
  OBVIOUS
<1>1. TypeOK /\ RunInv
  BY DEF IInv
<1>2. /\ pc = "lookup" /\ replacements' = container_image_replacements
      /\ UNCHANGED <<registry, files, runs, images, listed, page, whole, fresh, aligned>>
      /\ IF Improved = {} THEN pc' = "done" /\ todo' = todo ELSE pc' = "write" /\ todo' = Order
  BY DEF Replace
<1>3. images \subseteq Refs /\ listed \in [images -> Seq(Tags)] /\ DefinitionRefs = DefinitionRefsIn(files)
      /\ (Aligned <=> AlignedIn(files))
  BY <1>1, TypeFacts
<1>4. container_image_replacements' = container_image_replacements /\ Improved' = Improved
  BY <1>2, ReplacementsFrame
<1>5. ReplacementsType(replacements')
  BY <1>2, <1>3, ReplacementsFollow
<1>6. \E n \in 0 .. Len(Order) : todo' = SubSeq(Order, n + 1, Len(Order))
  <2>1. Order \in Seq(Files) /\ 0 \in 0 .. Len(Order)
    BY OrderAssumption
  <2>2. SubSeq(Order, 0 + 1, Len(Order)) = Order
    BY <2>1
  <2>3. \E n \in 0 .. Len(Order) : todo = SubSeq(Order, n + 1, Len(Order))
    BY <1>1 DEF TypeOK
  <2> QED
    BY <1>2, <2>1, <2>2, <2>3
<1>7. TypeOK'
  <2>1. pc' \in {"idle", "lookup", "write", "done", "failed"}
    BY <1>2
  <2> QED
    BY <1>1, <1>2, <1>5, <1>6, <2>1 DEF TypeOK, ReplacementsType
<1>8. images = DefinitionRefs \ Skipped /\ (aligned => Aligned)
  BY <1>1, <1>2 DEF RunInv
<1>9. RunInv'
  <2>1. CASE Improved = {}
    BY <1>2, <2>1 DEF RunInv
  <2>2. CASE Improved # {}
    <3>1. Definitions # {}
      BY <1>8, <2>2 DEF Improved, DefinitionRefs
    <3>2. Order # <<>>
      BY <3>1, OrderAssumption DEF Files
    <3>3. \A f \in Files : Pending(f)'
      BY <1>2, <2>2, OrderAssumption DEF Pending
    <3>4. files \in [Files -> SUBSET Refs]
      BY <1>1 DEF TypeOK
    <3>5. /\ images' = DefinitionRefsIn(files) \ Skipped
          /\ aligned' => AlignedIn(files)
          /\ \A f \in Files : files'[f] = files[f]
      BY <1>2, <1>3, <1>8
    <3> QED
      BY <1>2, <1>4, <2>2, <3>2, <3>3, <3>4, <3>5 DEF RunInv
  <2> QED
    BY <2>1, <2>2
<1>10. ListedTagsOnlyRise'
  <2> SUFFICES ASSUME NEW old \in DOMAIN replacements', old \in images, old[2] \notin {None, Latest},
                      NEW n \in DOMAIN listed[old], listed[old][n] = old[2]
               PROVE  IsUpgrade(old[1], old[2], replacements'[old][2])
    BY <1>2 DEF ListedTagsOnlyRise
  <2>1. old \in Refs /\ old[2] \in Tags /\ listed[old] \in Seq(Tags)
    BY <1>3 DEF Refs
  <2>2. old \in Improved
    BY <1>2 DEF container_image_replacements, BareRefs
  <2>3. replacements'[old][2] = NewTag(old)
    <3> HIDE DEF Improved, BareRefs, NewTag
    <3> QED
      BY <1>2, <2>2 DEF container_image_replacements
  <2>4. NewTag(old) = latest_container_image_tag(old[1], old[2], listed[old]) /\ NewTag(old) # None
    BY <2>2 DEF NewTag, Lookup, Improved
  <2> QED
    BY <2>1, <2>3, <2>4, ListedTagIsUpgraded
<1>11. DocumentsFollow'
  BY <1>2, <1>8 DEF DocumentsFollow, Aligned, DefinitionRefs
<1> QED
  BY <1>7, <1>9, <1>10, <1>11 DEF IInv

\* Each file is rewritten once; when the last one has been, the documents
\* follow the Docker files.
LEMMA WriteStep == IInv /\ WriteFile => IInv'
<1> SUFFICES ASSUME IInv, WriteFile PROVE IInv'
  OBVIOUS
<1>1. TypeOK /\ RunInv /\ ListedTagsOnlyRise
  BY DEF IInv
<1> PICK h : h = Head(todo)
  OBVIOUS
<1>2. /\ pc = "write" /\ todo # <<>>
      /\ files' = [files EXCEPT ![h] = {Rewritten(ref) : ref \in files[h]}]
      /\ todo' = Tail(todo) /\ pc' = IF Tail(todo) = <<>> THEN "done" ELSE "write"
      /\ UNCHANGED <<registry, runs, images, listed, page, replacements, whole, fresh, aligned>>
  BY DEF WriteFile, Replaced
<1>3. PICK n \in 0 .. Len(Order) : todo = SubSeq(Order, n + 1, Len(Order))
  BY <1>1 DEF TypeOK
<1>4. /\ h \in Files
      /\ n + 1 \in 0 .. Len(Order)
      /\ Tail(todo) = SubSeq(Order, (n + 1) + 1, Len(Order))
      /\ \A f : Pending(f) <=> f = h \/ Pending(f)'
      /\ ~Pending(h)'
  <2>1. \A f : Pending(f)' <=> \E i \in DOMAIN Tail(todo) : Tail(todo)[i] = f
    BY <1>2 DEF Pending
  <2> QED
    BY <1>2, <1>3, <2>1, RemainingFiles
<1>5. images \subseteq Refs /\ listed \in [images -> Seq(Tags)]
  BY <1>1, TypeFacts
<1>6. replacements = container_image_replacements
  BY <1>1, <1>2 DEF RunInv
<1>7. ReplacementsType(replacements) /\ \A old \in DOMAIN replacements : replacements[old][1] = old[1]
  BY <1>5, <1>6, ReplacementsFollow
<1>8. PICK before \in [Files -> SUBSET Refs] :
        /\ images = DefinitionRefsIn(before) \ Skipped
        /\ aligned => AlignedIn(before)
        /\ \A f \in Files :
             files[f] = IF Pending(f) THEN before[f] ELSE {Rewritten(ref) : ref \in before[f]}
  BY <1>1, <1>2 DEF RunInv
<1> DEFINE New(f) == {Rewritten(ref) : ref \in before[f]}
<1>9. \A f \in Files : files'[f] = IF Pending(f)' THEN before[f] ELSE New(f)
  <2> SUFFICES ASSUME NEW f \in Files
               PROVE  files'[f] = IF Pending(f)' THEN before[f] ELSE New(f)
    OBVIOUS
  <2>1. files \in [Files -> SUBSET Refs]
    BY <1>1 DEF TypeOK
  <2>2. CASE f = h
    <3>1. files[h] = before[h]
      BY <1>4, <1>8
    <3>2. files'[h] = {Rewritten(ref) : ref \in files[h]}
      BY <1>2, <1>4, <2>1
    <3> QED
      BY <1>4, <2>2, <3>1, <3>2
  <2>3. CASE f # h
    <3>1. files'[f] = files[f]
      BY <1>2, <2>1, <2>3
    <3> QED
      BY <1>4, <1>8, <2>3, <3>1
  <2> QED
    BY <2>2, <2>3
<1>10. \A f \in Files : New(f) \in SUBSET Refs
  BY <1>7, RewrittenType
<1>11. files' \in [Files -> SUBSET Refs]
  <2>1. files' = [f \in Files |-> files'[f]]
    BY <1>1, <1>2 DEF TypeOK
  <2>2. \A f \in Files : files'[f] \in SUBSET Refs
    <3> HIDE DEF New
    <3> QED
      BY <1>9, <1>10
  <2> QED
    BY <2>1, <2>2
<1>12. TypeOK'
  <2>1. \E m \in 0 .. Len(Order) : todo' = SubSeq(Order, m + 1, Len(Order))
    BY <1>2, <1>4
  <2>2. pc' \in {"idle", "lookup", "write", "done", "failed"}
    BY <1>2
  <2> QED
    BY <1>1, <1>2, <1>11, <2>1, <2>2 DEF TypeOK
<1>13. (replacements = container_image_replacements)'
  BY <1>2, <1>6, ReplacementsFrame
<1>14. \A f : New(f) = {Rewritten(ref)' : ref \in before[f]}
  <2>1. \A ref : Rewritten(ref)' = Rewritten(ref)
    BY <1>2, RewrittenFrame
  <2> QED
    BY <2>1
<1>15. RunInv'
  <2>1. CASE Tail(todo) = <<>>
    BY <1>2, <2>1 DEF RunInv
  <2>2. CASE Tail(todo) # <<>>
    <3>1. /\ images' = DefinitionRefsIn(before) \ Skipped
          /\ aligned' => AlignedIn(before)
          /\ \A f \in Files : files'[f] = IF Pending(f)' THEN before[f]
                                          ELSE {Rewritten(ref)' : ref \in before[f]}
      BY <1>2, <1>8, <1>9, <1>14
    <3> QED
      BY <1>2, <1>13, <2>2, <3>1 DEF RunInv
  <2> QED
    BY <2>1, <2>2
<1>16. ListedTagsOnlyRise'
  BY <1>1, <1>2 DEF ListedTagsOnlyRise
<1>17. DocumentsFollow'
  <2> SUFFICES ASSUME pc' = "done", aligned', Unchained' PROVE Aligned'
    BY DEF DocumentsFollow
  <2>1. Tail(todo) = <<>> /\ aligned /\ Unchained
    BY <1>2 DEF Unchained
  <2>2. \A f : ~Pending(f)'
    BY <1>2, <2>1 DEF Pending
  <2>3. \A f \in Files : files'[f] = {Rewritten(ref) : ref \in before[f]}
    BY <1>9, <2>2
  <2>4. AlignedIn(files')
    BY <1>5, <1>6, <1>8, <2>1, <2>3, AlignmentSurvives
  <2> QED
    BY <2>4 DEF Aligned, AlignedIn, DefinitionRefs, DefinitionRefsIn
<1> QED
  BY <1>12, <1>15, <1>16, <1>17 DEF IInv

\* A step outside the run does not disturb it.
LEMMA RunFrame ==
  ASSUME IInv, UNCHANGED <<files, pc, images, listed, replacements, todo, aligned>>
  PROVE  RunInv' /\ ListedTagsOnlyRise' /\ DocumentsFollow'
<1>1. RunInv /\ ListedTagsOnlyRise /\ DocumentsFollow
  BY DEF IInv
<1>2. DefinitionRefs' = DefinitionRefs /\ Aligned' = Aligned /\ \A f : Pending(f)' = Pending(f)
  BY DEF DefinitionRefs, Aligned, Pending
<1>3. ASSUME pc = "write"
      PROVE  /\ todo' # <<>>
             /\ (replacements = container_image_replacements)'
             /\ \E before \in [Files -> SUBSET Refs] :
                  /\ images' = DefinitionRefsIn(before) \ Skipped
                  /\ aligned' => AlignedIn(before)
                  /\ \A f \in Files :
                       files'[f] = IF Pending(f)' THEN before[f] ELSE {Rewritten(ref)' : ref \in before[f]}
  <2>1. PICK before \in [Files -> SUBSET Refs] :
          /\ images = DefinitionRefsIn(before) \ Skipped
          /\ aligned => AlignedIn(before)
          /\ \A f \in Files :
               files[f] = IF Pending(f) THEN before[f] ELSE {Rewritten(ref) : ref \in before[f]}
    BY <1>1, <1>3 DEF RunInv
  <2>2. \A ref : Rewritten(ref)' = Rewritten(ref)
    BY RewrittenFrame
  <2>3. \A f : {Rewritten(ref)' : ref \in before[f]} = {Rewritten(ref) : ref \in before[f]}
    BY <2>2
  <2>4. \A f \in Files :
          files'[f] = IF Pending(f)' THEN before[f] ELSE {Rewritten(ref)' : ref \in before[f]}
    BY <1>2, <2>1, <2>3
  <2>5. todo' # <<>> /\ (replacements = container_image_replacements)'
    BY <1>1, <1>3, ReplacementsFrame DEF RunInv
  <2> QED
    BY <2>1, <2>4, <2>5
<1>4. RunInv'
  BY <1>1, <1>2, <1>3 DEF RunInv
<1>5. ListedTagsOnlyRise' /\ DocumentsFollow'
  BY <1>1, <1>2 DEF ListedTagsOnlyRise, DocumentsFollow, Unchained
<1> QED
  BY <1>4, <1>5

\* Publications change the registry only.
LEMMA PublishStep ==
  ASSUME IInv, NEW r \in Repositories, NEW t \in Tags, Publish(r, t)
  PROVE  IInv'
<1>1. TypeOK
  BY DEF IInv
<1> DEFINE others == [n \in DOMAIN registry[r] |-> Without(registry[r][n], t)]
           last   == Len(registry[r])
<1>2. /\ registry[r] # <<>>
      /\ \/ registry' = [registry EXCEPT ![r] = [others EXCEPT ![1] = <<t>> \o others[1]]]
         \/ registry' = [registry EXCEPT ![r] = [others EXCEPT ![last] = Append(others[last], t)]]
      /\ fresh' = FALSE
      /\ UNCHANGED <<files, pc, runs, images, listed, page, replacements, todo, whole, aligned>>
  BY <1>1 DEF Publish, TypeOK
<1>3. registry[r] \in Seq(Seq(Tags))
  BY <1>1 DEF TypeOK
<1>4. \A tags \in Seq(Tags) : Without(tags, t) \in Seq(Tags)
  BY DEF Without, Seqs!RemoveAt
<1>5. others \in Seq(Seq(Tags)) /\ Len(others) = last /\ last \in Nat /\ last # 0
  <2>1. last \in Nat /\ DOMAIN registry[r] = 1 .. last
        /\ \A n \in 1 .. last : registry[r][n] \in Seq(Tags)
    BY <1>3, LenProperties, ElementOfSeq
  <2>2. \A n \in 1 .. last : Without(registry[r][n], t) \in Seq(Tags)
    BY <1>4, <2>1
  <2>3. others \in [1 .. last -> Seq(Tags)]
    BY <2>1, <2>2
  <2>4. last # 0
    BY <1>2, <1>3, EmptySeq
  <2> HIDE DEF others, last
  <2>5. others \in Seq(Seq(Tags))
    BY <2>1, <2>3, SeqDef
  <2> QED
    BY <2>1, <2>3, <2>4, <2>5, LenProperties
<1>6. 1 \in 1 .. Len(others) /\ last \in 1 .. Len(others)
  BY <1>5
<1>7. others[1] \in Seq(Tags) /\ others[last] \in Seq(Tags)
  <2> HIDE DEF others, last
  <2> QED
    BY <1>5, <1>6, ElementOfSeq
<1>8. <<t>> \o others[1] \in Seq(Tags) /\ Append(others[last], t) \in Seq(Tags)
  <2> HIDE DEF others, last
  <2> QED
    BY <1>7
<1>9. /\ [others EXCEPT ![1] = <<t>> \o others[1]] \in Seq(Seq(Tags))
      /\ [others EXCEPT ![last] = Append(others[last], t)] \in Seq(Seq(Tags))
  <2> HIDE DEF others, last
  <2> QED
    BY <1>5, <1>6, <1>8, ExceptSeq
<1>10. registry' \in [Repositories -> Seq(Seq(Tags))]
  <2> HIDE DEF others, last
  <2> QED
    BY <1>1, <1>2, <1>9 DEF TypeOK
<1>11. TypeOK'
  BY <1>1, <1>2, <1>10 DEF TypeOK
<1>12. RunInv' /\ ListedTagsOnlyRise' /\ DocumentsFollow'
  BY <1>2, RunFrame
<1> QED
  BY <1>11, <1>12 DEF IInv

LEMMA NextIInv == IInv /\ [Next]_vars => IInv'
<1> SUFFICES ASSUME IInv, [Next]_vars PROVE IInv'
  OBVIOUS
<1>1. CASE Start
  BY <1>1, StartStep
<1>2. CASE \E i \in images : FetchPage(i) \/ PageFails(i)
  BY <1>2, LookupStep
<1>3. CASE Abort
  BY <1>3, AbortStep
<1>4. CASE Replace
  BY <1>4, ReplaceStep
<1>5. CASE WriteFile
  BY <1>5, WriteStep
<1>6. CASE \E u \in Upcoming : Publish(u[1], u[2])
  <2>1. PICK u \in Upcoming : Publish(u[1], u[2])
    BY <1>6
  <2>2. u[1] \in Repositories /\ u[2] \in Tags
    BY UpcomingAssumption
  <2> QED
    BY <2>1, <2>2, PublishStep
<1>7. CASE UNCHANGED vars
  <2>1. /\ UNCHANGED <<registry, files, pc, runs, images, listed, page, replacements, todo>>
        /\ UNCHANGED <<whole, fresh, aligned>>
    BY <1>7 DEF vars
  <2>2. RunInv' /\ ListedTagsOnlyRise' /\ DocumentsFollow'
    BY <2>1, RunFrame
  <2>3. TypeOK'
    BY <2>1 DEF IInv, TypeOK
  <2> QED
    BY <2>2, <2>3 DEF IInv
<1> QED
  BY <1>1, <1>2, <1>3, <1>4, <1>5, <1>6, <1>7 DEF Next, Stop

LEMMA Invariance == Spec => []IInv
BY InitIInv, NextIInv, PTL DEF Spec

-----------------------------------------------------------------------------
(* What the lookups have listed.                                           *)

\* While the registry is as the run found it, a lookup has listed the tags of
\* the pages before its next one, and all tags when it has seen the last page.
ListInv ==
    fresh => \A i \in images :
        /\ i \in whole => page[i] = 0 /\ listed[i] = WholeList(registry[i[1]])
        /\ page[i] # 0 => /\ page[i] - 1 \in 0 .. Len(registry[i[1]])
                          /\ listed[i] = FirstPages(registry[i[1]])[page[i] - 1]

RestInv == ListInv /\ DefinitionsConverge

LEMMA RestFrame == ASSUME RestInv, UNCHANGED vars PROVE RestInv'
<1>1. ListInv'
  BY DEF RestInv, ListInv, vars
<1>2. DefinitionsConverge'
  BY DEF RestInv, DefinitionsConverge, Undisturbed, DefinitionRefs, vars
<1> QED
  BY <1>1, <1>2 DEF RestInv

LEMMA StartRests == IInv /\ Start => RestInv'
<1> SUFFICES ASSUME IInv, Start PROVE RestInv'
  OBVIOUS
<1>1. /\ images' = DefinitionRefs \ Skipped /\ whole' = {} /\ registry' = registry /\ files' = files
      /\ listed' = [i \in images' |-> <<>>] /\ page' = [i \in images' |-> 1]
      /\ pc' = IF images' = {} THEN "done" ELSE "lookup"
  BY DEF Start
<1>2. \A i \in images' : registry[i[1]] \in Seq(Seq(Tags))
  <2>1. TypeOK /\ DefinitionRefs \subseteq Refs
    BY TypeFacts DEF IInv
  <2> QED
    BY <1>1, <2>1 DEF TypeOK, Refs
<1>3. \A i \in images' : 1 - 1 \in 0 .. Len(registry[i[1]]) /\ FirstPages(registry[i[1]])[1 - 1] = <<>>
  <2> SUFFICES ASSUME NEW pages \in Seq(Seq(Tags))
               PROVE  1 - 1 \in 0 .. Len(pages) /\ FirstPages(pages)[1 - 1] = <<>>
    BY <1>2
  <2>1. FirstPages(pages)[0] = <<>>
    BY FirstPagesCourse
  <2>2. Len(pages) \in Nat /\ 1 - 1 = 0
    OBVIOUS
  <2> QED
    BY <2>1, <2>2
<1>4. ListInv'
  BY <1>1, <1>3 DEF ListInv
<1>5. DefinitionsConverge'
  BY <1>1 DEF DefinitionsConverge, DefinitionRefs
<1> QED
  BY <1>4, <1>5 DEF RestInv

LEMMA LookupRests ==
  ASSUME IInv, RestInv, NEW i \in images, FetchPage(i) \/ PageFails(i)
  PROVE  RestInv'
<1>1. /\ TypeOK /\ ListInv
      /\ pc = "lookup" /\ page[i] # 0 /\ UNCHANGED <<registry, pc, images, fresh>>
  BY DEF IInv, RestInv, FetchPage, PageFails
<1>2. DefinitionsConverge'
  BY <1>1 DEF DefinitionsConverge
<1>3. SUFFICES ASSUME fresh, NEW k \in images
               PROVE  /\ k \in whole' => page'[k] = 0 /\ listed'[k] = WholeList(registry[k[1]])
                      /\ page'[k] # 0 => /\ page'[k] - 1 \in 0 .. Len(registry[k[1]])
                                         /\ listed'[k] = FirstPages(registry[k[1]])[page'[k] - 1]
  BY <1>1, <1>2 DEF RestInv, ListInv
<1> DEFINE pages == registry[k[1]]
           n     == page[k]
<1>4. /\ pages \in Seq(Seq(Tags)) /\ Len(pages) \in Nat
      /\ n \in 0 .. MaxPages /\ MaxPages \in Nat
  <2>1. k[1] \in Repositories
    BY <1>1 DEF TypeOK, Refs
  <2> QED
    BY <1>1, <2>1, BoundsAssumption DEF TypeOK
<1>5. /\ k \in whole => n = 0 /\ listed[k] = WholeList(pages)
      /\ n # 0 => n - 1 \in 0 .. Len(pages) /\ listed[k] = FirstPages(pages)[n - 1]
  BY <1>1, <1>3 DEF ListInv
<1>6. CASE k # i
  <2>1. page'[k] = page[k] /\ listed'[k] = listed[k] /\ (k \in whole' <=> k \in whole)
    BY <1>1, <1>6 DEF FetchPage, PageFails, TypeOK
  <2> QED
    BY <1>5, <2>1
<1>7. CASE k = i /\ PageFails(i)
  <2>1. page'[k] = 0 /\ k \notin whole'
    BY <1>1, <1>5, <1>7 DEF PageFails, TypeOK
  <2> QED
    BY <2>1
<1>8. CASE k = i /\ FetchPage(i)
  <2>1. /\ n <= Len(pages) /\ n # 0
        /\ listed' = [listed EXCEPT ![k] = listed[k] \o pages[n]]
        /\ page' = [page EXCEPT ![k] = IF n = Len(pages) \/ n = MaxPages THEN 0 ELSE n + 1]
        /\ whole' = IF n = Len(pages) THEN whole \cup {k} ELSE whole
    BY <1>8 DEF FetchPage
  <2>2. /\ listed'[k] = listed[k] \o pages[n]
        /\ page'[k] = IF n = Len(pages) \/ n = MaxPages THEN 0 ELSE n + 1
        /\ k \in whole' => n = Len(pages)
    <3>1. k \in DOMAIN listed /\ k \in DOMAIN page
      BY <1>1 DEF TypeOK
    <3> HIDE DEF pages, n
    <3>2. k \notin whole
      BY <1>5, <2>1
    <3> QED
      BY <2>1, <3>1, <3>2
  <2> HIDE DEF pages, n
  <2>3. n \in 1 .. Len(pages)
    BY <1>4, <2>1
  <2>4. listed'[k] = FirstPages(pages)[n]
    BY <1>4, <1>5, <2>1, <2>2, <2>3, FirstPagesCourse
  <2>5. n = Len(pages) => page'[k] = 0 /\ listed'[k] = WholeList(pages)
    BY <2>2, <2>4 DEF WholeList
  <2>6. page'[k] # 0 => page'[k] - 1 = n /\ n \in 0 .. Len(pages)
    BY <1>4, <2>2, <2>3
  <2>7. /\ k \in whole' => page'[k] = 0 /\ listed'[k] = WholeList(pages)
        /\ page'[k] # 0 => page'[k] - 1 \in 0 .. Len(pages) /\ listed'[k] = FirstPages(pages)[page'[k] - 1]
    BY <2>2, <2>4, <2>5, <2>6
  <2> QED
    BY <2>7 DEF pages
<1> QED
  BY <1>6, <1>7, <1>8

\* A run without improvements finds the Docker files at rest.
LEMMA ReplaceRests == IInv /\ RestInv /\ Replace => RestInv'
<1> SUFFICES ASSUME IInv, RestInv, Replace PROVE RestInv'
  OBVIOUS
<1>1. /\ pc = "lookup" /\ UNCHANGED <<registry, files, images, listed, page, whole, fresh>>
      /\ pc' = IF Improved = {} THEN "done" ELSE "write"
      /\ images = DefinitionRefs \ Skipped
  BY DEF Replace, IInv, RunInv
<1>2. ListInv'
  BY <1>1 DEF RestInv, ListInv
<1>3. DefinitionsConverge'
  <2> SUFFICES ASSUME Improved = {}, Undisturbed, NEW ref \in images
               PROVE  latest_container_image_tag(ref[1], ref[2], WholeList(registry[ref[1]])) \in {None, ref[2]}
    BY <1>1 DEF DefinitionsConverge, Undisturbed, DefinitionRefs
  <2>1. listed[ref] = WholeList(registry[ref[1]])
    BY DEF RestInv, ListInv, Undisturbed
  <2>2. NewTag(ref) \in {None, ref[2]}
    BY DEF Improved
  <2> QED
    BY <2>1, <2>2 DEF NewTag, Lookup
<1> QED
  BY <1>2, <1>3 DEF RestInv

\* The last file that a run rewrites brings the Docker files to rest.
LEMMA WriteRests == IInv /\ RestInv /\ WriteFile => RestInv'
<1> SUFFICES ASSUME IInv, RestInv, WriteFile PROVE RestInv'
  OBVIOUS
<1>1. TypeOK /\ RunInv /\ ListInv
  BY DEF IInv, RestInv
<1> PICK h : h = Head(todo)
  OBVIOUS
<1>2. /\ pc = "write" /\ todo # <<>>
      /\ files' = [files EXCEPT ![h] = {Rewritten(ref) : ref \in files[h]}]
      /\ todo' = Tail(todo) /\ pc' = IF Tail(todo) = <<>> THEN "done" ELSE "write"
      /\ UNCHANGED <<registry, images, listed, page, replacements, whole, fresh>>
  BY DEF WriteFile, Replaced
<1>3. ListInv'
  BY <1>1, <1>2 DEF ListInv
<1>4. DefinitionsConverge'
  <2> SUFFICES ASSUME Tail(todo) = <<>>, Undisturbed,
                      NEW ref \in DefinitionRefsIn(files') \ Skipped
               PROVE  AtRest(ref)
    BY <1>2 DEF DefinitionsConverge, Undisturbed, DefinitionRefs, DefinitionRefsIn, AtRest
  <2>1. images \subseteq Refs /\ listed \in [images -> Seq(Tags)] /\ files \in [Files -> SUBSET Refs]
    BY <1>1, TypeFacts DEF TypeOK
  <2>2. \A i \in images : listed[i] = WholeList(registry[i[1]])
    BY <1>1 DEF ListInv, Undisturbed
  <2>3. PICK n \in 0 .. Len(Order) : todo = SubSeq(Order, n + 1, Len(Order))
    BY <1>1 DEF TypeOK
  <2>4. h \in Files /\ \A f : Pending(f) <=> f = h
    <3>1. DOMAIN Tail(todo) = {}
      OBVIOUS
    <3> QED
      BY <1>2, <2>3, <3>1, RemainingFiles
  <2>5. PICK before \in [Files -> SUBSET Refs] :
          /\ images = DefinitionRefsIn(before) \ Skipped
          /\ \A f \in Files :
               files[f] = IF Pending(f) THEN before[f] ELSE {Rewritten(old) : old \in before[f]}
    BY <1>1, <1>2 DEF RunInv
  <2>6. \A f \in Files : files'[f] = {Rewritten(old) : old \in before[f]}
    <3> SUFFICES ASSUME NEW f \in Files PROVE files'[f] = {Rewritten(old) : old \in before[f]}
      OBVIOUS
    <3>1. CASE f = h
      BY <1>2, <2>1, <2>4, <2>5, <3>1
    <3>2. CASE f # h
      BY <1>2, <2>1, <2>4, <2>5, <3>2
    <3> QED
      BY <3>1, <3>2
  <2>7. replacements = container_image_replacements
    BY <1>1, <1>2 DEF RunInv
  <2> PICK after : after = files'
    OBVIOUS
  <2>8. /\ \A f \in Files : after[f] = {Rewritten(old) : old \in before[f]}
        /\ ref \in DefinitionRefsIn(after) \ Skipped
    BY <2>6
  <2> QED
    BY <2>1, <2>2, <2>5, <2>7, <2>8, RewrittenReferencesRest
<1> QED
  BY <1>3, <1>4 DEF RestInv

LEMMA NextRests == IInv /\ RestInv /\ [Next]_vars => RestInv'
<1> SUFFICES ASSUME IInv, RestInv, [Next]_vars PROVE RestInv'
  OBVIOUS
<1>1. CASE Start
  BY <1>1, StartRests
<1>2. CASE \E i \in images : FetchPage(i) \/ PageFails(i)
  BY <1>2, LookupRests
<1>3. CASE Abort
  <2>1. pc' = "failed" /\ UNCHANGED <<registry, images, listed, page, whole, fresh>>
    BY <1>3 DEF Abort
  <2> QED
    BY <2>1 DEF RestInv, ListInv, DefinitionsConverge
<1>4. CASE Replace
  BY <1>4, ReplaceRests
<1>5. CASE WriteFile
  BY <1>5, WriteRests
<1>6. CASE \E u \in Upcoming : Publish(u[1], u[2])
  <2>1. fresh' = FALSE
    BY <1>6 DEF Publish
  <2> QED
    BY <2>1 DEF RestInv, ListInv, DefinitionsConverge, Undisturbed
<1>7. CASE UNCHANGED vars
  BY <1>7, RestFrame
<1> QED
  BY <1>1, <1>2, <1>3, <1>4, <1>5, <1>6, <1>7 DEF Next, Stop

LEMMA RestInvariance == Spec => []RestInv
<1>1. Init => RestInv
  BY DEF Init, RestInv, ListInv, DefinitionsConverge
<1> QED
  BY <1>1, NextRests, Invariance, PTL DEF Spec

-----------------------------------------------------------------------------
(* The theorems.                                                           *)

\* The state of an update run is well-formed: lookups fetch pages up to the
\* limit, and files hold references to repositories whatever is replaced
\* (_container_image_replacements, _replace_container_refs).
THEOREM TypeCorrectness == Spec => []TypeOK
<1>1. IInv => TypeOK
  BY DEF IInv
<1> QED
  BY <1>1, Invariance, PTL

\* A tag that its lookup has listed is never lowered, and never leaves its
\* variant and major version, whatever pages failed and whatever the registry
\* published meanwhile (_best_compatible_container_tag, _best_ranked_container_tag).
THEOREM ListedTagsAreNeverLowered == Spec => []ListedTagsOnlyRise
<1>1. IInv => ListedTagsOnlyRise
  BY DEF IInv
<1> QED
  BY <1>1, Invariance, PTL

\* A completed run leaves documents that name the images of the Docker files,
\* if they did before it, unless it replaces the replacement of a bare name
\* (_replace_container_refs, _should_replace_bare_container_doc_ref).
THEOREM DocumentsFollowDockerFiles == Spec => []DocumentsFollow
<1>1. IInv => DocumentsFollow
  BY DEF IInv
<1> QED
  BY <1>1, Invariance, PTL

\* No two or more tags of a repository replace each other in turn, whatever its
\* registry lists (_best_compatible_container_tag): repeated runs come to rest.
THEOREM SuccessorsNeverCycle == Spec => []SuccessorsHaveNoCycle
<1>1. TypeOK => SuccessorsHaveNoCycle
  <2> SUFFICES ASSUME TypeOK, NEW r \in Repositories PROVE
        LET list    == WholeList(registry[r])
            chosen  == {<<t, latest_container_image_tag(r, t, list)>> : t \in AllTags(registry[r])}
            changes == {c \in chosen : c[2] \notin {None, c[1]}}
        IN  \A cycle \in SUBSET changes :
              cycle # {} => \E c \in cycle : \A d \in cycle : d[1] # c[2]
    BY DEF SuccessorsHaveNoCycle
  <2> DEFINE list    == WholeList(registry[r])
             chosen  == {<<t, latest_container_image_tag(r, t, list)>> : t \in AllTags(registry[r])}
             changes == {c \in chosen : c[2] \notin {None, c[1]}}
  <2>1. registry[r] \in Seq(Seq(Tags))
    BY DEF TypeOK
  <2>2. list \in Seq(Tags)
    BY <2>1, WholeListType
  <2>3. AllTags(registry[r]) \subseteq Tags
    BY <2>1, ElementOfSeq DEF AllTags
  <2> SUFFICES ASSUME NEW cycle \in SUBSET changes, cycle # {}
               PROVE  \E c \in cycle : \A d \in cycle : d[1] # c[2]
    OBVIOUS
  <2> DEFINE tags == {c[1] : c \in cycle}
             next == [t \in tags |-> latest_container_image_tag(r, t, list)]
  <2> HIDE DEF list
  <2>4. \A c \in cycle : c[1] \in Tags /\ c[2] = latest_container_image_tag(r, c[1], list) /\ c[2] # None
    BY <2>3
  <2>5. tags \in SUBSET Tags /\ tags # {}
    BY <2>4
  <2>6. \A c \in cycle : next[c[1]] = c[2]
    BY <2>4
  <2>7. \A t \in tags : next[t] = latest_container_image_tag(r, t, list) /\ next[t] # None
    BY <2>4
  <2>8. \E t \in tags : next[t] \notin tags
    <3> HIDE DEF tags, next, changes
    <3> QED
      BY <2>2, <2>5, <2>7, NoCycle
  <2> QED
    BY <2>6, <2>8
<1> QED
  BY <1>1, TypeCorrectness, PTL

\* One undisturbed run leaves Docker files that the next run does not change,
\* but for floating names and a tag that a floating name was pinned to, whatever
\* aborted runs left before it and whatever tags the registries list
\* (_container_image_replacements, _latest_container_image_tag).
THEOREM DefinitionsComeToRest == Spec => []DefinitionsConverge
<1>1. RestInv => DefinitionsConverge
  BY DEF RestInv
<1> QED
  BY <1>1, RestInvariance, PTL
=============================================================================
