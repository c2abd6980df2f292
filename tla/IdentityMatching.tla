-------------------------- MODULE IdentityMatching --------------------------
(* bundles/claim/semanticIdentityMatcher.ts: how an observed name or address is
   compared with those on file. A letter is a number, a token a sequence of
   letters, a name a sequence of tokens; case, punctuation and spacing, which
   normalizeToken and tokenizeName remove, are abstracted away, and so are
   confidence and the wording of matchedFields. Similarities are in units of
   1/Unit, exact for the lengths checked here. *)
EXTENDS Integers, FiniteSets, Sequences, SequencesExt

CONSTANTS
    Names,           \* observed and filed names: sequences of tokens
    Addresses,       \* records of a local part and a domain, each a token
    Aliases,         \* sets of further names on file
    Plus,            \* the letter that begins the tag of a local part
    NicknameGroups   \* sets of tokens: NICKNAME_GROUPS

ASSUME MatchingAssumption ==
    /\ Names \subseteq Seq(Seq(Nat) \ { << >> })
    /\ Aliases \subseteq SUBSET Names
    /\ Addresses \subseteq [local : Seq(Nat), domain : Seq(Nat)]

VARIABLES comparison, answer    \* a call of matchIdentityField and its answer

matchingVars == << comparison, answer >>

Unit == 300
Percent(p) == (p * Unit) \div 100

Least(x, y) == IF x < y THEN x ELSE y
Greatest(x, y) == IF x < y THEN y ELSE x

\* The row below previous for letter number i of s, from left to right; its first
\* cell keeps what the row held before.
NextRowFromZero(s, t, previous, i) ==
    FoldLeft(LAMBDA current, j :
        [current EXCEPT ![j] = Least(Least(current[j - 1] + 1, previous[j] + 1),
                                     previous[j - 1] + (IF s[i] = t[j] THEN 0 ELSE 1))],
        previous, [j \in 1 .. Len(t) |-> j])

\* The row below previous for letter number i of s, from left to right: every
\* cell is written before it is read, so what the row held before is of no account.
NextRow(s, t, previous, i) ==
    FoldLeft(LAMBDA current, j :
        [current EXCEPT ![j] = Least(Least(current[j - 1] + 1, previous[j] + 1),
                                     previous[j - 1] + (IF s[i] = t[j] THEN 0 ELSE 1))],
        [previous EXCEPT ![0] = i], [j \in 1 .. Len(t) |-> j])

\* A row has a cell for each number of letters of t, from 0 on.
LastRow(s, t) ==
    FoldLeft(LAMBDA previous, i : NextRow(s, t, previous, i),
             [j \in 0 .. Len(t) |-> j], [i \in 1 .. Len(s) |-> i])

LevenshteinDistance(s, t) == LastRow(s, t)[Len(t)]

LevenshteinRatio(s, t) ==
    Unit - (LevenshteinDistance(s, t) * Unit) \div Greatest(Greatest(Len(s), Len(t)), 1)

Initials(name) == [i \in DOMAIN name |-> name[i][1]]

IsAbbreviationOf(short, full) == IsPrefix(short, full)

Nicknames(one, other) == \E group \in NicknameGroups : one \in group /\ other \in group

\* Abbreviations are not looked for.
ScoreWithoutAbbreviations(observed, claimed) ==
    CASE observed = claimed -> Unit
      [] observed # claimed /\ Nicknames(observed, claimed) -> Percent(92)
      [] OTHER ->
            LET ratio == LevenshteinRatio(observed, claimed)
            IN IF ratio >= Percent(75) THEN ratio ELSE 0

\* scoreTokenPair: the first rule that applies.
ScoreTokenPair(observed, claimed) ==
    CASE observed = claimed -> Unit
      [] observed # claimed /\ Nicknames(observed, claimed) -> Percent(92)
      [] OTHER ->
            IF IsAbbreviationOf(observed, claimed) \/ IsAbbreviationOf(claimed, observed)
            THEN Percent(90)
            ELSE LET ratio == LevenshteinRatio(observed, claimed)
                 IN IF ratio >= Percent(75) THEN ratio ELSE 0

\* The claimed tokens that the observed ones take, each in turn the best (the
\* first of equals) that is still free.
Aligned(observed, claimed) ==
    FoldLeft(LAMBDA used, token :
        LET score(i) == ScoreTokenPair(token, claimed[i])
            free == (DOMAIN claimed) \ used
            best == { i \in free : score(i) > 0 /\ \A j \in free :
                          score(j) < score(i) \/ (score(j) = score(i) /\ i <= j) }
        IN used \union best, {}, observed)

\* bestTokenAlignment
Alignment(observed, claimed) ==
    LET count == Cardinality(Aligned(observed, claimed))
    IN IF count = 0 THEN 0
       ELSE Least(Percent(98),
                  Percent(70) + (count * Percent(28)) \div Greatest(Len(observed), Len(claimed)))

Reordered(observed, claimed) ==
    \E order \in Bijection(DOMAIN observed, DOMAIN observed) :
        claimed = [i \in DOMAIN observed |-> observed[order[i]]]

Jaccard(one, other) ==
    (Cardinality(one \intersect other) * Unit) \div Cardinality(one \union other)

\* compareNamePair: the best of the rules that apply, or the typo ratio.
CompareNamePair(observed, claimed) ==
    LET sameInitials == LevenshteinRatio(Initials(observed), Initials(claimed)) >= Percent(85)
        typoRatio == LevenshteinRatio(FlattenSeq(observed), FlattenSeq(claimed))
        overlap == Jaccard(Range(observed), Range(claimed))
        candidates ==
            { Alignment(observed, claimed) }
            \union (IF Reordered(observed, claimed) THEN { Percent(96) } ELSE {})
            \union (IF Len(observed) >= 2 /\ Len(claimed) >= 2 /\ sameInitials
                    THEN { Percent(88) } ELSE {})
            \union (IF typoRatio >= Percent(72) THEN { typoRatio } ELSE {})
            \union (IF overlap >= Percent(60) /\ ~Reordered(observed, claimed)
                    THEN { overlap } ELSE {})
    IN IF observed = claimed THEN Unit
       ELSE IF candidates = {0} THEN typoRatio ELSE Max(candidates)

\* parseEmail: a local part and a domain, each with a letter at least.
Parses(address) == Len(address.local) > 0 /\ Len(address.domain) > 0

WithoutTag(local) ==
    LET at == SelectInSeq(local, LAMBDA letter : letter = Plus)
    IN IF at = 0 THEN local ELSE SubSeq(local, 1, at - 1)

\* compareEmailPair: similarity, and whether the domains are found to agree.
CompareEmailPair(observed, claimed) ==
    CASE ~(Parses(observed) /\ Parses(claimed)) ->
            [similarity |-> LevenshteinRatio(observed.local \o observed.domain,
                                             claimed.local \o claimed.domain),
             sameDomain |-> FALSE]
      [] Parses(observed) /\ Parses(claimed) /\ observed.domain # claimed.domain ->
            [similarity |-> (LevenshteinRatio(observed.domain, claimed.domain) * 2) \div 5,
             sameDomain |-> TRUE]     \* 'email_domain' names the field compared
      [] OTHER ->
            [similarity |-> Greatest(
                 LevenshteinRatio(observed.local, claimed.local),
                 LevenshteinRatio(WithoutTag(observed.local), WithoutTag(claimed.local))),
             sameDomain |-> TRUE]

CompareEmailDomains(observed, claimed) ==
    IF observed.domain = claimed.domain THEN Unit
    ELSE IF Parses(observed) /\ Parses(claimed)
         THEN LevenshteinRatio(observed.domain, claimed.domain) \div 2
         ELSE LevenshteinRatio(observed.domain, claimed.domain)

\* matchIdentityField: the best of the filed value and, except for the email
\* domain, its aliases, against the threshold of the kind.
MatchIdentityField(kind, observed, claimed, aliases) ==
    CASE kind = "display_name" ->
            \E filed \in { claimed } \union aliases :
                CompareNamePair(observed, filed) >= Percent(78)
      [] kind = "email" -> CompareEmailDomains(observed, claimed) >= Percent(82)
      [] kind = "calendar_invite" ->
            \E filed \in { claimed } \union aliases :
                LET pair == CompareEmailPair(observed, filed)
                IN pair.sameDomain /\ pair.similarity >= Percent(85)

MatchingInit ==
    /\ comparison \in
           [kind : { "display_name" }, observed : Names, claimed : Names, aliases : Aliases]
           \union [kind : { "email", "calendar_invite" }, observed : Addresses,
                   claimed : Addresses, aliases : {{}}]
    /\ answer = "asked"

Answer ==
    /\ answer = "asked"
    /\ answer' = IF MatchIdentityField(comparison.kind, comparison.observed,
                                      comparison.claimed, comparison.aliases)
                 THEN "matched" ELSE "different"
    /\ UNCHANGED comparison

MatchingNext == Answer

MatchingSpec == MatchingInit /\ [][MatchingNext]_matchingVars
----------------------------------------------------------------------------
Answered(kind) == comparison.kind = kind /\ answer # "asked"

\* The definition of the edit distance: the letters of s and t so far, last first.
EditDistance(s, t) ==
    LET distance[cell \in (0 .. Len(s)) \X (0 .. Len(t))] ==
            LET i == cell[1]
                j == cell[2]
            IN IF i = 0 THEN j
               ELSE IF j = 0 THEN i
               ELSE IF s[i] = t[j] THEN distance[<< i - 1, j - 1 >>]
               ELSE 1 + Least(distance[<< i - 1, j - 1 >>],
                              Least(distance[<< i - 1, j >>], distance[<< i, j - 1 >>]))
    IN distance[<< Len(s), Len(t) >>]

\* The two-row computation of levenshteinDistance gives the edit distance.
DistancesAreEditDistances ==
    Answered("display_name") =>
        LET observed == FlattenSeq(comparison.observed)
            claimed == FlattenSeq(comparison.claimed)
        IN LevenshteinDistance(observed, claimed) = EditDistance(observed, claimed)

\* Whoever gives the filed name, or an alias, in another order, with any of its
\* tokens as a nickname or an initial, is not reported as someone else: the
\* matcher "tolerate[s] abbreviations, nicknames, [...] and reordered name
\* tokens" (semanticIdentityMatcher.ts), all of them at once.
LegitimateVariantsMatch ==
    Answered("display_name") =>
        \A filed \in { comparison.claimed } \union comparison.aliases :
            (\E order \in Bijection(DOMAIN filed, DOMAIN filed) :
                /\ Len(comparison.observed) = Len(filed)
                /\ \A i \in DOMAIN filed :
                      LET token == comparison.observed[order[i]] IN
                      \/ token = filed[i]
                      \/ Nicknames(token, filed[i])
                      \/ token = << filed[i][1] >>)
            => answer = "matched"

\* Two well-formed addresses match, whichever field they are compared for, only
\* if they are of one domain, however near the domains are.
AddressesMatchWithinTheirDomain ==
    (Answered("email") \/ Answered("calendar_invite")) /\ answer = "matched"
        /\ Parses(comparison.observed) /\ Parses(comparison.claimed)
        => comparison.observed.domain = comparison.claimed.domain

\* The tolerance reaches what the matcher promises, and ends at the domain.
ToleranceHasItsBounds == LegitimateVariantsMatch /\ AddressesMatchWithinTheirDomain
=============================================================================
