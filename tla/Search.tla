--------------------------------- MODULE Search ---------------------------------
(***************************************************************************)
(* search/domain.rs and search/fuzzy.rs: what host a URL names, how the    *)
(* host of a secret relates to the host a browser shows, and which secrets *)
(* a query in a context lists, in which order.                             *)
(*                                                                         *)
(* A text is a sequence of pieces: words, and the punctuation that splits  *)
(* them.  Pieces that stand side by side are one word of the text, so      *)
(* <<"not", "github", ".", "com">> is notgithub.com.  The Public Suffix    *)
(* List and the fuzzy matcher are libraries, given by constants.           *)
(***************************************************************************)
EXTENDS Integers, FiniteSets, Sequences, SequencesExt, FiniteSetsExt

CONSTANTS
    LowerCase,      \* pieces with capitals |-> without
    Hostless,       \* schemes that name no host
    PublicSuffixes, \* the Public Suffix List
    Addresses,      \* hosts that parse as IP addresses
    NoHost, NoQuery,
    Fuzzy(_, _)     \* how well a field matches a query: at least 0, or NoMatch

Punctuation == {":", "/", "?", "#", "@", ".", "[", "]", "-"}

NoMatch == -1

ASSUME SearchAssumption ==
    /\ \A suffix \in PublicSuffixes \cup Addresses : suffix # <<>>
    /\ NoHost \notin PublicSuffixes
    /\ \A piece \in DOMAIN LowerCase : LowerCase[piece] \notin DOMAIN LowerCase

Lower(text) ==
    [i \in DOMAIN text |-> IF text[i] \in DOMAIN LowerCase THEN LowerCase[text[i]] ELSE text[i]]

\* Where `part` starts in `text`; str::find.
Occurrences(text, part) ==
    {i \in DOMAIN text : /\ i + Len(part) - 1 <= Len(text)
                         /\ SubSeq(text, i, i + Len(part) - 1) = part}

From(text, i) == SubSeq(text, i, Len(text))

Before(text, stops) ==
    LET at == SelectInSeq(text, LAMBDA piece : piece \in stops)
    IN IF at = 0 THEN text ELSE SubSeq(text, 1, at - 1)

---------------------------------------------------------------------------
\* The steps of normalize_host.

IsHostless(url) ==
    /\ Contains(url, ":")
    /\ Lower(Before(url, {":"})) \in Hostless

AfterScheme(url) ==
    LET schemes == Occurrences(url, <<":", "/", "/">>)
    IN IF schemes = {} THEN url ELSE From(url, Min(schemes) + 3)

Authority(url) == Before(AfterScheme(url), {"/", "?", "#"})

WithoutLogin(authority) ==
    From(authority, SelectLastInSeq(authority, LAMBDA piece : piece = "@") + 1)

WithoutPort(authority) ==
    IF IsPrefix(<<"[">>, authority)
    THEN SubSeq(authority, 1, IF Contains(authority, "]")
                              THEN SelectInSeq(authority, LAMBDA piece : piece = "]")
                              ELSE Len(authority))
    ELSE Before(authority, {":"})

WithoutDots(host) ==
    SubSeq(host, 1, SelectLastInSeq(host, LAMBDA piece : piece # "."))

WithoutWww(host) ==
    IF IsPrefix(<<"www", ".">>, host) THEN From(host, 3) ELSE host

HostShaped(host) == IF ToSet(host) \subseteq Punctuation THEN NoHost ELSE host

NormalizeHost(url) ==
    IF IsHostless(url)
    THEN NoHost
    ELSE HostShaped(WithoutWww(Lower(WithoutDots(WithoutPort(WithoutLogin(Authority(url)))))))

---------------------------------------------------------------------------
LabelStarts(host) == {1} \cup {i + 1 : i \in {j \in DOMAIN host : host[j] = "."}}

\* psl::domain: the public suffix, the last label if none is listed, and one more.
RegistrableAt(host, starts) ==
    LET suffix == Min({i \in starts : From(host, i) \in PublicSuffixes} \cup {Max(starts)})
    IN {i \in starts : i < suffix}

RegistrableDomain(host) ==
    IF \/ host \in Addresses
       \/ IsPrefix(<<"[">>, host)
       \/ RegistrableAt(host, LabelStarts(host)) = {}
    THEN NoHost
    ELSE From(host, Max(RegistrableAt(host, LabelStarts(host))))

\* DomainMatch, worst to best.
Unrelated == 0
Registrable == 1
Parent == 2
Exact == 3

IsParentDomain(secret, current) ==
    /\ IsStrictSuffix(secret, current)
    /\ current[Len(current) - Len(secret)] = "."

SameOwner(registrable, current) ==
    registrable # NoHost /\ registrable = current

\* The code tries the best match first.
MatchHosts(secret, current) ==
    Max({match \in Unrelated .. Exact :
            \/ match = Unrelated
            \/ /\ NoHost \notin {secret, current}
               /\ \/ match = Exact /\ secret = current
                  \/ match = Parent /\ IsParentDomain(secret, current)
                  \/ /\ match = Registrable
                     /\ SameOwner(RegistrableDomain(secret), RegistrableDomain(current))})

MatchDomain(domain, host) == MatchHosts(NormalizeHost(domain), NormalizeHost(host))

---------------------------------------------------------------------------
\* A context is [host, application], with NoHost and <<>> for None.

HostScore(domain, host) ==
    IF host = NoHost THEN Unrelated ELSE MatchDomain(domain, host)

ApplicationScore(secret, application) ==
    IF <<>> \notin {secret, application} /\ Lower(secret) = Lower(application)
    THEN Registrable
    ELSE Unrelated

\* An application counts as a registrable domain, if the host does not match.
DomainScore(secret, context) ==
    Max({HostScore(secret.domain, context.host),
         ApplicationScore(secret.application, context.application)})

\* User names and tags are fields like the others and left out.
Haystacks(secret) ==
    {<<"name", secret.name>>}
        \cup {<<"domain", d>> : d \in {secret.domain} \ {<<>>}}
        \cup {<<"application", a>> : a \in {secret.application} \ {<<>>}}

FuzzyScore(secret, query) ==
    IF query = NoQuery
    THEN 0
    ELSE Max({Fuzzy(field, query) : field \in Haystacks(secret)})

\* The first difference decides; sort_by is stable, so the place is the last.
Precedes(a, b) ==
    \E k \in DOMAIN a : /\ a[k] < b[k]
                        /\ \A l \in 1 .. k - 1 : a[l] = b[l]

\* Wherever anything is related to the context.
RetainedAnywhere(found, near, host) ==
    IF \E i \in found : near[i] # Unrelated THEN {i \in found : near[i] # Unrelated} ELSE found

\* On a host, if anything found is related to the context, the rest goes.
Retained(found, near, host) ==
    IF host # NoHost /\ \E i \in found : near[i] # Unrelated
    THEN {i \in found : near[i] # Unrelated}
    ELSE found

\* sort_by: at each place the one that so many others precede.
InOrder(kept, key) ==
    [n \in 1 .. Cardinality(kept) |->
        CHOOSE i \in kept : Cardinality({j \in kept : Precedes(key[j], key[i])}) = n - 1]

\* Typing before context.
SortedByTyping(secrets, near, fuzzy, kept) ==
    InOrder(kept, [i \in kept |->
        <<-fuzzy[i], -near[i], secrets[i].name, -secrets[i].updated, i>>])

Sorted(secrets, near, fuzzy, kept) ==
    InOrder(kept, [i \in kept |->
        <<-near[i], -fuzzy[i], secrets[i].name, -secrets[i].updated, i>>])

Ranked(secrets, near, fuzzy, host) ==
    LET found == {i \in DOMAIN secrets : fuzzy[i] # NoMatch}
        order == Sorted(secrets, near, fuzzy, Retained(found, near, host))
    IN [n \in DOMAIN order |-> secrets[order[n]]]

Rank(secrets, query, context) ==
    Ranked(secrets,
           [i \in DOMAIN secrets |-> DomainScore(secrets[i], context)],
           [i \in DOMAIN secrets |-> FuzzyScore(secrets[i], query)],
           context.host)
=================================================================================
