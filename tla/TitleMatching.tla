---------------------------- MODULE TitleMatching ----------------------------
(***************************************************************************)
(* Role profiles matched against a job title                               *)
(* (services/title_normalization.py, score_role_profiles in                *)
(* services/job_eligibility.py).  A title, a pattern and the text of a     *)
(* posting are sequences of normalized tokens.                             *)
(***************************************************************************)
EXTENDS Inputs, SequencesExt

CONSTANTS
    DefaultPolicy,      \* config/job-discovery-policy.yml: its sections
    WordsContaining,    \* required text -> the words it stands in
    Titles, Patterns    \* inputs

ASSUME ProfilesAssumption ==
    \A p \in DefaultPolicy.role_profiles :
      /\ p.eligibility \in {"primary", "secondary"}
      /\ p.requireAny \subseteq DOMAIN WordsContaining
ASSUME TokensAssumption ==
    \A tokens \in Titles \union Patterns : tokens \in Seq(Range(tokens))

(* Mutant: the search starts over at a token that does not fit.            *)
StartingOver(needle, token, found) ==
    IF found = Len(needle) THEN found
    ELSE IF token = needle[found + 1] THEN found + 1 ELSE 0

(* One pass over the title, taking the pattern's tokens as they come.  The *)
(* search for a contiguous phrase before it finds nothing more.            *)
Further(needle, token, found) ==
    IF found < Len(needle) /\ token = needle[found + 1] THEN found + 1 ELSE found
TokensInOrder(needle, title) ==
    LET found[i \in 0..Len(title)] ==
          IF i = 0 THEN 0 ELSE Further(needle, title[i], found[i - 1])
    IN found[Len(title)] = Len(needle)

Swapped(tokens, from, to) ==
    [i \in DOMAIN tokens |-> IF tokens[i] = from THEN to ELSE tokens[i]]

(* _expand_manager_variants                                                *)
Variants(pattern) == {pattern, Swapped(pattern, "managers", "manager"),
                      Swapped(pattern, "manager", "managers")}

PatternInTitle(pattern, title) ==
    /\ pattern # <<>> /\ title # <<>>
    /\ \E v \in Variants(pattern) : TokensInOrder(v, title)

(* A run of adjacent tokens: in a long text, tokens that are merely in     *)
(* order mean nothing.                                                     *)
Contiguous(phrase, tokens) ==
    /\ phrase # <<>>
    /\ \E i \in 0..Len(tokens) - Len(phrase) :
         SubSeq(tokens, i + 1, i + Len(phrase)) = phrase

-----------------------------------------------------------------------------
(* score_role_profiles.  What a profile requires may stand inside another  *)
(* word.  Which of the profiles that fit scores best does not matter: any  *)
(* primary one outranks every secondary one.                               *)
Fits(profile, title, body) ==
    /\ \E p \in profile.patterns : PatternInTitle(p, title)
    /\ profile.requireAny # {} =>
         \E r \in profile.requireAny :
           Range(title \o body) \intersect WordsContaining[r] # {}

Kinds(policy, title, body) ==
    {p.eligibility : p \in {q \in policy.role_profiles : Fits(q, title, body)}}

Rejected(policy, title, body) ==
    \/ \E p \in policy.role_reject_patterns : PatternInTitle(p, title)
    \/ \E p \in policy.domain_reject_patterns : Contiguous(p, title \o body)

(* Rejections come first, then any primary profile, then any secondary.    *)
RoleOfKinds(rejected, kinds) ==
    CASE rejected \/ kinds = {} -> "reject"
      [] ~rejected /\ "primary" \in kinds -> "primary"
      [] OTHER -> "secondary"
RoleUnder(policy, title, body) ==
    RoleOfKinds(Rejected(policy, title, body), Kinds(policy, title, body))
RoleOf(title, body) == RoleUnder(DefaultPolicy, title, body)
-----------------------------------------------------------------------------
AskTitle ==
    \E title \in Titles, pattern \in Patterns :
      Given("title", [title |-> title, pattern |-> pattern])
TitleSpec == input = NoInput /\ [][AskTitle]_input

(* A pattern is found exactly when its tokens can be placed in the title   *)
(* in order, all its managers in the singular or all in the plural: the    *)
(* greedy pass misses no placement (title_normalization.py:50-72).         *)
TitleMatchIsEmbedding ==
    Is("title") =>
      LET title == Asked.title
          pattern == Asked.pattern
          Places == {f \in [DOMAIN pattern -> DOMAIN title] :
                       \A i, j \in DOMAIN pattern : i < j => f[i] < f[j]}
      IN PatternInTitle(pattern, title) <=>
           pattern # <<>> /\ \E v \in Variants(pattern), f \in Places :
             \A i \in DOMAIN pattern : title[f[i]] = v[i]
=============================================================================
