-------------------------- MODULE RetrievalSelection --------------------------
(***************************************************************************)
(* What a retrieval makes of the memories it is authorised for: the scoped *)
(* search, the relevance threshold, the ranking and the greedy context of  *)
(* complete memories (faiss_index.py search, domain/relevance.py,          *)
(* domain/ranking.py, domain/context.py, and service.py where it composes  *)
(* them).  The tokenizer is external: a text may count for any number of   *)
(* tokens, so a longer context may count for fewer.                        *)
(***************************************************************************)
EXTENDS Integers, FiniteSets, Sequences, SequencesExt

CONSTANTS
    MemoryIds,     \* numbers, in the order of their identifiers
    Scores,        \* similarity scores
    Threshold,     \* the approved relevance threshold
    Instants,
    Counts,        \* what count_tokens may return
    Limits,        \* that a request may have
    TokenBudgets,  \* that a request may have
    Null

\* A request may have a budget of 0.
ASSUME RequestAssumption == Limits \subseteq Nat \ {0} /\ TokenBudgets \subseteq Nat

\* Memories are finitely many and numbered; scores and instants are compared
\* as numbers; what is not there is not an instant.
ASSUME MemoryAssumption ==
    /\ MemoryIds \subseteq Int /\ IsFiniteSet(MemoryIds)
    /\ Scores \subseteq Int /\ Threshold \in Int
    /\ Instants \subseteq Int /\ Null \notin Instants
    /\ Counts \subseteq Nat

VARIABLES
    score,       \* of each authorised memory, against the query
    validFrom, createdAt, authority,
    tokenBudget, \* of the request
    step,        \* what the retrieval does next
    hits,        \* what the search returned, in its order
    ranked,      \* the relevant hits that wait for the context
    context,     \* the memories of the context, in order
    tokensUsed,
    exclusions,  \* <<memory, reason>>
    outcome,
    counted      \* what the tokenizer answered, by context

inputs == <<score, validFrom, createdAt, authority, tokenBudget>>
vars == <<inputs, step, hits, ranked, context, tokensUsed, exclusions, outcome, counted>>

Authority == [inferred |-> 0, explicit_user |-> 1]

Init ==
    /\ score \in [MemoryIds -> Scores]
    /\ validFrom \in [MemoryIds -> Instants \cup {Null}]
    /\ createdAt \in [MemoryIds -> Instants]
    /\ authority \in [MemoryIds -> DOMAIN Authority]
    /\ tokenBudget \in TokenBudgets
    /\ step = "search"
    /\ hits = <<>>
    /\ ranked = <<>>
    /\ context = <<>>
    /\ tokensUsed = 0
    /\ exclusions = <<>>
    /\ outcome = Null
    /\ counted = [c \in {} |-> 0]

-----------------------------------------------------------------------------

RecencyTime(m) == IF validFrom[m] # Null THEN validFrom[m] ELSE createdAt[m]

\* Mutant: authority goes before recency.
SortKeyAuthorityFirst(m) == <<score[m], Authority[authority[m]], RecencyTime(m), -m>>

SortKey(m) == <<score[m], RecencyTime(m), Authority[authority[m]], -m>>

\* m is sorted before n: the first of their keys that differs is greater.
Before(m, n) ==
    \E i \in 1..4 :
        /\ SortKey(m)[i] > SortKey(n)[i]
        /\ \A j \in 1..(i - 1) : SortKey(m)[j] = SortKey(n)[j]

\* The sequence of a set in the order of a sort key.
Sorted(memories, precedes(_, _)) ==
    CHOOSE s \in [1..Cardinality(memories) -> memories] :
        \A i, j \in DOMAIN s : i < j => precedes(s[i], s[j])

RankCandidates(candidates) == Sorted(candidates, Before)

IsRelevant(m) == score[m] >= Threshold

\* The best scores, as many as the limit allows.  FAISS decides which of equal
\* scores it returns, before any ranking; their order among the hits is fixed
\* here, for nothing but the order of the exclusions depends on it.
NumberOfHits(limit) ==
    IF limit < Cardinality(MemoryIds) THEN limit ELSE Cardinality(MemoryIds)

BetterHit(m, n) == score[m] > score[n] \/ (score[m] = score[n] /\ m < n)

Search ==
    /\ step = "search"
    /\ \E limit \in Limits : \E found \in kSubset(NumberOfHits(limit), MemoryIds) :
          /\ \A m \in found, n \in MemoryIds \ found : score[m] >= score[n]
          /\ hits' = Sorted(found, BetterHit)
    /\ step' = "select"
    /\ UNCHANGED <<inputs, ranked, context, tokensUsed, exclusions, outcome, counted>>

Excluded(memories, reason) == [i \in DOMAIN memories |-> <<memories[i], reason>>]

\* Hits below the threshold are excluded, in the order of the hits.
SelectRelevant ==
    /\ step = "select"
    /\ LET relevant == {m \in ToSet(hits) : IsRelevant(m)}
           below == Sorted(ToSet(hits) \ relevant, BetterHit)
       IN /\ ranked' = RankCandidates(relevant)
          /\ exclusions' = Excluded(below, "below_relevance_threshold")
          /\ IF relevant = {}
             THEN step' = "done" /\ outcome' = "no_relevant_memory"
             ELSE step' = "fill" /\ UNCHANGED outcome
    /\ UNCHANGED <<inputs, hits, context, tokensUsed, counted>>

\* Mutant: a context that fills the budget exactly does not fit.
FitsBelow(tokens) == tokens < tokenBudget

Fits(tokens) == tokens <= tokenBudget

Include(prospective, tokens) ==
    /\ context' = prospective
    /\ tokensUsed' = tokens
    /\ ranked' = Tail(ranked)
    /\ UNCHANGED exclusions

\* Mutant: the count of the block that does not fit is kept.
ExcludeKeepingCount(tokens) ==
    /\ exclusions' = Append(exclusions, <<Head(ranked), "budget_exceeded">>)
    /\ tokensUsed' = tokens
    /\ ranked' = Tail(ranked)
    /\ UNCHANGED context

\* Mutant: the first block that does not fit ends the context.
ExcludeAndStop(tokens) ==
    /\ exclusions' = Append(exclusions, <<Head(ranked), "budget_exceeded">>)
    /\ ranked' = <<>>
    /\ UNCHANGED <<context, tokensUsed>>

\* A block that does not fit does not keep later ones out.
Exclude(tokens) ==
    /\ exclusions' = Append(exclusions, <<Head(ranked), "budget_exceeded">>)
    /\ ranked' = Tail(ranked)
    /\ UNCHANGED <<context, tokensUsed>>

\* One turn of the loop of select_context: a block is whole in or out.
IncludeOrExclude ==
    /\ step = "fill" /\ ranked # <<>>
    /\ LET prospective == Append(context, Head(ranked))
       IN \E tokens \in Counts :
            /\ counted' = [c \in DOMAIN counted \cup {prospective} |->
                              IF c = prospective THEN tokens ELSE counted[c]]
            /\ IF Fits(tokens) THEN Include(prospective, tokens) ELSE Exclude(tokens)
    /\ UNCHANGED <<inputs, step, hits, outcome>>

Finish ==
    /\ step = "fill" /\ ranked = <<>>
    /\ step' = "done"
    /\ outcome' = IF context = <<>> THEN "budget_excluded" ELSE "memories_selected"
    /\ UNCHANGED <<inputs, hits, ranked, context, tokensUsed, exclusions, counted>>

Next == Search \/ SelectRelevant \/ IncludeOrExclude \/ Finish
Spec == Init /\ [][Next]_vars

-----------------------------------------------------------------------------

Done == step = "done"
ExcludedFor(reason) == {m \in MemoryIds : <<m, reason>> \in ToSet(exclusions)}

\* Every hit is in the answer exactly once, selected or excluded, and the
\* outcome tells which of the empty answers an empty answer is.
EveryHitAccountedFor ==
    Done =>
        /\ Len(context) + Len(exclusions) = Len(hits)
        /\ ToSet(hits) = ToSet(context) \cup ExcludedFor("below_relevance_threshold")
                                         \cup ExcludedFor("budget_exceeded")
        /\ outcome = IF context # <<>> THEN "memories_selected"
                     ELSE IF \E m \in MemoryIds : score[m] >= Threshold THEN "budget_excluded"
                     ELSE "no_relevant_memory"

\* The reported count is the tokenizer's count of exactly the context that is
\* returned, within the budget, whatever was tried and left out in between.
TokensAreExact ==
    /\ tokensUsed <= tokenBudget
    /\ tokensUsed = IF context = <<>> THEN 0 ELSE counted[context]

\* A relevant memory with a better score than a selected one is selected or
\* did not fit, and the answer is in the documented order: score, then
\* recency, then explicit evidence, then identifier.
NothingBetterLeftOut ==
    Done =>
        /\ \A m \in ToSet(context), n \in MemoryIds :
              score[n] > score[m] => n \in ToSet(context) \cup ExcludedFor("budget_exceeded")
        /\ \A i, j \in DOMAIN context : i < j =>
              LET m == context[i]
                  n == context[j]
              IN /\ score[m] >= score[n]
                 /\ score[m] = score[n] => RecencyTime(m) >= RecencyTime(n)
                 /\ score[m] = score[n] /\ RecencyTime(m) = RecencyTime(n) =>
                       authority[m] = "explicit_user" \/ authority[n] = "inferred"

\* A memory left out for the budget was counted behind every better memory
\* that was selected, and only behind those, and that context did not fit.
BudgetExclusionsAreReal ==
    Done => \A m \in ExcludedFor("budget_exceeded") :
        \E k \in 0..Len(context) :
            /\ \A i \in DOMAIN context : i <= k <=> Before(context[i], m)
            /\ counted[Append(SubSeq(context, 1, k), m)] > tokenBudget

=============================================================================
