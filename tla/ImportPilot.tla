----------------------------- MODULE ImportPilot -----------------------------
(***************************************************************************)
(* What the pilot summary says of the imported messages: how many wait for *)
(* a review, whether that is alarming, and which providers are ready to be *)
(* enabled.  It is one query over the imports of some days, and writes     *)
(* nothing.                                                                *)
(***************************************************************************)
EXTENDS FinancialMessageImports

CONSTANTS
    Enabled,        \* enabledProviderCodes
    MinimumSample,  \* alertMinimumSampleSize
    ReviewPercent   \* alertNeedsReviewPercent

ASSUME PilotAssumption ==
    /\ Enabled \subseteq Provider
    /\ MinimumSample \in Nat \ {0} /\ ReviewPercent \in 1..100
    /\ IsFiniteSet(Import)

\* A message is trusted as it stands when its provider is enabled
\* (ParsedExactly of MessageParsingProofs, applyProviderRollout).
ASSUME RolloutAssumption ==
    \A m \in Message : Parse[m].status = "PARSED" => Parse[m].provider \in Enabled

\* The sample: the limit of 5000 rows is not reached.
Sample(days) == {i \in Import : Present(i) /\ imports[i].createdAt + days >= now}

Waiting(sample) == {i \in sample : imports[i].parse # "PARSED"}

\* The summary computes the share as a double, which exactly at the threshold
\* may fall short of it (29 of 100): the alarm is then one review late.
Alarming(sample) ==
    100 * Cardinality(Waiting(sample)) >= ReviewPercent * Cardinality(sample)

\* Mutant: the threshold itself does not count for a provider.
LaggingBeyond(group) ==
    100 * Cardinality(Waiting(group)) > ReviewPercent * Cardinality(group)

\* The same comparison, written once more for the groups.
Lagging(group) ==
    100 * Cardinality(Waiting(group)) >= ReviewPercent * Cardinality(group)

Insufficient(sample) == Cardinality(sample) < MinimumSample

Health(sample) ==
    CASE Insufficient(sample) -> "INSUFFICIENT_DATA"
      [] ~Insufficient(sample) /\ Alarming(sample) -> "NEEDS_ATTENTION"
      [] OTHER -> "HEALTHY"

Group(sample, provider) == {i \in sample : ProviderOf(i) = provider}

Groups(sample) == {ProviderOf(i) : i \in sample}

Readiness(sample, provider) ==
    LET group == Group(sample, provider) IN
    CASE Insufficient(group) -> "INSUFFICIENT_DATA"
      [] ~Insufficient(group) /\ Lagging(group) -> "NEEDS_ATTENTION"
      [] OTHER -> IF provider \in Enabled THEN "MONITORING" ELSE "READY_TO_ENABLE"

-----------------------------------------------------------------------------
(* Properties.                                                             *)

Windows == 1..MaxTime

\* A provider that is not enabled becomes ready by review alone: every detail of
\* what the summary counts as parsed was there or given by its owner, although
\* the parse status was computed from a row read before the write.  A detail
\* such a row lacks all the same is one its owner erased: a null is written, but
\* the status computed as if it had not been sent
\* (update, financial-message-review.service.ts:124-153; applyProviderRollout,
\* financial-message-rollout.service.ts:53-65).
ReadyIsReviewed ==
    \A days \in Windows, provider \in Provider \cup {None} :
        provider \notin Enabled /\ Readiness(Sample(days), provider) = "READY_TO_ENABLE" =>
            \A i \in Group(Sample(days), provider) \ Waiting(Sample(days)) :
                \A d \in Detail :
                    imports[i].details[d] # None \/ d \in imports[i].erased

\* When the summary raises the alarm, some provider of the same sample explains
\* it: not all of them are called ready or monitored (summary and
\* providerMetrics, financial-message-pilot.service.ts:82-90, 190-201).
AlarmNamesAProvider ==
    \A days \in Windows :
        Health(Sample(days)) = "NEEDS_ATTENTION" =>
            \E provider \in Groups(Sample(days)) :
                Readiness(Sample(days), provider) \in {"NEEDS_ATTENTION", "INSUFFICIENT_DATA"}
=============================================================================
