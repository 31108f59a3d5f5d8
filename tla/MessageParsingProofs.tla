------------------------ MODULE MessageParsingProofs ------------------------
(***************************************************************************)
(* What the parser and the rollout promise of every message, proved.       *)
(***************************************************************************)
EXTENDS MessageParsing, TLAPS

LEMMA Ranks == Rank = {1, 2, 3, 4, 5, 6, 7, 8, 9, 10, 11, 12}
  BY SMT DEF Rank

LEMMA Aliases ==
    /\ Registry[1].aliases = {"mmoney", "mtn", "momo", "mtnmomo"}
    /\ Registry[2].aliases = {"airtel", "airtelmoney"}
    /\ Registry[3].aliases = {"bk", "bkbank", "bkir", "bankofkigali"}
    /\ Registry[4].aliases = {"access", "accessbank"}
    /\ Registry[5].aliases = {"equity", "equitybank"}
    /\ Registry[6].aliases = {"im", "imbank"}
    /\ Registry[7].aliases = {"bpr", "bprbank", "bpratlasmara"}
    /\ Registry[8].aliases = {"cogebanque"}
    /\ Registry[9].aliases = {"ecobank"}
    /\ Registry[10].aliases = {"gtbank", "guarantytrustbank"}
    /\ Registry[11].aliases = {"ncba", "ncbabank"}
    /\ Registry[12].aliases = {"boa", "boarwanda", "bankofafrica"}
  BY SMT DEF Registry, Known

LEMMA Codes ==
    /\ Registry[1].code = "MTN_MOMO_RW"
    /\ Registry[2].code = "AIRTEL_MONEY_RW"
    /\ Registry[3].code = "BANK_OF_KIGALI_RW"
    /\ Registry[4].code = "ACCESS_BANK_RW"
    /\ Registry[5].code = "EQUITY_BANK_RW"
    /\ Registry[6].code = "I_AND_M_BANK_RW"
    /\ Registry[7].code = "BPR_BANK_RW"
    /\ Registry[8].code = "COGEBANQUE_RW"
    /\ Registry[9].code = "ECOBANK_RW"
    /\ Registry[10].code = "GTBANK_RW"
    /\ Registry[11].code = "NCBA_RW"
    /\ Registry[12].code = "BANK_OF_AFRICA_RW"
  BY SMT DEF Registry, Known

LEMMA AliasNamesOne ==
    ASSUME NEW k \in Rank, NEW l \in Rank, NEW s,
           s \in Registry[k].aliases, s \in Registry[l].aliases
    PROVE  k = l
  BY Aliases, Ranks, SMTT(60)

-----------------------------------------------------------------------------

\* A sender that is an alias of a provider names it, whatever else the text
\* mentions: no alias is shared, so the order of the registry plays no part
\* (identifyFinancialMessageProvider, financial-message-provider.registry.ts:88-96).
THEOREM SenderDecides ==
    ASSUME NEW sms, NEW k \in Rank, sms.sender \in Registry[k].aliases
    PROVE  ParseOf(sms).provider = Registry[k].code
<1>1. BySender(sms.sender) = {k}
  BY AliasNamesOne DEF BySender
<1>2. FirstOf({k}) = Registry[k].code
  <2>1. k \in Int
    BY Ranks
  <2>2. (CHOOSE j \in {k} : \A l \in {k} : j <= l) = k
    BY <2>1, SMT
  <2> QED
    BY <2>2 DEF FirstOf
<1> QED
  BY <1>1, <1>2, SMT DEF ParseOf, Identify

\* Without such a sender only the text counts, and a text that names nobody
\* leaves the message without a provider: no bank is guessed
\* (identifyFinancialMessageProvider, financial-message-provider.registry.ts:98-102).
THEOREM NothingIsGuessed ==
    ASSUME NEW sms, \A k \in Rank : sms.sender \notin Registry[k].aliases,
           sms.evidence \cap Code = {}
    PROVE  ParseOf(sms).provider = None
<1>1. BySender(sms.sender) = {}
  BY DEF BySender
<1>2. ByEvidence(sms.evidence) = {}
  BY DEF ByEvidence, Code
<1> QED
  BY <1>1, <1>2, SMT DEF ParseOf, Identify, FirstOf

-----------------------------------------------------------------------------

LEMMA ReadFields ==
    ASSUME NEW sms, NEW enabled
    PROVE  LET parsed == Read(sms, enabled)
               provider == Identify(sms)
               direction == Direction(sms.words)
               trusted == provider = None \/ provider \in enabled IN
           /\ parsed.provider = provider
           /\ parsed.direction = direction
           /\ parsed.amount = sms.amount
           /\ parsed.occurredAt = IF direction = "UNKNOWN" THEN None ELSE sms.receivedAt
           /\ trusted => /\ parsed.status = StatusOf(provider, direction, sms.amount)
                         /\ parsed.confidence =
                                Confidence(provider, direction, sms.amount, sms.reference)
           /\ ~trusted => parsed.status = "NEEDS_DETAILS" /\ parsed.confidence = 0
  BY SMT DEF Read, RolledOut, ParseOf

LEMMA Directions ==
    ASSUME NEW words
    PROVE  /\ Direction(words) = "DEBIT" <=> words = {"debit"}
           /\ Direction(words) = "UNKNOWN"
                <=> "reversal" \notin words /\ "credit" \notin words /\ words # {"debit"}
  BY SMT DEF Direction

\* An import is stored as parsed exactly when its provider is known and
\* enabled, an amount was found and money came in or was given back; a debit
\* never is, and any word of a credit outweighs those of a debit
\* (parseStatus, financial-message-parser.service.ts:153-171;
\* applyProviderRollout, financial-message-rollout.service.ts:53-65).
THEOREM ParsedExactly ==
    ASSUME NEW sms \in Sms, NEW enabled, None \notin enabled
    PROVE  Read(sms, enabled).status = "PARSED" <=>
               /\ Read(sms, enabled).provider \in enabled
               /\ sms.amount # None
               /\ "reversal" \in sms.words \/ "credit" \in sms.words
<1> DEFINE provider == Identify(sms)
           direction == Direction(sms.words)
<1>1. sms.words \subseteq {"reversal", "credit", "debit"}
  BY SMT DEF Sms
<1>2. direction \notin {"DEBIT", "UNKNOWN"}
        <=> "reversal" \in sms.words \/ "credit" \in sms.words
  BY <1>1, Directions, SMT
<1>3. StatusOf(provider, direction, sms.amount) = "PARSED"
        <=> provider # None /\ sms.amount # None /\ direction \notin {"DEBIT", "UNKNOWN"}
  BY SMT DEF StatusOf
<1>4. CASE provider \in enabled
  BY <1>2, <1>3, <1>4, ReadFields, SMT
<1>5. CASE provider \notin enabled
  BY <1>3, <1>5, ReadFields, SMT
<1> QED
  BY <1>4, <1>5

\* A parsed import has a payment's time and a confidence of ninety or more,
\* and so high a confidence is given to nothing else but a rejected debit
\* (parse and confidence, financial-message-parser.service.ts:35-52, 173-187).
THEOREM ConfidenceTells ==
    ASSUME NEW sms \in Sms, None \notin Detail, NEW enabled
    PROVE  LET parsed == Read(sms, enabled) IN
           /\ parsed.status = "PARSED" => parsed.occurredAt # None /\ parsed.confidence >= 90
           /\ parsed.confidence >= 90 => parsed.status \in {"PARSED", "REJECTED"}
           /\ parsed.confidence \in 0..100
<1> DEFINE provider == Identify(sms)
           direction == Direction(sms.words)
           confidence == Confidence(provider, direction, sms.amount, sms.reference)
           status == StatusOf(provider, direction, sms.amount)
           whole == provider # None /\ direction # "UNKNOWN" /\ sms.amount # None
<1>1. confidence \in 0..100 /\ (confidence >= 90 <=> whole)
  BY SMT DEF Confidence
<1>2. /\ status = "PARSED" => whole
      /\ whole => status \in {"PARSED", "REJECTED"}
  BY SMT DEF StatusOf
<1>3. direction # "UNKNOWN" => Read(sms, enabled).occurredAt # None
  BY ReadFields, SMT DEF Sms
<1>4. CASE provider = None \/ provider \in enabled
  BY <1>1, <1>2, <1>3, <1>4, ReadFields, SMT
<1>5. CASE ~(provider = None \/ provider \in enabled)
  BY <1>5, ReadFields, SMT
<1> QED
  BY <1>4, <1>5
=============================================================================
