--------------------------- MODULE MessageParsing ---------------------------
(***************************************************************************)
(* What ingest makes of a delivered message before it stores it: which     *)
(* provider sent it, in which direction money moved, what is missing, and  *)
(* whether the rollout trusts the provider.  A message is given by what    *)
(* the expressions of the parser find in it.                               *)
(***************************************************************************)
EXTENDS Integers

CONSTANTS
    Detail,     \* amounts, senders and moments a message may carry
    Reference,  \* provider references
    None        \* null

\* The registry: providers in the order they are tried, with the names their
\* messages come under, normalized.
Known(code, aliases) == [code |-> code, aliases |-> aliases]

Registry ==
    <<Known("MTN_MOMO_RW", {"mmoney", "mtn", "momo", "mtnmomo"}),
      Known("AIRTEL_MONEY_RW", {"airtel", "airtelmoney"}),
      Known("BANK_OF_KIGALI_RW", {"bk", "bkbank", "bkir", "bankofkigali"}),
      Known("ACCESS_BANK_RW", {"access", "accessbank"}),
      Known("EQUITY_BANK_RW", {"equity", "equitybank"}),
      Known("I_AND_M_BANK_RW", {"im", "imbank"}),
      Known("BPR_BANK_RW", {"bpr", "bprbank", "bpratlasmara"}),
      Known("COGEBANQUE_RW", {"cogebanque"}),
      Known("ECOBANK_RW", {"ecobank"}),
      Known("GTBANK_RW", {"gtbank", "guarantytrustbank"}),
      Known("NCBA_RW", {"ncba", "ncbabank"}),
      Known("BANK_OF_AFRICA_RW", {"boa", "boarwanda", "bankofafrica"})>>

Rank == 1..12
Code == {Registry[k].code : k \in Rank}

\* What the expressions find: evidence is the set of providers whose own one
\* matches, words of a credit may stand beside those of a debit, and any of
\* amount, payer and reference may be missing.  The sender is normalized.
Sms == [sender: STRING \cup {None}, evidence: SUBSET Code,
        words: SUBSET {"reversal", "credit", "debit"},
        amount: Detail \cup {None}, from: Detail \cup {None},
        reference: Reference \cup {None}, receivedAt: Detail]

\* find takes the first.
FirstOf(ranks) ==
    IF ranks = {} THEN None
    ELSE Registry[CHOOSE k \in ranks : \A l \in ranks : k <= l].code

BySender(sender) == {k \in Rank : sender \in Registry[k].aliases}
ByEvidence(evidence) == {k \in Rank : Registry[k].code \in evidence}

\* The text is searched only when the sender is nobody's alias.
Identify(sms) ==
    IF BySender(sms.sender) # {} THEN FirstOf(BySender(sms.sender))
    ELSE FirstOf(ByEvidence(sms.evidence))

Direction(words) ==
    CASE "reversal" \in words -> "REVERSAL"
      [] "reversal" \notin words /\ "credit" \in words -> "CREDIT"
      [] words = {"debit"} -> "DEBIT"
      [] OTHER -> "UNKNOWN"

StatusOf(provider, direction, amount) ==
    IF direction = "DEBIT" THEN "REJECTED"
    ELSE IF amount # None /\ provider # None /\ direction # "UNKNOWN" THEN "PARSED"
    ELSE "NEEDS_DETAILS"

\* In hundredths.
Confidence(provider, direction, amount, reference) ==
    LET points(found, worth) == IF found THEN worth ELSE 0 IN
    points(provider # None, 25) + points(direction # "UNKNOWN", 30)
        + points(amount # None, 35) + points(reference # None, 10)

ParseOf(sms) ==
    LET provider == Identify(sms)
        direction == Direction(sms.words) IN
    [provider |-> provider, direction |-> direction,
     status |-> StatusOf(provider, direction, sms.amount),
     amount |-> sms.amount, from |-> sms.from, reference |-> sms.reference,
     occurredAt |-> IF direction = "UNKNOWN" THEN None ELSE sms.receivedAt,
     confidence |-> Confidence(provider, direction, sms.amount, sms.reference)]

\* A provider that is not enabled yet is not trusted, whatever was found.
RolledOut(parsed, enabled) ==
    IF parsed.provider = None \/ parsed.provider \in enabled THEN parsed
    ELSE [parsed EXCEPT !.status = "NEEDS_DETAILS", !.confidence = 0]

\* What ingest stores.
Read(sms, enabled) == RolledOut(ParseOf(sms), enabled)
=============================================================================
