--------------------- MODULE MCFinancialMessageImports ---------------------
(* Small instances of FinancialMessageImports for TLC.                     *)
EXTENDS ImportPilot, TLC

CONSTANTS i1, i2, e1, e2, p1, p2, r1, r2, plain, referenced,
          text1, text2, ref, low, high

MCDetails(amount, occurredAt, sender) ==
    [d \in Detail |-> CASE d = "amount" -> amount [] d = "occurredAt" -> occurredAt
                        [] d = "sender" -> sender]

Parsing == INSTANCE MessageParsing WITH Detail <- Value

\* A credit that names neither provider nor payer, and one from MTN with a
\* reference.
MCSms(sender, from, reference) ==
    [sender |-> sender, evidence |-> {}, words |-> {"credit"}, amount |-> low, from |-> from,
     reference |-> reference, receivedAt |-> low]

MCParsed(text, sms) ==
    LET parsed == Parsing!Read(sms, Enabled) IN
    [text |-> text, provider |-> parsed.provider, at |-> 0, reference |-> parsed.reference,
     details |-> MCDetails(parsed.amount, parsed.occurredAt, parsed.from),
     status |-> parsed.status]

MCParses ==
    plain :> MCParsed(text1, MCSms(None, None, None))
        @@ referenced :> MCParsed(text2, MCSms("mmoney", low, ref))

MCParse == [m \in Message |-> MCParses[m]]

\* A correction that completes the first message and gives it the reference of
\* the second, and one that erases both.
MCPatch ==
    {[details |-> MCDetails(None, None, low), reference |-> ref, erases |-> {}],
     [details |-> NoDetails, reference |-> None, erases |-> {"sender", "reference"}]}

MCSymmetry == Permutations(Import) \cup Permutations(Event)
              \cup Permutations(Payment) \cup Permutations(Request)
=============================================================================
