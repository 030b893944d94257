--------------------------- MODULE MCFiscalYears ---------------------------
(* A small book for TLC: a bank account, deposits of customers, capital, the two      *)
(* accounts of the configuration, on which revenue and expenses are booked as well,  *)
(* and depreciation with the contra account that accumulates it.                     *)
EXTENDS FiscalYears, TLC

CONSTANTS bank, deposits, capital, gains, losses, wear, worn, local, euro, d1, d2

AllAccounts == {bank, deposits, capital, gains, losses, wear, worn}
Types == bank :> "asset" @@ deposits :> "liability" @@ capital :> "equity"
         @@ gains :> "income" @@ losses :> "expense" @@ wear :> "expense" @@ worn :> "asset"
AllActivities == bank :> "none" @@ deposits :> "operating" @@ capital :> "financing"
         @@ gains :> "operating" @@ losses :> "operating" @@ wear :> "operating"
         @@ worn :> "investing"
Banks == {bank}
Worn == {worn}
Adjusted == {wear}
AllCurrencies == {local, euro}

Line(net, foreign) == [net |-> net, foreign |-> foreign]

\* A customer pays 4: 2 for a sale, 2 as a deposit in euro.  The owners pay in 3.  The
\* equipment loses 1 of its value.
Payment == <<bank, local>> :> Line(4, 0) @@ <<gains, local>> :> Line(-2, 0)
           @@ <<deposits, euro>> :> Line(-2, -2)
Contribution == <<bank, local>> :> Line(3, 0) @@ <<capital, local>> :> Line(-3, 0)
Depreciation == <<wear, local>> :> Line(1, 0) @@ <<worn, local>> :> Line(-1, 0)
AllEntries == {Payment, Contribution, Depreciation}

Rates == [d \in Dates |-> IF d = 0 THEN 1 ELSE 2]
Drafting == Permutations(DraftIds)
=============================================================================
