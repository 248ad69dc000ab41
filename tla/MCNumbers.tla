------------------------------ MODULE MCNumbers -----------------------------
(* The numbers of a rule, of a verdict and of a quote on small instances.
   RuleParams, MarketViews and Quotes share no state, so each is explored with
   the other two where they start. *)
EXTENDS MCMarketViews, MCQuotes, MCRuleParams

numbersVars == <<viewsVars, quoteVars, paramVars>>

ViewsAtRest == verdict = "idle" /\ feed = <<>>
Views(A) == QuoteInit /\ ParamsInit /\ A /\ UNCHANGED <<quoteVars, paramVars>>
Quotes(A) == ViewsAtRest /\ ParamsInit /\ A /\ UNCHANGED <<viewsVars, paramVars>>
Params(A) == ViewsAtRest /\ QuoteInit /\ A /\ UNCHANGED <<viewsVars, quoteVars>>

NumbersInit == ViewsInit /\ QuoteInit /\ ParamsInit
NumbersNext ==
  \/ Views(ViewsNext)
  \/ Quotes(QuoteNext /\ Small')
  \/ Params(ParamsNext)

NumbersSpec ==
  /\ NumbersInit /\ [][NumbersNext]_numbersVars
  /\ WF_numbersVars(Quotes(Tick))
  /\ WF_numbersVars(Quotes(Expire))
  /\ WF_numbersVars(Quotes(MintHit \/ MintMiss))
=============================================================================
