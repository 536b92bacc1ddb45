-------------------------- MODULE MCPaperLedger --------------------------
(***************************************************************************)
(* Small instances of PaperLedger for TLC.  Prices are around 2: a long is *)
(* stopped at 1 and takes profit at 3, a short the other way round.        *)
(***************************************************************************)
EXTENDS PaperLedgerSlots, FiniteSetsExt

\* One symbol traded on one timeframe.
OneUnit    == {1}
OneSymbol  == [u \in Units |-> "EURUSD"]
OneTf      == [u \in Units |-> 1]

\* One symbol traded on two timeframes.
TwoUnits   == {1, 2}
TwoTfs     == [u \in Units |-> u]

\* A bar that moves nothing and one that falls from 3 to 1.
Quiet == [open |-> 2, close |-> 2]
Fall  == [open |-> 3, close |-> 1]
FallingBars == {Quiet, Fall}

Long  == [side |-> "LONG", sl |-> 1, tp |-> 3]
Short == [side |-> "SHORT", sl |-> 3, tp |-> 1]
LongOnly     == {Long}
BothBrackets == {Long, Short}

----------------------------------------------------------------------------
\* models/paper_ledger.py:139 has closed positions carry entry and exit costs
\* netted: with nothing open, the wallet's cash is the start equity plus the
\* net PnL of all closed positions.
CashIsNetOfTrades ==
  (\A d \in Decisions : ~ IsOpen(positions, d)) =>
    RestoredCash =
      StartEquity + MapThenSumSet(LAMBDA d : positions[d].net_pnl,
                                  {d \in Decisions : IsClosed(positions, d)})
=============================================================================
