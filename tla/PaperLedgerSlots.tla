-------------------------- MODULE PaperLedgerSlots --------------------------
(***************************************************************************)
(* The paper ledger implements SymbolSlots: the OPEN rows of positions are *)
(* the slots, the CLOSED rows the past.                                    *)
(***************************************************************************)
EXTENDS PaperLedger

OpenRows == {d \in Decisions : IsOpen(positions, d)}

Slots == INSTANCE SymbolSlots WITH
  Orders <- Decisions,
  Symbol <- [d \in Decisions |-> DecisionSymbol(d)],
  held   <- {[order |-> d, side |-> positions[d].side] : d \in OpenRows},
  past   <- {d \in Decisions : IsClosed(positions, d)}

\* Every commit of the ledger serves the slot of one symbol, as SymbolSlots
\* allows, or leaves all slots alone: two positions are never open together,
\* an order is filled once, a flip has no half, and no failed, repeated or
\* restarted pass reopens, loses or replaces a position of the same side.
ImplementsSlots == Slots!Spec
=============================================================================
