---------------------------- MODULE SymbolSlots ----------------------------
(***************************************************************************)
(* What the paper ledger promises of its positions, whatever the bars, the *)
(* timeframes and the failures: every symbol has one slot.  One commit     *)
(* serves one symbol.  The order in its slot may leave; an order that was  *)
(* never there may take it, if it is free or held by the opposing side,    *)
(* which then leaves in the same commit; and an order may take and leave   *)
(* the slot within one bar.  An order that left never comes back.          *)
(***************************************************************************)

CONSTANTS
  Orders,   \* the orders there may be
  Symbol,   \* the symbol of an order
  Sides     \* the sides a position may have

VARIABLES
  held,     \* the positions in a slot: [order, side]
  past      \* the orders whose position has ended

slots == <<held, past>>

\* The position in the slot of a symbol: at most one (uq_positions_open_symbol).
InSlot(s) == {h \in held : Symbol[h.order] = s}

OrdersOf(H) == {h.order : h \in H}

\* An order that may still take a slot: its position does not exist yet.
Fresh(d) == d \notin past \cup OrdersOf(held)

\* The slot is free, or held by the opposing side.
Available(s, side) == \A h \in InSlot(s) : h.side # side

----------------------------------------------------------------------------
Init == held = {} /\ past = {}

\* A stop or a target ends the position of a symbol.
Leave(s) ==
  /\ InSlot(s) # {}
  /\ held' = held \ InSlot(s)
  /\ past' = past \cup OrdersOf(InSlot(s))

\* A fill, or the two halves of a flip.
Take(d, side) ==
  /\ Fresh(d)
  /\ Available(Symbol[d], side)
  /\ held' = (held \ InSlot(Symbol[d])) \cup {[order |-> d, side |-> side]}
  /\ past' = past \cup OrdersOf(InSlot(Symbol[d]))

\* A fill whose own bar closes beyond its stop or target.
TakeAndLeave(d, side) ==
  /\ Fresh(d)
  /\ Available(Symbol[d], side)
  /\ held' = held \ InSlot(Symbol[d])
  /\ past' = past \cup OrdersOf(InSlot(Symbol[d])) \cup {d}

Next ==
  \/ \E d \in Orders : Leave(Symbol[d])
  \/ \E d \in Orders, side \in Sides : Take(d, side) \/ TakeAndLeave(d, side)

Spec == Init /\ [][Next]_slots
=============================================================================
