----------------------------- MODULE PriceTool ------------------------------
(***************************************************************************)
(* The tool change_product_price of app/tools.py inside its business       *)
(* table: two statements without a transaction around them, and the        *)
(* compensation that a rollback later executes with the same tool.  The    *)
(* changes are of one SKU; those of different SKUs do not meet.            *)
(*                                                                         *)
(*   price       products.price of the SKU                                 *)
(*   change[h]   a call and its reversal: position, requested price, the   *)
(*               price it read, and the price in its compensation          *)
(*   before[h]   the price that the call's UPDATE replaced                 *)
(*   alone[h]    no other UPDATE came between the call's SELECT and the    *)
(*               UPDATE of its reversal                                    *)
(***************************************************************************)
EXTENDS Naturals, FiniteSets

CONSTANTS Changes, Prices, FirstPrice

ASSUME PriceAssumption == FirstPrice \in Prices

VARIABLES price, change, before, alone
priceVars == <<price, change, before, alone>>

PriceInit ==
  /\ price = FirstPrice
  /\ change = [h \in Changes |-> [at |-> "idle", new |-> FirstPrice, old |-> FirstPrice, undo |-> FirstPrice]]
  /\ before = [h \in Changes |-> FirstPrice] /\ alone = [h \in Changes |-> FALSE]

-----------------------------------------------------------------------------

ChangeAt(h, l) == change[h].at = l
\* What the history variables make of an UPDATE by h.
Update(h, p) ==
  /\ price' = p /\ before' = [before EXCEPT ![h] = IF ChangeAt(h, "write") THEN price ELSE @]
  /\ alone' = [g \in Changes |-> g = h /\ alone[g]]

\* SELECT * FROM products: the price to be replaced.
ReadPrice(h, new) ==
  /\ ChangeAt(h, "idle")
  /\ change' = [change EXCEPT ![h] = [at |-> "write", new |-> new, old |-> price, undo |-> @.undo]]
  /\ alone' = [alone EXCEPT ![h] = TRUE] /\ UNCHANGED <<price, before>>

\* The SKU does not exist: nothing is changed.
SkuNotFound(h) ==
  /\ ChangeAt(h, "idle") /\ change' = [change EXCEPT ![h].at = "not_changed"]
  /\ UNCHANGED <<price, before, alone>>

\* Mutant: the compensation holds the new price.
WritePriceBack(h) ==
  /\ ChangeAt(h, "write") /\ Update(h, change[h].new)
  /\ change' = [change EXCEPT ![h] = [@ EXCEPT !.at = "changed", !.undo = change[h].new]]

\* UPDATE products; the result carries the compensation.
WritePrice(h) ==
  /\ ChangeAt(h, "write") /\ Update(h, change[h].new)
  /\ change' = [change EXCEPT ![h] = [@ EXCEPT !.at = "changed", !.undo = change[h].old]]

\* The UPDATE raises, with or without effect: there is no result and hence no
\* compensation.
WriteRaises(h) ==
  /\ ChangeAt(h, "write") /\ change' = [change EXCEPT ![h].at = "unknown"]
  /\ Update(h, change[h].new) \/ UNCHANGED <<price, before, alone>>

\* The rollback calls the tool again with its compensation's arguments.
ReverseReads(h) ==
  /\ ChangeAt(h, "changed")
  /\ change' = [change EXCEPT ![h] = [@ EXCEPT !.at = "reverse", !.new = change[h].undo, !.old = price]]
  /\ UNCHANGED <<price, before, alone>>

ReverseWrites(h) ==
  /\ ChangeAt(h, "reverse") /\ Update(h, change[h].new)
  /\ change' = [change EXCEPT ![h].at = "reversed"]

PriceNext == \E h \in Changes :
  \/ SkuNotFound(h) \/ WritePrice(h) \/ WriteRaises(h) \/ ReverseReads(h) \/ ReverseWrites(h)
  \/ \E p \in Prices : ReadPrice(h, p)

PriceSpec == PriceInit /\ [][PriceNext]_priceVars

-----------------------------------------------------------------------------
(* Properties                                                              *)

PriceTypeOK ==
  /\ price \in Prices /\ before \in [Changes -> Prices] /\ alone \in [Changes -> BOOLEAN]
  /\ change \in [Changes -> [at: {"idle", "write", "not_changed", "changed", "unknown", "reverse", "reversed"},
                             new: Prices, old: Prices, undo: Prices]]

\* The two statements are not one: of two changes at the same time, the
\* reversal of one may bring back a price the other had replaced.  But a change
\* that nothing came into, from its SELECT to its reversal's UPDATE, is undone
\* exactly, changes before and after it and failed ones notwithstanding.
ReversalRestores ==
  [][\A h \in Changes :
       alone[h] /\ ChangeAt(h, "reverse") /\ change'[h].at = "reversed" => price' = before[h]]_priceVars
=============================================================================
