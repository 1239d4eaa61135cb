---------------------------- MODULE MCStockLevels ----------------------------
(* One item and one request, beside the refresh: the item is of either kind  *)
(* and may be edited from one to the other.                                  *)
EXTENDS StockLevels, TLC

CONSTANTS i1, p1

BulkRow(n) == [kind |-> "BULK", qty |-> n, min |-> 1, assigned |-> FALSE]

MCRows == {BulkRow(0), BulkRow(1), BulkRow(2)}

MCDtos == {[kind |-> "UNIQUE", assigned |-> TRUE]}
=============================================================================
