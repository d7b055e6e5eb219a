---------------------------- MODULE MCDraftEditing ----------------------------
(* Instances of DraftEditing for TLC.                                           *)
EXTENDS DraftEditing, TLC

\* Lines come with a price of 1, a foreign one or one that does not say so; edits of the
\* first line change its foreign price, or its quantity and nothing else, or delete it;
\* the rate may go up.
Update == [op |-> "update", line |-> 1, quantity |-> Unset, price |-> Unset, foreign |-> Unset]
MCRequest ==
    [op : {"add"}, line : {1}, quantity : {1}, price : {1}, foreign : {Null}]
      \cup [op : {"add"}, line : {1}, quantity : {1}, price : {0}, foreign : {1}]
      \cup {[Update EXCEPT !.foreign = 2], [Update EXCEPT !.quantity = 2]}
      \cup [op : {"header"}, line : {1}, rate : {2}]
      \cup [op : {"delete_line", "post", "delete"}, line : {1}]

Symmetry == Permutations(Txn)
=============================================================================
