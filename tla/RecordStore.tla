------------------------------ MODULE RecordStore ------------------------------
(***************************************************************************)
(* What a page of records promises: a record keeps its slot and its        *)
(* content until it is deleted or the page is initialized again, and a     *)
(* slot is given to another record only after that.                        *)
(***************************************************************************)
EXTENDS Naturals, Sequences

CONSTANTS Records,    \* the records that are stored
          Deleted     \* what is in a slot whose record was deleted

VARIABLE records      \* what is in every slot

Init == records = <<>>

Insert(r) ==
  \/ records' = Append(records, r)
  \/ \E s \in DOMAIN records :
       records[s] = Deleted /\ records' = [records EXCEPT ![s] = r]

Delete(s) == records[s] # Deleted /\ records' = [records EXCEPT ![s] = Deleted]

Clear == records' = <<>>

Next ==
  \/ \E r \in Records : Insert(r)
  \/ \E s \in DOMAIN records : Delete(s)
  \/ Clear

Spec == Init /\ [][Next]_records
=============================================================================
