------------------------------- MODULE MCStorage -------------------------------
(***************************************************************************)
(* The storage engine beside its third pool: the two pools that keep the   *)
(* table locked during I/O, the files of a relation, and a page of         *)
(* records.  Which of them it is is chosen at the start; the variables of  *)
(* the others do not change.                                               *)
(***************************************************************************)
EXTENDS SweepHistory, RelationFiles, SlottedPages, TLC

CONSTANT Parts    \* those a run is about

VARIABLE part

storageVars == <<part, poolVars, fileVars, pageVars>>

(* Runs of zero to three bytes. *)
MCValues == {"a", "b"}
MCRecords == {<<>>, <<"a">>, <<"b">>, <<"a", "b">>, <<"b", "a", "a">>}

StorageInit ==
  /\ part \in Parts
  /\ Init /\ free = {} /\ FilesInit /\ PageInit
  /\ part # "pages" => layout = "Page"

StorageNext ==
  /\ UNCHANGED part
  /\ \/ part = "V1" /\ NextV1 /\ Remember /\ UNCHANGED <<fileVars, pageVars>>
     \/ part = "V2" /\ NextV2 /\ Remember /\ UNCHANGED <<fileVars, pageVars>>
     \/ part = "files" /\ FilesNext /\ UNCHANGED <<poolVars, pageVars>>
     \/ part = "pages" /\ PageNext /\ UNCHANGED <<poolVars, fileVars>>

StorageSpec == StorageInit /\ [][StorageNext]_storageVars

Symmetry == Permutations(Threads) \union Permutations(Pages) \union Permutations(Contents)
=============================================================================
