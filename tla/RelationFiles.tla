----------------------------- MODULE RelationFiles -----------------------------
(***************************************************************************)
(* The files of one relation: DiskManager (project1/disk_manager.rs), which *)
(* keeps an open RelationFile per segment, and RelationFile                 *)
(* (relation_file.rs), which reads, writes and allocates pages.  Several    *)
(* RelationFiles can be open on one file; each has an allocation lock.      *)
(* A file is measured in half pages, so that a write that is cut leaves it  *)
(* misaligned.                                                              *)
(***************************************************************************)
EXTENDS Integers, Sequences, FiniteSets, Functions

CONSTANTS Clients,       \* the threads that use the manager
          Segments,      \* the segments that are used: 0 .. n
          PagesPerFile,  \* PAGES_PER_FILE
          MaxPages,      \* bound on the pages of a file
          MaxOpens,      \* bound on the RelationFiles ever opened
          Stored,        \* what clients write to a page
          NoFile,        \* "no RelationFile"
          Hole           \* a page that was allocated and not written since

ASSUME FilesAssumption ==
  /\ Segments \subseteq Nat /\ PagesPerFile \in Nat \ {0}
  /\ MaxPages \in Nat /\ MaxOpens \in Nat
  /\ NoFile \notin Nat /\ NoFile \notin Clients
  /\ Hole \notin Stored

VARIABLES
  opened,     \* the RelationFiles opened so far: the segment of each
  relations,  \* open_relations: the RelationFile the manager has per segment
  creations,  \* how many of them create_relation opened, per segment
  size,       \* the length of each file, in half pages
  body,       \* what is in the pages of each file
  lockedBy,   \* who holds the allocation lock of each RelationFile
  doing,      \* where each client is
  file,       \* the RelationFile of its call
  seen,       \* the file length it read in allocate_page, in half pages
  number,     \* the page number it will return
  given       \* the page numbers each RelationFile has returned, in order
fileVars == <<opened, relations, creations, size, body, lockedBy, doing, file,
              seen, number, given>>

Files == 1..MaxOpens
PageNumbers == 0..MaxPages - 1
SegmentOf(n) == n \div PagesPerFile

FilesInit ==
  /\ opened = <<>>
  /\ relations = [s \in Segments |-> NoFile]
  /\ creations = [s \in Segments |-> 0]
  /\ size = [s \in Segments |-> 0]
  /\ body = [s \in Segments |-> [n \in PageNumbers |-> Hole]]
  /\ lockedBy = [i \in Files |-> NoFile]
  /\ doing = [c \in Clients |-> "idle"]
  /\ file = [c \in Clients |-> NoFile]
  /\ seen = [c \in Clients |-> 0]
  /\ number = [c \in Clients |-> 0]
  /\ given = [i \in Files |-> <<>>]

(* RelationFile::open.  An existing file is kept as it is. *)
Open(s) == Len(opened) < MaxOpens /\ opened' = Append(opened, s)

GoTo(c, l) == doing' = [doing EXCEPT ![c] = l]

NoAllocation == UNCHANGED <<size, body, lockedBy, seen, number, given>>

(* create_relation opens the file before it takes the write lock, and replaces
   what the manager has. *)
CreateRelation(c, s) ==
  /\ doing[c] = "idle"
  /\ Open(s)
  /\ file' = [file EXCEPT ![c] = Len(opened) + 1]
  /\ creations' = [creations EXCEPT ![s] = @ + 1]
  /\ GoTo(c, "insert")
  /\ UNCHANGED relations /\ NoAllocation

InsertRelation(c) ==
  /\ doing[c] = "insert"
  /\ relations' = [relations EXCEPT ![opened[file[c]]] = file[c]]
  /\ GoTo(c, "idle")
  /\ UNCHANGED <<opened, creations, file>> /\ NoAllocation

(* get_relation: a look under the read lock, then one under the write lock. *)
GetRelation(c, s) ==
  /\ doing[c] = "idle"
  /\ IF relations[s] # NoFile
     THEN file' = [file EXCEPT ![c] = relations[s]] /\ UNCHANGED <<doing, number>>
     ELSE GoTo(c, "open") /\ number' = [number EXCEPT ![c] = s] /\ UNCHANGED file
  /\ UNCHANGED <<opened, relations, creations, size, body, lockedBy, seen, given>>

(* Mutation of OpenRelation: the second look is left out. *)
OpenRelationBlindly(c) ==
  LET s == number[c] IN
  /\ doing[c] = "open"
  /\ Open(s)
  /\ file' = [file EXCEPT ![c] = Len(opened) + 1]
  /\ relations' = [relations EXCEPT ![s] = Len(opened) + 1]
  /\ GoTo(c, "idle")
  /\ number' = [number EXCEPT ![c] = 0]
  /\ UNCHANGED <<creations, size, body, lockedBy, seen, given>>

OpenRelation(c) ==
  LET s == number[c] IN
  /\ doing[c] = "open"
  /\ IF relations[s] # NoFile
     THEN file' = [file EXCEPT ![c] = relations[s]] /\ UNCHANGED <<opened, relations>>
     ELSE /\ Open(s)
          /\ file' = [file EXCEPT ![c] = Len(opened) + 1]
          /\ relations' = [relations EXCEPT ![s] = Len(opened) + 1]
  /\ GoTo(c, "idle")
  /\ number' = [number EXCEPT ![c] = 0]
  /\ UNCHANGED <<creations, size, body, lockedBy, seen, given>>

(* RelationFile::open fails under the write lock, and get_relation with it. *)
OpenFails(c) ==
  /\ doing[c] = "open" /\ relations[number[c]] = NoFile
  /\ GoTo(c, "idle")
  /\ number' = [number EXCEPT ![c] = 0]
  /\ UNCHANGED <<opened, relations, creations, size, body, lockedBy, file, seen, given>>

NoOpening == UNCHANGED <<opened, relations, creations>>

(* Mutation of AllocatePage: the allocation lock is not waited for. *)
AllocatePageUnlocked(c) ==
  /\ doing[c] = "idle" /\ file[c] # NoFile
  /\ size[opened[file[c]]] + 2 <= 2 * MaxPages
  /\ lockedBy' = [lockedBy EXCEPT ![file[c]] = c]
  /\ seen' = [seen EXCEPT ![c] = size[opened[file[c]]]]
  /\ GoTo(c, "count")
  /\ NoOpening /\ UNCHANGED <<size, body, file, number, given>>

(* allocate_page, up to its own look at the length of the file. *)
AllocatePage(c) ==
  /\ doing[c] = "idle" /\ file[c] # NoFile
  /\ lockedBy[file[c]] = NoFile /\ size[opened[file[c]]] + 2 <= 2 * MaxPages
  /\ lockedBy' = [lockedBy EXCEPT ![file[c]] = c]
  /\ seen' = [seen EXCEPT ![c] = size[opened[file[c]]]]
  /\ GoTo(c, "count")
  /\ NoOpening /\ UNCHANGED <<size, body, file, number, given>>

(* The lock is released; the locals are reset. *)
AllocationEnds(c) ==
  /\ lockedBy' = [lockedBy EXCEPT ![file[c]] = NoFile]
  /\ seen' = [seen EXCEPT ![c] = 0]
  /\ number' = [number EXCEPT ![c] = 0]
  /\ GoTo(c, "idle")

(* page_count looks again; a length that is not a whole number of pages is an error. *)
PageCount(c) ==
  LET length == size[opened[file[c]]] IN
  /\ doing[c] = "count"
  /\ IF length % 2 = 0
     THEN /\ GoTo(c, "write")
          /\ number' = [number EXCEPT ![c] = length \div 2]
          /\ UNCHANGED <<lockedBy, seen>>
     ELSE AllocationEnds(c)
  /\ NoOpening /\ UNCHANGED <<size, body, file, given>>

Longer(s, length) == size' = [size EXCEPT ![s] = IF length > @ THEN length ELSE @]

WriteZeroes(c) ==
  LET s == opened[file[c]] IN
  /\ doing[c] = "write"
  /\ Longer(s, seen[c] + 2)
  /\ body' = [body EXCEPT ![s] = [n \in PageNumbers |->
                 IF n \in {seen[c] \div 2, (seen[c] + 1) \div 2} THEN Hole ELSE @[n]]]
  /\ given' = [given EXCEPT ![file[c]] = Append(@, number[c])]
  /\ AllocationEnds(c)
  /\ NoOpening /\ UNCHANGED file

(* The write fails: nothing was written, or a part of the page. *)
WriteFails(c) ==
  /\ doing[c] = "write"
  /\ \/ UNCHANGED size
     \/ Longer(opened[file[c]], seen[c] + 1)
  /\ AllocationEnds(c)
  /\ NoOpening /\ UNCHANGED <<body, file, given>>

(* DiskManager::write_page, by a client that was given the page number, once the
   manager has its file.  It finds the file by the number, and the place in it by
   the number again.  The write gets as far as half page `end`. *)
PutPage(c, n, v, end) ==
  LET s == SegmentOf(n) IN
  /\ doing[c] = "idle"
  /\ \E i \in Files : n \in Range(given[i])
  /\ s \in Segments /\ relations[s] # NoFile
  /\ Longer(s, end)
  /\ body' = [body EXCEPT ![s][n] = v]
  /\ NoOpening /\ UNCHANGED <<lockedBy, doing, file, seen, number, given>>

WritePage(c, n, v) == PutPage(c, n, v, 2 * (n + 1))

(* The write returns an error when a part of the page is written; one that fails
   before that changes nothing. *)
WritePageFails(c, n, v) == PutPage(c, n, v, 2 * n + 1)

AllocateStep(c) ==
  \/ AllocatePage(c) \/ PageCount(c) \/ WriteZeroes(c) \/ WriteFails(c)

FilesNext ==
  \E c \in Clients :
    \/ \E s \in Segments : CreateRelation(c, s) \/ GetRelation(c, s)
    \/ InsertRelation(c) \/ OpenRelation(c) \/ OpenFails(c)
    \/ AllocateStep(c)
    \/ \E n \in PageNumbers, v \in Stored : WritePage(c, n, v) \/ WritePageFails(c, n, v)

FilesSpec == FilesInit /\ [][FilesNext]_fileVars

-----------------------------------------------------------------------------
Opens(s) == {i \in DOMAIN opened : opened[i] = s}

(* The file of segment s was opened once, and no page number was allocated from
   another segment, where the numbers begin with 0 as well. *)
Sole(s) ==
  /\ Cardinality(Opens(s)) = 1
  /\ \A i \in DOMAIN opened : given[i] # <<>> => opened[i] = s

(* get_relation alone opens a file once.  The sole file in use gives every page
   number once, in order, and the pages it gave are in it; whoever allocates has
   the lock (create_relation, get_relation, allocate_page). *)
FilesInv ==
  /\ \A s \in Segments : Cardinality(Opens(s)) <= creations[s] + 1
  /\ \A i \in DOMAIN opened :
       Sole(opened[i]) =>
         /\ \A j, k \in DOMAIN given[i] : j < k => given[i][j] < given[i][k]
         /\ \A j \in DOMAIN given[i] : 2 * (given[i][j] + 1) <= size[opened[i]]
  /\ \A c \in Clients : doing[c] \in {"count", "write"} => lockedBy[file[c]] = c

(* In the sole file in use no page that was written is zeroed by a later
   allocation, although writes take no lock and can be cut (allocate_page, write_page). *)
PagesKept ==
  [][\A s \in Segments, n \in PageNumbers :
       Sole(s) /\ body[s][n] # Hole => body'[s][n] # Hole]_fileVars
=============================================================================
