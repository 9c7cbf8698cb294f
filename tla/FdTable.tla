------------------------------ MODULE FdTable ------------------------------
(***************************************************************************)
(* The descriptor table (fdtable.c): a linked list of thread_info records,  *)
(* newest first.  An entry is named by its address; next_node, which        *)
(* fdtable_add reads before it links the new entry, is the list as it was   *)
(* when it was read.                                                        *)
(***************************************************************************)
EXTENDS Integers, Sequences, FiniteSets

CONSTANTS
  Entries,    \* addresses calloc can return
  NULL,       \* the null pointer, and "no thread"
  MAXTHREAD   \* limit on the number of entries

ASSUME MaxThreadAssumption == MAXTHREAD \in Nat
ASSUME NullAssumption == NULL \notin Entries

VARIABLES
  table,      \* the list from header->next to tail, as addresses
  allocated,  \* addresses that are allocated and not freed
  entry,      \* contents of the thread_info at each address
  thr_num     \* the entry counter

tableVars == <<table, allocated, entry, thr_num>>

NoMessage == [type |-> "NONE", from |-> NULL, value |-> 0, size |-> 0, err |-> 0]

(* A thread_info after calloc and sem_init: empty and empty2 are 1 - full   *)
(* and 1 - full2, because a lane is used in one step here (Ipc has its      *)
(* steps).                                                                  *)
NewEntry == [thr_fd |-> -12, NetorFile |-> 0, full |-> 0, full2 |-> 0,
             message |-> NoMessage]

fdtable_init ==
  /\ table = <<>>
  /\ allocated = {}
  /\ entry = [e \in Entries |-> NewEntry]
  /\ thr_num = 0

Linked == {table[i] : i \in DOMAIN table}

(* The walk of the lookups: the first entry of M, unless the walk meets     *)
(* thr_fd == NULL, that is descriptor 0, at or before it.                   *)
MutHits(M) ==   \* the walk starts one entry too late
  {i \in DOMAIN table :
     i > 1 /\ table[i] \in M /\ \A j \in 1..i : entry[table[j]].thr_fd # 0}
Hits(M) ==
  {i \in DOMAIN table :
     table[i] \in M /\ \A j \in 1..i : entry[table[j]].thr_fd # 0}
Walk(M) ==
  IF Hits(M) = {} THEN NULL
  ELSE table[CHOOSE i \in Hits(M) : \A j \in Hits(M) : i <= j]

fdtable_get_by_fd_all(fd) == Walk({e \in Linked : entry[e].thr_fd = fd})
fdtable_get_by_fd(fd, NetorFile) ==
  Walk({e \in Linked : entry[e].thr_fd = fd /\ entry[e].NetorFile = NetorFile})

(* fdtable_get_by_tid takes no lock, so its walk is one step per node (NULL *)
(* is tail).  A node that has been freed meanwhile is undefined behaviour:  *)
(* fdtable_delete has cleared its next, which is then dereferenced.  What   *)
(* follows an entry that is not in the list is not recorded: anything.      *)
MutFirstNode == IF Len(table) < 2 THEN NULL ELSE table[2]   \* skips a node
FirstNode == IF table = <<>> THEN NULL ELSE table[1]
NextNodes(tmp) ==
  IF tmp \notin Linked THEN Entries \cup {NULL}
  ELSE {IF i = Len(table) THEN NULL ELSE table[i + 1] :
          i \in {i \in DOMAIN table : table[i] = tmp}}
fdtable_get_by_tid(tmp, e) ==
  CASE tmp = NULL -> "exit"
    [] tmp \in Entries \ allocated -> "fault"
    [] tmp \in allocated /\ entry[tmp].thr_fd = 0 -> "exit"
    [] tmp \in allocated /\ entry[tmp].thr_fd # 0 ->
         IF tmp = e THEN "recv" ELSE "walk"

(* The second half of fdtable_add, with the fields its callers then assign. *)
(* When another thread has added an entry since next_node was read, this    *)
(* thr_num++ may have read the counter before that one stored it.           *)
fdtable_add(e, next_node, fd, NetorFile) ==
  /\ table' = <<e>> \o next_node
  /\ allocated' = allocated \cup {e}
  /\ entry' = [entry EXCEPT ![e] =
                 [NewEntry EXCEPT !.thr_fd = fd, !.NetorFile = NetorFile]]
  /\ \E n \in (IF next_node # table THEN {0, 1} ELSE {1}) : thr_num' = thr_num + n

(* prev_node and next_node are linked to each other. *)
Unlink(e) ==
  LET i == CHOOSE i \in DOMAIN table : table[i] = e
  IN  SubSeq(table, 1, i - 1) \o SubSeq(table, i + 1, Len(table))

(* Mutants: the counter is decremented twice; the entry is unlinked but not *)
(* freed, as fdtable_entry_delete does.                                     *)
MutDeleteCountsTwice(fd) ==
  LET e == fdtable_get_by_fd_all(fd) IN
  /\ table' = Unlink(e)
  /\ allocated' = allocated \ {e}
  /\ entry' = [entry EXCEPT ![e] = NewEntry]
  /\ thr_num' = thr_num - 2
MutEntryDelete(fd) ==
  LET e == fdtable_get_by_fd_all(fd) IN
  /\ table' = Unlink(e)
  /\ thr_num' = thr_num - 1
  /\ UNCHANGED <<allocated, entry>>
(* fdtable_delete: codes 1 and 2 leave the table as it is. *)
fdtable_delete(fd) ==
  LET e == fdtable_get_by_fd_all(fd) IN
  IF e = NULL THEN UNCHANGED tableVars
  ELSE /\ table' = Unlink(e)
       /\ allocated' = allocated \ {e}
       /\ entry' = [entry EXCEPT ![e] = NewEntry]
       /\ thr_num' = thr_num - 1

fdtable_getnumber == thr_num
=============================================================================
