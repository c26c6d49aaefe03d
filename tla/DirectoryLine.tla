--------------------------- MODULE DirectoryLine ---------------------------
(***************************************************************************)
(* class Directory_Line (src/src/simulator/coherence.H): what the          *)
(* directory records of one address, and the helpers that change it.       *)
(*                                                                         *)
(* sharer_vector is a set of processors instead of a 32-bit mask, and the  *)
(* two-bit fields of read_count_vector are a function from processors to   *)
(* 0..3.  Both are exact for at most 16 processors: above that the shifts  *)
(* of an int in the counter helpers no longer reach the field they mean.   *)
(***************************************************************************)
EXTENDS Integers, FiniteSetsExt

CONSTANT NumProcessors       \* _num_processors

ASSUME NumProcessorsAssumption == NumProcessors \in Nat \ {0}

Proc == 0 .. NumProcessors - 1

NoWriter == -1               \* the ~0 that last_writer starts from

CACHE_STATE == {"INVALID", "SHARED", "MODIFIED"}

ReadCounts == 0 .. 3         \* two bits per processor

Line ==
  [ sharer_vector : SUBSET Proc,
    state         : CACHE_STATE,
    last_writer   : Proc \cup {NoWriter},
    read_count    : [Proc -> ReadCounts] ]

Directory_Line ==
  [ sharer_vector |-> {},
    state         |-> "INVALID",
    last_writer   |-> NoWriter,
    read_count    |-> [p \in Proc |-> 0] ]

-----------------------------------------------------------------------------
is_set(d, pid) == pid \in d.sharer_vector

\* Fault: ownership follows the sharer bit alone, whatever the state.
is_owner_AnySharer(d, pid) == is_set(d, pid)

is_owner(d, pid) == is_set(d, pid) /\ d.state = "MODIFIED"

\* The scan from processor 0 stops at the first sharer.
owner(d) == Min(d.sharer_vector)

set_sharer(d, pid) == [d EXCEPT !.sharer_vector = @ \cup {pid}]

clear_sharer(d, pid) == [d EXCEPT !.sharer_vector = @ \ {pid}]

increase_read_count(d, pid) ==
  [d EXCEPT !.read_count[pid] = IF @ < 3 THEN @ + 1 ELSE @]

\* decrease_read_count for every processor of S, each in its own field.
decrease_read_count(d, S) ==
  [d EXCEPT !.read_count =
     [p \in Proc |-> IF p \in S /\ @[p] > 0 THEN @[p] - 1 ELSE @[p]]]

\* The high bit of the field: at least two counted reads.
qualified_reader(d, pid) == d.read_count[pid] >= 2

is_last_writer(d, pid) == pid = d.last_writer

\* Fault: the new writer inherits the readers counted for the old one.
update_last_writer_KeepCounts(d, pid) ==
  [set_sharer(d, pid) EXCEPT !.last_writer = pid]

\* Fault: the counts are reset and the writer is left as it was.
update_last_writer_KeepWriter(d, pid) ==
  [set_sharer(d, pid) EXCEPT !.read_count = [p \in Proc |-> 0]]

\* Fault: the writer's bit in the vector is stored instead of its number.
update_last_writer_StoreBit(d, pid) ==
  [set_sharer(d, pid) EXCEPT !.last_writer = 2^pid,
                             !.read_count = [p \in Proc |-> 0]]

update_last_writer(d, pid) ==
  [set_sharer(d, pid) EXCEPT !.last_writer = pid,
                             !.read_count = [p \in Proc |-> 0]]

=============================================================================
