------------------------------ MODULE WaitLists ------------------------------
(***************************************************************************)
(* The doubly linked lists of include/tilck/kernel/list.h as the wait      *)
(* lists use them: a sequence of tasks, each with a single node.           *)
(***************************************************************************)
EXTENDS Naturals, Sequences

(* list_is_node_in_list, for the node of task t. *)
InList(list, t) == \E i \in 1..Len(list) : list[i] = t

(* No task has two nodes in the list. *)
Distinct(list) == \A i, j \in 1..Len(list) : list[i] = list[j] => i = j

RemoveNode(list, i) == SubSeq(list, 1, i - 1) \o SubSeq(list, i + 1, Len(list))

(* list_remove of the node of task t, if it is in the list. *)
Unlink(list, t) ==
  IF InList(list, t)
  THEN RemoveNode(list, CHOOSE i \in 1..Len(list) : list[i] = t)
  ELSE list

(* The sequences of at most n tasks of the set S. *)
ListsOf(S, n) == UNION {[1..k -> S] : k \in 0..n}

(* `rest` is what a list_for_each over `list` leaves when it unlinks every *)
(* node but the ones of the tasks in `kept`.                               *)
ListReduced(list, kept, rest) ==
  /\ \A t \in kept : InList(rest, t)
  /\ \A i, j \in 1..Len(rest) : i < j =>
       \E k, l \in 1..Len(list) : k < l /\ list[k] = rest[i] /\ list[l] = rest[j]

Reduced(list, kept) ==
  CHOOSE rest \in ListsOf(kept, Len(list)) : ListReduced(list, kept, rest)

=============================================================================
