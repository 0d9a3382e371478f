------------------------------- MODULE LinkedList ------------------------------
(****************************************************************************)
(* The doubly linked lists of kernel/tools/list.c, on which the scheduler's *)
(* queues are built: every list_* function, over the pointers of the nodes  *)
(* and of the lists.  Scheduler and Ipc have sequences in their place, and  *)
(* order is that sequence.                                                  *)
(*                                                                          *)
(* The callers hold a protection, so a call is one step; they insert a node *)
(* that is in no list, and remove one from the list it is in (ListsSound of *)
(* Scheduler; the exception is task_list, which is never walked).           *)
(****************************************************************************)
EXTENDS Integers, Sequences

CONSTANTS List, Node, Null

ASSUME LinkedListAssumption == Null \notin Node

VARIABLES
  pre, next,           \* of each node
  list_first, list_last, list_count,  \* of each list
  order                \* history: the nodes of each list, as the calls ask for

listvars == <<pre, next, list_first, list_last, list_count, order>>

\* list_init and node_init.
LinkedListInit ==
  /\ pre = [n \in Node |-> Null] /\ next = [n \in Node |-> Null]
  /\ list_first = [l \in List |-> Null] /\ list_last = [l \in List |-> Null]
  /\ list_count = [l \in List |-> 0]
  /\ order = [l \in List |-> <<>>]

-----------------------------------------------------------------------------
InList(n, l) == \E i \in 1..Len(order[l]) : order[l][i] = n
Unlisted(n)  == \A l \in List : ~InList(n, l)

\* A sequence without its i-th element.
Without(s, i) == [j \in 1..(Len(s) - 1) |-> IF j < i THEN s[j] ELSE s[j + 1]]

list_insert_first(l, n) ==
  /\ Unlisted(n)
  /\ next' = [next EXCEPT ![n] = list_first[l]]
  /\ pre'  = IF list_count[l] = 0 THEN [pre EXCEPT ![n] = Null]
             ELSE [pre EXCEPT ![n] = Null, ![list_first[l]] = n]
  /\ list_last' = IF list_count[l] = 0 THEN [list_last EXCEPT ![l] = n] ELSE list_last
  /\ list_first' = [list_first EXCEPT ![l] = n]
  /\ list_count' = [list_count EXCEPT ![l] = @ + 1]
  /\ order' = [order EXCEPT ![l] = <<n>> \o @]

list_insert_last(l, n) ==
  /\ Unlisted(n)
  /\ pre'  = [pre EXCEPT ![n] = list_last[l]]
  /\ next' = IF list_count[l] = 0 THEN [next EXCEPT ![n] = Null]
             ELSE [next EXCEPT ![n] = Null, ![list_last[l]] = n]
  /\ list_first' = IF list_count[l] = 0 THEN [list_first EXCEPT ![l] = n] ELSE list_first
  /\ list_last' = [list_last EXCEPT ![l] = n]
  /\ list_count' = [list_count EXCEPT ![l] = @ + 1]
  /\ order' = [order EXCEPT ![l] = Append(@, n)]

\* An empty list is left as it is.
list_remove_first(l) ==
  /\ list_count[l] # 0
  /\ LET n == list_first[l]
         m == next[n]
     IN /\ list_first' = [list_first EXCEPT ![l] = m]
        /\ list_last' = IF m = Null THEN [list_last EXCEPT ![l] = Null] ELSE list_last
        /\ pre'  = IF m = Null THEN [pre EXCEPT ![n] = Null]
                   ELSE [pre EXCEPT ![m] = Null, ![n] = Null]
        /\ next' = [next EXCEPT ![n] = Null]
  /\ list_count' = [list_count EXCEPT ![l] = @ - 1]
  /\ order' = [order EXCEPT ![l] = Without(@, 1)]

list_remove_last(l) ==
  /\ list_count[l] # 0
  /\ LET n == list_last[l]
         m == pre[n]
     IN /\ list_last' = [list_last EXCEPT ![l] = m]
        /\ list_first' = IF m = Null THEN [list_first EXCEPT ![l] = Null] ELSE list_first
        /\ next' = IF m = Null THEN [next EXCEPT ![n] = Null]
                   ELSE [next EXCEPT ![m] = Null, ![n] = Null]
        /\ pre'  = [pre EXCEPT ![n] = Null]
  /\ list_count' = [list_count EXCEPT ![l] = @ - 1]
  /\ order' = [order EXCEPT ![l] = Without(@, Len(@))]

\* MUTANT of list_remove: the node behind keeps its pointer.
list_remove_Behind(l, n) ==
  \E i \in 1..Len(order[l]) :
    /\ order[l][i] = n
    /\ list_first' = IF n = list_first[l] THEN [list_first EXCEPT ![l] = next[n]] ELSE list_first
    /\ list_last' = IF n = list_last[l] THEN [list_last EXCEPT ![l] = pre[n]] ELSE list_last
    /\ next' = IF pre[n] = Null THEN [next EXCEPT ![n] = Null]
               ELSE [next EXCEPT ![pre[n]] = next[n], ![n] = Null]
    /\ pre'  = [pre EXCEPT ![n] = Null]
    /\ list_count' = [list_count EXCEPT ![l] = @ - 1]
    /\ order' = [order EXCEPT ![l] = Without(@, i)]

list_remove(l, n) ==
  \E i \in 1..Len(order[l]) :
    /\ order[l][i] = n
    /\ list_first' = IF n = list_first[l] THEN [list_first EXCEPT ![l] = next[n]] ELSE list_first
    /\ list_last' = IF n = list_last[l] THEN [list_last EXCEPT ![l] = pre[n]] ELSE list_last
    /\ next' = IF pre[n] = Null THEN [next EXCEPT ![n] = Null]
               ELSE [next EXCEPT ![pre[n]] = next[n], ![n] = Null]
    /\ pre'  = IF next[n] = Null THEN [pre EXCEPT ![n] = Null]
               ELSE [pre EXCEPT ![next[n]] = pre[n], ![n] = Null]
    /\ list_count' = [list_count EXCEPT ![l] = @ - 1]
    /\ order' = [order EXCEPT ![l] = Without(@, i)]

LinkedListNext ==
  \E l \in List :
    \/ \E n \in Node : \/ list_insert_first(l, n) \/ list_insert_last(l, n)
                       \/ list_remove(l, n)
    \/ list_remove_first(l) \/ list_remove_last(l)

LinkedListSpec == LinkedListInit /\ [][LinkedListNext]_listvars

-----------------------------------------------------------------------------
\* The pointers of a list and of its nodes, read from order.
Holds(l) ==
  LET s == order[l]
  IN /\ list_count[l] = Len(s)
     /\ list_first[l] = IF Len(s) = 0 THEN Null ELSE s[1]
     /\ list_last[l]  = IF Len(s) = 0 THEN Null ELSE s[Len(s)]
     /\ \A i \in 1..Len(s) :
          /\ next[s[i]] = IF i = Len(s) THEN Null ELSE s[i + 1]
          /\ pre[s[i]]  = IF i = 1 THEN Null ELSE s[i - 1]

\* No node is in two places.
Once ==
  \A l, m \in List : \A i \in 1..Len(order[l]), j \in 1..Len(order[m]) :
    order[l][i] = order[m][j] => l = m /\ i = j

\* After any calls on any lists that share their nodes, each list is the
\* sequence of nodes that the calls ask for: walked in both directions, by its
\* ends and by its count.
ListsAgree == Once /\ \A l \in List : Holds(l)
=============================================================================
