--------------------------------- MODULE Queue ---------------------------------
(****************************************************************************)
(* A bounded first-in first-out queue, what the ring of a terminal promises *)
(* (include/dev/tty.h calls it a first-in first-out ring).                  *)
(****************************************************************************)
EXTENDS Integers, Sequences

CONSTANTS Size, Char

VARIABLES items,   \* what is in the queue, oldest first
          out,     \* the character that the last successful get returned
          err,     \* what the last call returned
          last     \* which operation it was

qvars == <<items, out, err, last>>

QueueInit == items = <<>> /\ out \in Char /\ err = 0 /\ last = "none"

Put(c) ==
  /\ Len(items) < Size
  /\ items' = Append(items, c)
  /\ err' = 0
  /\ last' = "put"
  /\ UNCHANGED out

Get ==
  /\ items # <<>>
  /\ items' = Tail(items)
  /\ out' = Head(items)
  /\ err' = 0
  /\ last' = "get"

\* A put is refused only by a full queue, a get only by an empty one.
Refuse ==
  /\ \/ Len(items) = Size /\ last' = "put"
     \/ items = <<>> /\ last' = "get"
  /\ err' = -1
  /\ UNCHANGED <<items, out>>

QueueNext == (\E c \in Char : Put(c)) \/ Get \/ Refuse

QueueSpec == QueueInit /\ [][QueueNext]_qvars
=============================================================================
