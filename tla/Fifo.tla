---------------------------------- MODULE Fifo ---------------------------------
(****************************************************************************)
(* The ring buffer of a terminal, tty_fifo_t of kernel/dev/tty.c: an array, *)
(* two indices that wrap around and a count.  Both operations run with      *)
(* interrupts disabled, so each is one step.                                *)
(****************************************************************************)
EXTENDS Integers, Sequences

CONSTANTS Size,   \* TTY_OBUF_SIZE or TTY_IBUF_SIZE
          Char    \* the characters

ASSUME FifoAssumption == Size \in Nat \ {0} /\ Char # {}

VARIABLES buf, read, write, count,   \* tty_fifo_t
          out, err,                  \* *c, and what the last call returned
          last                       \* history: which operation it was

ring == <<buf, read, write, count>>
fifo == <<ring, out, err, last>>

Index == 0..(Size - 1)

\* The array is whatever the tty_t held before tty_fifo_init.
FifoInit ==
  /\ buf \in [Index -> Char]
  /\ read = 0 /\ write = 0 /\ count = 0
  /\ out \in Char
  /\ err = 0
  /\ last = "none"

\* MUTANT of Advance: > for >=, with a size one less.
Advance_OffByOne(i) == IF i + 2 >= Size THEN 0 ELSE i + 1

\* An index moves on, and points to the head of the array at the end of it.
Advance(i) == IF i + 1 >= Size THEN 0 ELSE i + 1

Fails == err' = -1 /\ UNCHANGED <<ring, out>>

\* MUTANT of tty_fifo_put: > for >=.
tty_fifo_put_Over(c) ==
  /\ last' = "put"
  /\ \/ count > Size /\ Fails
     \/ /\ ~ (count > Size)
        /\ buf' = [buf EXCEPT ![write] = c]
        /\ write' = Advance(write)
        /\ count' = count + 1
        /\ err' = 0
        /\ UNCHANGED <<read, out>>

tty_fifo_put(c) ==
  /\ last' = "put"
  /\ \/ count >= Size /\ Fails
     \/ /\ ~ (count >= Size)
        /\ buf' = [buf EXCEPT ![write] = c]
        /\ write' = Advance(write)
        /\ count' = count + 1
        /\ err' = 0
        /\ UNCHANGED <<read, out>>

tty_fifo_get ==
  /\ last' = "get"
  /\ \/ count <= 0 /\ Fails
     \/ /\ ~ (count <= 0)
        /\ out' = buf[read]
        /\ read' = Advance(read)
        /\ count' = count - 1
        /\ err' = 0
        /\ UNCHANGED <<buf, write>>

FifoNext == (\E c \in Char : tty_fifo_put(c)) \/ tty_fifo_get

FifoSpec == FifoInit /\ [][FifoNext]_fifo

-----------------------------------------------------------------------------
\* x, or x - Size when that is the index of the array.
Wrap(x) == IF x >= Size THEN x - Size ELSE x

\* Every variable has its type, and the distance from read to write around the
\* ring is count (or, when they are equal, the ring is empty or full).
RingOK ==
  /\ buf \in [Index -> Char]
  /\ read \in Index /\ write \in Index
  /\ count \in 0..Size
  /\ out \in Char
  /\ err \in {0, -1}
  /\ last \in {"none", "put", "get"}
  /\ write = Wrap(read + count)

\* What is in the ring: count characters from read on, around the end.
Items == [i \in 1..count |-> buf[Wrap(read + i - 1)]]

Q == INSTANCE Queue WITH items <- Items

\* The ring is a bounded queue: what comes out is what went in first, a put is
\* refused only when Size characters are in it, a get only when none is.
ImplementsQueue == Q!QueueSpec
=============================================================================
