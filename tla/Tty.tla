---------------------------------- MODULE Tty ----------------------------------
(****************************************************************************)
(* One terminal: tty_read, tty_write and tty_in of kernel/dev/tty.c and the *)
(* draining loop of console_write of kernel/dev/console.c.                  *)
(*                                                                          *)
(* Processes interleave over the semaphores and the mutex of Sync; the keys *)
(* arrive in an interrupt handler, which is one step.  The two rings are    *)
(* queues (Fifo!ImplementsQueue).  A character of the output is identified  *)
(* by the process that writes it and its number in the call, carriage       *)
(* returns included; of the input, by the key.  What show_char draws, and   *)
(* the console's input_len, belong to the console.                          *)
(****************************************************************************)
EXTENDS Naturals, Sequences, FiniteSets, Sync

CONSTANTS
  OSem, ISem, Console,   \* tty.osem, tty.isem and the console's mutex
  OSize, ISize,          \* TTY_OBUF_SIZE, TTY_IBUF_SIZE
  MaxWrite, MaxRead,     \* bounds: the longest write and read
  MaxLost                \* bound: keys lost on a full ring

\* Every process may have put a carriage return and wait for room for the line
\* feed: 512 places are more than the 129 processes.
ASSUME TtyAssumption ==
  /\ NoTask \notin Task /\ IsFiniteSet(Task) /\ Mutex \cap Sem = {}
  /\ SemInit \in [Sem -> Nat]
  /\ {OSem, ISem} \subseteq Sem /\ OSem # ISem /\ Console \in Mutex
  /\ OSize \in Nat /\ OSize > Cardinality(Task)
  /\ ISize \in Nat \ {0}
  /\ SemInit[OSem] = OSize /\ SemInit[ISem] = 0
  /\ MaxWrite \in Nat \ {0} /\ MaxRead \in Nat \ {0} /\ MaxLost \in Nat

VARIABLES
  ofifo, ififo,   \* the characters in the rings
  echo,           \* TTY_IECHO in tty.iflags
  pc,             \* where each process is
  left,           \* size in tty_write: characters still to write
  back,           \* where tty_write returns to
  ch,             \* c in tty_write, ch in tty_read
  hand,           \* ch in console_write
  line,           \* buf of tty_read, up to len
  size,           \* size in tty_read
  sent, shown,    \* history: characters put and displayed of a call
  lost            \* history: puts refused by the input ring, less failed gets

outs  == <<ofifo, left, back, hand, sent, shown>>
ins   == <<ififo, echo, line, size, lost>>
tvars == <<svars, outs, ins, pc, ch>>

Key  == {"char", "newline", "delete"}
None == <<>>   \* console_write holds no character

TtyEmpty ==
  /\ ofifo = <<>> /\ ififo = <<>>
  /\ echo  = TRUE
  /\ pc    = [t \in Task |-> "user"]
  /\ left  = [t \in Task |-> 0]
  /\ back  = [t \in Task |-> "user"]
  /\ ch    = [t \in Task |-> "char"]
  /\ hand  = [t \in Task |-> None]
  /\ line  = [t \in Task |-> <<>>]
  /\ size  = [t \in Task |-> 1]
  /\ sent  = [t \in Task |-> 0]
  /\ shown = [t \in Task |-> 0]
  /\ lost  = 0

TtyInit == SyncInit /\ TtyEmpty

-----------------------------------------------------------------------------
Goto(t, a, b) ==
  /\ Free(t)
  /\ pc[t] = a
  /\ pc' = [pc EXCEPT ![t] = b]

sem_wait(t, s) == Take(t, s) \/ AwaitToken(t, s)
sem_notify(s)  == Post(s)
mutex_lock(t, m)   == Enter(t, m) \/ AwaitMutex(t, m)
mutex_unlock(t, m) == Leave(t, m)

\* tty_write(n characters) is called, and goes back to b.
CallWrite(t, n, b) ==
  /\ left'  = [left EXCEPT ![t] = n]
  /\ back'  = [back EXCEPT ![t] = b]
  /\ sent'  = [sent EXCEPT ![t] = 0]
  /\ shown' = [shown EXCEPT ![t] = 0]

Write(t) ==
  /\ Goto(t, "user", "write")
  /\ \E n \in 1..MaxWrite : CallWrite(t, n, "user")
  /\ UNCHANGED <<svars, ins, ofifo, hand, ch>>

\* The echo writes the character read; a program writes anything.
WriteChar(t) ==
  /\ left[t] > 0
  /\ \E c \in {"char", "newline"} :
       /\ back[t] = "echoed" => (c = "newline") = (ch[t] = "newline")
       /\ Goto(t, "write", IF c = "newline" THEN "cr_wait" ELSE "put_wait")
  /\ UNCHANGED <<svars, outs, ins, ch>>

\* The frame of the call is gone.
WriteReturn(t) ==
  /\ left[t] = 0
  /\ Goto(t, "write", back[t])
  /\ CallWrite(t, 0, "user")
  /\ UNCHANGED <<svars, ins, ofifo, hand, ch>>

WaitRoom(t) ==
  /\ Goto(t, "cr_wait", "cr_put") \/ Goto(t, "put_wait", "put")
  /\ sem_wait(t, OSem)
  /\ UNCHANGED <<outs, ins, ch>>

\* tty_fifo_put of the next character of t.
PutOut(t) ==
  /\ ofifo' = Append(ofifo, <<t, sent[t] + 1>>)
  /\ sent' = [sent EXCEPT ![t] = @ + 1]

PutReturn(t) ==
  /\ Len(ofifo) < OSize
  /\ Goto(t, "cr_put", "put_wait")
  /\ PutOut(t)
  /\ UNCHANGED <<svars, ins, ch, left, back, hand, shown>>

Put(t) ==
  /\ Len(ofifo) < OSize
  /\ Goto(t, "put", "lock")
  /\ PutOut(t)
  /\ left' = [left EXCEPT ![t] = @ - 1]
  /\ UNCHANGED <<svars, ins, ch, back, hand, shown>>

-----------------------------------------------------------------------------
\* console_write: the process that has the mutex displays what is in the ring,
\* whoever put it there.

Lock(t) ==
  /\ Goto(t, "lock", "get")
  /\ mutex_lock(t, Console)
  /\ UNCHANGED <<outs, ins, ch>>

\* MUTANT of GetOut: the newest character is taken.
GetOut_Newest(t) ==
  /\ ofifo # <<>>
  /\ Goto(t, "get", "notify")
  /\ hand' = [hand EXCEPT ![t] = ofifo[Len(ofifo)]]
  /\ ofifo' = SubSeq(ofifo, 1, Len(ofifo) - 1)
  /\ UNCHANGED <<svars, ins, ch, left, back, sent, shown>>

GetOut(t) ==
  /\ ofifo # <<>>
  /\ Goto(t, "get", "notify")
  /\ hand' = [hand EXCEPT ![t] = Head(ofifo)]
  /\ ofifo' = Tail(ofifo)
  /\ UNCHANGED <<svars, ins, ch, left, back, sent, shown>>

\* MUTANT of NotifyRoom: no notification.
NotifyRoom_Missing(t) ==
  /\ Goto(t, "notify", "show")
  /\ UNCHANGED <<svars, outs, ins, ch>>

NotifyRoom(t) ==
  /\ Goto(t, "notify", "show")
  /\ sem_notify(OSem)
  /\ UNCHANGED <<outs, ins, ch>>

Show(t) ==
  /\ Goto(t, "show", "get")
  /\ shown' = [shown EXCEPT ![hand[t][1]] = hand[t][2]]
  /\ hand' = [hand EXCEPT ![t] = None]
  /\ UNCHANGED <<svars, ins, ch, ofifo, left, back, sent>>

\* MUTANT of Empty: the drain ends with characters left in the ring.
Empty_Early(t) ==
  /\ Goto(t, "get", "unlock")
  /\ UNCHANGED <<svars, outs, ins, ch>>

\* MUTANT of Empty: the loop does not break when the ring is empty.
Empty_Spin(t) ==
  /\ ofifo = <<>>
  /\ Goto(t, "get", "get")
  /\ UNCHANGED <<svars, outs, ins, ch>>

Empty(t) ==
  /\ ofifo = <<>>
  /\ Goto(t, "get", "unlock")
  /\ UNCHANGED <<svars, outs, ins, ch>>

Unlock(t) ==
  /\ Goto(t, "unlock", "write")
  /\ mutex_unlock(t, Console)
  /\ UNCHANGED <<outs, ins, ch>>

-----------------------------------------------------------------------------
Read(t) ==
  /\ Goto(t, "user", "key_wait")
  /\ \E n \in 1..MaxRead : size' = [size EXCEPT ![t] = n]
  /\ UNCHANGED <<svars, outs, ch, ififo, echo, line, lost>>

WaitKey(t) ==
  /\ Goto(t, "key_wait", "key_get")
  /\ sem_wait(t, ISem)
  /\ UNCHANGED <<outs, ins, ch>>

\* MUTANT of Edit: the carriage return needs room for one character only.
Edit_PastEnd(l, c, n) ==
  CASE c = "delete"  -> SubSeq(l, 1, Len(l) - 1)
    [] c = "newline" -> IF Len(l) < n THEN l \o <<"return", "newline">>
                        ELSE Append(l, "newline")
    [] OTHER         -> Append(l, c)

\* The line after the key c: a newline is stored as a carriage return and a
\* newline if there is room for two.
Edit(l, c, n) ==
  CASE c = "delete"  -> SubSeq(l, 1, Len(l) - 1)
    [] c = "newline" -> IF Len(l) < n - 1 THEN l \o <<"return", "newline">>
                        ELSE Append(l, "newline")
    [] OTHER         -> Append(l, c)

\* tty_fifo_get and the switch.  If the ring is empty ch is what it was, any
\* character.
GetKey(t) ==
  /\ IF ififo # <<>>
     THEN /\ ch' = [ch EXCEPT ![t] = Head(ififo)]
          /\ ififo' = Tail(ififo)
          /\ UNCHANGED lost
     ELSE /\ \E c \in Key : ch' = [ch EXCEPT ![t] = c]
          /\ lost' = lost - 1
          /\ UNCHANGED ififo
  /\ IF ch'[t] = "delete" /\ line[t] = <<>>
     THEN /\ Goto(t, "key_get", "key_wait")
          /\ UNCHANGED <<line, left, back, sent, shown>>
     ELSE /\ line' = [line EXCEPT ![t] = Edit(@, ch'[t], size[t])]
          /\ IF echo
             THEN Goto(t, "key_get", "write") /\ CallWrite(t, 1, "echoed")
             ELSE Goto(t, "key_get", "echoed") /\ UNCHANGED <<left, back, sent, shown>>
  /\ UNCHANGED <<svars, ofifo, hand, echo, size>>

\* The end of the loop's body, where ch is dead.
Echoed(t) ==
  /\ IF ch[t] = "newline" \/ Len(line[t]) >= size[t]
     THEN /\ Goto(t, "echoed", "user")
          /\ line' = [line EXCEPT ![t] = <<>>]
          /\ size' = [size EXCEPT ![t] = 1]
     ELSE Goto(t, "echoed", "key_wait") /\ UNCHANGED <<line, size>>
  /\ ch' = [ch EXCEPT ![t] = "char"]
  /\ UNCHANGED <<svars, outs, ififo, echo, lost>>

\* TTY_CMD_ECHO
tty_control(t) ==
  /\ Goto(t, "user", "user")
  /\ echo' = ~ echo
  /\ UNCHANGED <<svars, outs, ch, ififo, line, size, lost>>

\* MUTANT of tty_in: no notification.
tty_in_Silent(k) ==
  /\ tokens[ISem] < ISize
  /\ IF Len(ififo) < ISize
     THEN ififo' = Append(ififo, k) /\ UNCHANGED lost
     ELSE lost < MaxLost /\ lost' = lost + 1 /\ UNCHANGED ififo
  /\ UNCHANGED <<svars, outs, pc, ch, echo, line, size>>

\* tty_in, in the keyboard's interrupt handler.  The count of the semaphore is
\* compared, not that of the ring, and the result of tty_fifo_put is ignored.
tty_in(k) ==
  /\ tokens[ISem] < ISize
  /\ IF Len(ififo) < ISize
     THEN ififo' = Append(ififo, k) /\ UNCHANGED lost
     ELSE lost < MaxLost /\ lost' = lost + 1 /\ UNCHANGED ififo
  /\ sem_notify(ISem)
  /\ UNCHANGED <<outs, pc, ch, echo, line, size>>

-----------------------------------------------------------------------------
InWrite(t) == \/ WriteChar(t) \/ WriteReturn(t) \/ WaitRoom(t) \/ PutReturn(t)
              \/ Put(t) \/ Lock(t) \/ GetOut(t) \/ NotifyRoom(t) \/ Show(t)
              \/ Empty(t) \/ Unlock(t)
InRead(t)  == WaitKey(t) \/ GetKey(t) \/ Echoed(t)
Call(t)    == Write(t) \/ Read(t) \/ tty_control(t)

TtyNext ==
  \/ \E t \in Task : InWrite(t) \/ InRead(t) \/ Call(t)
  \/ \E k \in Key : tty_in(k)

TtySpec == TtyInit /\ [][TtyNext]_tvars

\* A process inside tty_write goes on.  (One that waits is let through: of two
\* processes only one can wait for the same thing, and with more Sync says
\* nothing of the order, which in Ipc is first come, first served.)
TtyFairness == \A t \in Task : WF_tvars(InWrite(t))

TtyFairSpec == TtySpec /\ TtyFairness

-----------------------------------------------------------------------------
Writing == {"write", "cr_wait", "cr_put", "put_wait", "put", "lock", "get",
            "notify", "show", "unlock"}

OutChar == Task \X (1..(2 * MaxWrite))

\* Every variable has its type.
TtyTypeOK ==
  /\ ofifo \in Seq(OutChar) /\ Len(ofifo) <= OSize
  /\ ififo \in Seq(Key) /\ Len(ififo) <= ISize
  /\ echo \in BOOLEAN
  /\ pc \in [Task -> Writing \cup {"user", "key_wait", "key_get", "echoed"}]
  /\ left \in [Task -> 0..MaxWrite]
  /\ back \in [Task -> {"user", "echoed"}]
  /\ ch \in [Task -> Key]
  /\ hand \in [Task -> OutChar \cup {None}]
  /\ size \in [Task -> 1..MaxRead]
  /\ \A t \in Task : Len(line[t]) <= size[t]
  /\ sent \in [Task -> 0..(2 * MaxWrite)] /\ shown \in [Task -> 0..(2 * MaxWrite)]
  /\ lost \in Nat

Have(labels) == {t \in Task : Free(t) /\ pc[t] \in labels}

\* osem counts the free places of the output ring, but for those that a writer
\* has been let through to and those just emptied.  So a put never fails.
OutputAccounted ==
  tokens[OSem] + Len(ofifo) + Cardinality(Have({"cr_put", "put"}))
    + Cardinality(Have({"notify"})) = OSize

\* isem counts the keys in the input ring, but for those that a reader has been
\* let through to, and for the keys that found the ring full.
InputAccounted ==
  tokens[ISem] + Cardinality(Have({"key_get"})) = Len(ififo) + lost

\* The semaphores agree with the rings at every step of every process and of
\* the interrupt, and tty_read never passes the end of its buffer.  As long as
\* no key was lost, a reader let through finds a key; after that tty_read may
\* get nothing and take the uninitialised ch for a key.
RingsAccounted == TtyTypeOK /\ OutputAccounted /\ InputAccounted

\* What a call of tty_write has put on the ring is displayed in its order, each
\* character once, whichever process drains the ring.
ShownInOrder ==
  [][\A t \in Task : shown'[t] \in {shown[t], shown[t] + 1, 0}]_tvars

\* When tty_write returns, and before it takes its next character, all that it
\* has put is displayed.
Flushed == \A t \in Task : pc[t] = "write" => shown[t] = sent[t]
=============================================================================
