-------------------------------- MODULE LineEdit -------------------------------
(****************************************************************************)
(* The line a user types at the shell: the keyboard's interrupt handler     *)
(* (tty_in, tty_handle_key and show_his_cmd of kernel/dev/tty.c), the       *)
(* reader of the terminal (tty_read, and its echo through the console), the *)
(* shell that saves each command, and console_t.input_len, which all of     *)
(* them use.                                                                *)
(*                                                                          *)
(* The handler is one step.  The queues and semaphores are those of Tty,    *)
(* with one reader.  The line is shown after a prompt, on one row.          *)
(****************************************************************************)
EXTENDS History

VARIABLES
  keys,       \* the characters in the input ring
  inbuf,      \* buf of tty_read, up to len
  reader,     \* where tty_read is
  echoed,     \* ch of tty_read
  row,        \* the characters on the screen, the prompt first
  input_len,  \* console_t.input_len
  muddled     \* history: a command was recalled into a line that is not empty

lvars == <<hvars, keys, inbuf, reader, echoed, row, input_len, muddled>>

Prompt == <<"prompt">>

LineInit ==
  /\ HistoryInit
  /\ keys = <<>> /\ inbuf = <<>> /\ row = Prompt
  /\ reader = "wait" /\ echoed = "none"
  /\ input_len = 0
  /\ muddled = FALSE

-----------------------------------------------------------------------------
\* erase_backword takes n characters off the row, whose they are.
Erased(n) == SubSeq(row, 1, IF n > Len(row) THEN 0 ELSE IF n < 0 THEN Len(row) ELSE Len(row) - n)

\* tty_in; the ring has room for every line of the model.
Press ==
  /\ \E k \in Letter \cup {"delete", "newline"} :
       /\ Len(keys) + Len(inbuf) < IF k \in Letter THEN MaxLine ELSE MaxLine + 1
       /\ k = "delete" => input_len > -MaxLine   \* a bound: the drift never ends
       /\ keys' = Append(keys, k)
  /\ UNCHANGED <<hvars, inbuf, reader, echoed, row, input_len, muddled>>

\* show_his_cmd takes off the screen what input_len counts, and not out of
\* buf; and the new command goes behind what the ring holds.
show_his_cmd(cmd) ==
  IF cmd = NoCmd THEN UNCHANGED <<keys, row, input_len, muddled>>
  ELSE /\ Len(keys) + Len(inbuf) + Len(cmd) <= MaxLine
       /\ row' = Erased(input_len)
       /\ input_len' = 0
       /\ keys' = keys \o cmd
       /\ muddled' = (muddled \/ reader # "wait" \/ keys # <<>> \/ inbuf # <<>>)

\* tty_handle_key: do_e0_key calls it when an arrow key is pressed and again
\* when it is released.
ArrowKey ==
  /\ \E cmd \in Cmd \cup {NoCmd} : (pre_cmd(cmd) \/ next_cmd(cmd)) /\ show_his_cmd(cmd)
  /\ UNCHANGED <<inbuf, reader, echoed>>

-----------------------------------------------------------------------------
\* tty_read takes a character.  A delete in an empty line is not echoed.
ReadKey ==
  /\ reader = "wait" /\ keys # <<>>
  /\ keys' = Tail(keys) /\ echoed' = Head(keys)
  /\ CASE echoed' = "delete" /\ inbuf = <<>> ->
            UNCHANGED <<inbuf, input_len, reader>>
       [] echoed' = "delete" /\ inbuf # <<>> ->
            /\ inbuf' = SubSeq(inbuf, 1, Len(inbuf) - 1)
            /\ input_len' = input_len - 1
            /\ reader' = "echo"
       [] echoed' = "newline" ->
            /\ input_len' = 0
            /\ reader' = "echo"
            /\ UNCHANGED inbuf
       [] OTHER ->
            /\ inbuf' = Append(inbuf, echoed')
            /\ input_len' = input_len + 1
            /\ reader' = "echo"
  /\ UNCHANGED <<hvars, row, muddled>>

\* MUTANT of EchoDelete: the character is not erased on the screen.
EchoDelete_Kept == row' = row /\ input_len' = input_len - 1

\* write_normal erases one character, and erase_backword counts it once more.
EchoDelete == row' = Erased(1) /\ input_len' = input_len - 1

\* The echo, tty_write of one character.
Echo ==
  /\ reader = "echo"
  /\ CASE echoed = "delete" ->
            EchoDelete /\ reader' = "wait"
       [] echoed = "newline" ->
            reader' = "exec" /\ UNCHANGED <<row, input_len>>
       [] OTHER ->
            row' = Append(row, echoed) /\ reader' = "wait" /\ UNCHANGED input_len
  /\ UNCHANGED <<hvars, keys, inbuf, echoed, muddled>>

\* The shell has the line.  It saves the command before it runs it, if it knows
\* it; the rest of add is AddClear and AddCopy.
Exec ==
  /\ reader = "exec" /\ inbuf # <<>>
  /\ AddIndex(inbuf) \/ UNCHANGED hvars
  /\ inbuf' = <<>>
  /\ UNCHANGED <<keys, reader, echoed, row, input_len, muddled>>

\* The next prompt, on a row of its own, and the next call of tty_read.
NextLine ==
  /\ reader = "exec" /\ inbuf = <<>> /\ adding.todo = "none"
  /\ row' = Prompt /\ reader' = "wait" /\ muddled' = FALSE
  /\ UNCHANGED <<hvars, keys, inbuf, echoed, input_len>>

LineNext ==
  \/ Press \/ ArrowKey \/ ReadKey \/ Echo \/ Exec \/ NextLine
  \/ (AddClear \/ AddCopy) /\ UNCHANGED <<keys, inbuf, reader, echoed, row, input_len, muddled>>

LineSpec == LineInit /\ [][LineNext]_lvars

-----------------------------------------------------------------------------
\* The reader waits, and everything typed is in its line.
Settled == reader = "wait" /\ keys = <<>>

\* When the reader has taken every key, the row shows the line it will hand to
\* the program, and input_len counts no character that is not in it, unless an
\* arrow key has recalled a command into a line that was not empty.  (It always
\* has, when the key is released, if there are two commands to recall.)
ShownIsLine ==
  Settled /\ ~muddled => row = Prompt \o inbuf /\ input_len <= Len(inbuf)
=============================================================================
