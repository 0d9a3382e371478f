-------------------------------- MODULE History --------------------------------
(****************************************************************************)
(* The commands a console remembers: add and sys_get_history of             *)
(* kernel/base/history_cmd.c, and pre_cmd and next_cmd of                   *)
(* kernel/dev/console.c.                                                    *)
(*                                                                          *)
(* The shell adds a command in a system call; the two arrow keys move       *)
(* curr_his_idx in the keyboard's interrupt, between any two steps of add.  *)
(****************************************************************************)
EXTENDS Integers, Sequences

CONSTANTS
  HistSize,  \* MAX_SAVE_CMDS_NR
  Letter,    \* the characters of a command
  MaxLine    \* bound: the longest line

ASSUME HistoryAssumption ==
  HistSize \in Nat \ {0, 1} /\ Letter # {} /\ MaxLine \in Nat \ {0}

VARIABLES
  his_cmds,      \* the ring of commands
  his_idx,       \* the entry of the latest
  curr_his_idx,  \* the entry the arrow keys are at
  adding,        \* cmd of add, and what of it is to be done
  kept           \* history: the last HistSize commands that add did not drop

hvars == <<his_cmds, his_idx, curr_his_idx, adding, kept>>

Last     == HistSize - 1
NoCmd    == <<>>
Cmd      == UNION {[1..n -> Letter] : n \in 1..MaxLine}
NoAdding == [todo |-> "none", cmd |-> NoCmd]

HistoryInit ==
  /\ his_cmds = [i \in 0..Last |-> NoCmd]
  /\ his_idx = Last /\ curr_his_idx = Last
  /\ adding = NoAdding
  /\ kept = <<>>

-----------------------------------------------------------------------------
\* peek_pre_cmd: the command before the latest, not the latest.
peek_pre_cmd == his_cmds[IF his_idx = 0 THEN Last ELSE his_idx - 1]

\* add: a command that was there "before" only has its time updated.
AddIndex(cmd) ==
  /\ adding.todo = "none"
  /\ IF peek_pre_cmd = cmd THEN UNCHANGED hvars
     ELSE /\ his_idx' = IF his_idx = Last THEN 0 ELSE his_idx + 1
          /\ curr_his_idx' = -1
          /\ adding' = [todo |-> "init", cmd |-> cmd]
          /\ UNCHANGED <<his_cmds, kept>>

\* history_command_init.
AddClear ==
  /\ adding.todo = "init"
  /\ his_cmds' = [his_cmds EXCEPT ![his_idx] = NoCmd]
  /\ adding' = [adding EXCEPT !.todo = "copy"]
  /\ UNCHANGED <<his_idx, curr_his_idx, kept>>

AddCopy ==
  /\ adding.todo = "copy"
  /\ his_cmds' = [his_cmds EXCEPT ![his_idx] = adding.cmd]
  /\ adding' = NoAdding
  /\ kept' = LET k == Append(kept, adding.cmd)
             IN IF Len(k) > HistSize THEN Tail(k) ELSE k
  /\ UNCHANGED <<his_idx, curr_his_idx>>

-----------------------------------------------------------------------------
\* pre_cmd gives cmd.  After add it reads an entry whose index was never set:
\* the result may be anything.
pre_cmd(cmd) ==
  LET i == IF curr_his_idx = -1 THEN his_idx
           ELSE IF curr_his_idx = 0 THEN Last ELSE curr_his_idx - 1
  IN /\ IF curr_his_idx = -1 THEN cmd \in Cmd \cup {NoCmd} ELSE cmd = his_cmds[i]
     /\ curr_his_idx' = IF cmd # NoCmd THEN i ELSE IF i = Last THEN 0 ELSE i + 1
     /\ UNCHANGED <<his_cmds, his_idx, adding, kept>>

next_cmd(cmd) ==
  LET i == IF curr_his_idx = Last THEN 0 ELSE curr_his_idx + 1
  IN /\ cmd = his_cmds[i]
     /\ curr_his_idx' = IF cmd # NoCmd THEN i ELSE IF i = 1 THEN Last ELSE i - 1
     /\ UNCHANGED <<his_cmds, his_idx, adding, kept>>

-----------------------------------------------------------------------------
history_count ==
  IF his_cmds[Last] # NoCmd THEN HistSize
  ELSE IF his_idx = Last THEN 0 ELSE his_idx + 1

\* MUTANT of oldest: the listing starts at the latest command.
oldest_Latest == IF his_cmds[Last] # NoCmd THEN his_idx ELSE 0

oldest == IF his_cmds[Last] # NoCmd /\ his_idx # Last THEN his_idx + 1 ELSE 0

\* What sys_get_history copies out.
sys_get_history == [k \in 1..history_count |-> his_cmds[(oldest + k - 1) % HistSize]]

\* Between two calls of add the listing is the last commands that add did not
\* drop, oldest first, whether the ring is partly filled, full or has wrapped;
\* and wherever the keyboard's interrupt came, the next arrow key, and pre_cmd
\* and next_cmd after any number of them, stays inside the ring.
HistoryInOrder ==
  /\ adding.todo = "none" => sys_get_history = kept
  /\ curr_his_idx \in -1..Last /\ his_idx \in 0..Last
=============================================================================
