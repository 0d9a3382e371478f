-------------------------------- MODULE Keyboard -------------------------------
(****************************************************************************)
(* The keyboard driver, kernel/dev/keyboard.c: the bytes that a keyboard    *)
(* sends, which is external, and do_handle_keyboard, which takes one byte   *)
(* per interrupt.                                                           *)
(*                                                                          *)
(* A byte is 0xE0, 0xE1 or <<code, make>>.  The codes are those of a few    *)
(* keys of each kind; map_table is that of a letter and of a digit, and     *)
(* every other code without an entry gives the character 0.                 *)
(****************************************************************************)
EXTENDS Naturals, Sequences, FiniteSets

CONSTANTS
  Fx,       \* the function keys that select a console, of F1 to F8
  MaxHeld,  \* bound: keys held together
  MaxBytes  \* bound: bytes not yet read

ASSUME KeyboardAssumption ==
  /\ Fx # {} /\ Fx \subseteq {"F1", "F2", "F3", "F4", "F5", "F6", "F7", "F8"}
  /\ MaxHeld \in Nat /\ MaxBytes \in Nat

VARIABLES
  held,            \* the keys that are down
  bytes,           \* what the keyboard has sent and nobody has read
  recv_state,
  keyboard_state,  \* the flags that are set
  curr_tty,        \* of tty.c: the console that gets the characters
  wanted,          \* history: characters of keys pressed that have not come
  caps,            \* history: caps lock, by the keys pressed
  chosen,          \* history: the function key pressed last
  both,            \* history: it was pressed while another was down
  wrong            \* history: a character came that was not the next wanted

kvars == <<held, bytes, recv_state, keyboard_state, curr_tty, wanted, caps, chosen, both, wrong>>

E0 == <<"prefix", "0">>
E1 == <<"prefix", "1">>

\* The codes of the keys; right ctrl and alt, and the arrows, come after 0xE0.
Plain == {"lshift", "rshift", "caps", "ctrl", "alt", "a", "1", "esc"} \cup Fx
After0 == {"ctrl", "alt", "up"}
KeyHeld == {<<"plain", c>> : c \in Plain} \cup {<<"after0", c>> : c \in After0}

Shifts    == {<<"plain", c>> : c \in {"lshift", "rshift"}}
Modifiers == Shifts \cup {"plain", "after0"} \X {"ctrl", "alt"}
CapsLock  == <<"plain", "caps">>

KeyboardInit ==
  /\ held = {} /\ bytes = <<>>
  /\ recv_state = "NORMAL" /\ keyboard_state = {}
  /\ curr_tty \in Fx
  /\ wanted = <<>> /\ caps = FALSE
  /\ chosen = curr_tty /\ both = FALSE
  /\ wrong = FALSE

-----------------------------------------------------------------------------
\* The character of a key, as a user means it.
Meant(c) ==
  LET shift == Shifts \cap held # {}
  IN IF c = "a" THEN IF shift # caps THEN "A" ELSE "a"
     ELSE IF shift THEN "!" ELSE "1"

\* What the keyboard sends of one key.
Sends(k, make) ==
  bytes' = bytes \o IF k[1] = "after0" THEN <<E0, <<k[2], make>>>> ELSE <<<<k[2], make>>>>

\* A key goes down, or repeats while it is held.
Down ==
  /\ Len(bytes) < MaxBytes
  /\ \E k \in KeyHeld :
       /\ k \in held \/ Cardinality(held) < MaxHeld
       /\ held' = held \cup {k}
       /\ Sends(k, TRUE)
       /\ wanted' = IF k[2] \in {"a", "1"} THEN Append(wanted, Meant(k[2])) ELSE wanted
       /\ caps' = IF k[2] = "caps" THEN ~caps ELSE caps
       /\ IF k[2] \in Fx
          THEN chosen' = k[2] /\ both' = (\E f \in Fx \ {k[2]} : <<"plain", f>> \in held)
          ELSE UNCHANGED <<chosen, both>>
  /\ UNCHANGED <<recv_state, keyboard_state, curr_tty, wrong>>

Up ==
  /\ Len(bytes) < MaxBytes
  /\ \E k \in held : held' = held \ {k} /\ Sends(k, FALSE)
  /\ UNCHANGED <<recv_state, keyboard_state, curr_tty, wanted, caps, chosen, both, wrong>>

\* The pause key: six bytes at once, and none when it is released.
Pause ==
  /\ bytes = <<>>
  /\ bytes' = <<E1, <<"ctrl", TRUE>>, <<"numlock", TRUE>>,
                E1, <<"ctrl", FALSE>>, <<"numlock", FALSE>>>>
  /\ UNCHANGED <<held, recv_state, keyboard_state, curr_tty, wanted, caps, chosen, both, wrong>>

-----------------------------------------------------------------------------
Flag(key, make) ==
  /\ keyboard_state' = IF make THEN keyboard_state \cup {key} ELSE keyboard_state \ {key}
  /\ UNCHANGED <<curr_tty, wanted, wrong>>

Upper(c) == IF c = "a" THEN "A" ELSE IF c = "A" THEN "a" ELSE c

\* MUTANT of Mapped: caps lock is looked at for a key with shift only.
Mapped_Shift(c) ==
  IF c \notin {"a", "1"} THEN "NUL"
  ELSE IF keyboard_state \cap Shifts # {} THEN IF c = "1" THEN "!" ELSE "A"
  ELSE c

\* map_table, shift, and then caps lock.
Mapped(c) ==
  IF c \notin {"a", "1"} THEN "NUL"
  ELSE LET m == IF keyboard_state \cap Shifts # {} THEN IF c = "1" THEN "!" ELSE "A" ELSE c
       IN IF CapsLock \in keyboard_state THEN Upper(m) ELSE m

\* The character goes to tty_in, the character 0 too.
do_default(c, make) ==
  /\ IF make /\ Mapped(c) # "NUL"
     THEN /\ wrong' = (wrong \/ wanted = <<>> \/ Head(wanted) # Mapped(c))
          /\ wanted' = IF wanted = <<>> THEN <<>> ELSE Tail(wanted)
     ELSE UNCHANGED <<wrong, wanted>>
  /\ UNCHANGED <<keyboard_state, curr_tty>>

\* A function key selects its console when it is pressed and when it is
\* released.
do_fx_key(c) ==
  /\ curr_tty' = c
  /\ UNCHANGED <<keyboard_state, wanted, wrong>>

do_normal_key(c, make) ==
  \/ <<"plain", c>> \in Modifiers /\ Flag(<<"plain", c>>, make)
  \/ c = "caps" /\ IF make THEN Flag(CapsLock, CapsLock \notin keyboard_state)
                   ELSE UNCHANGED <<keyboard_state, curr_tty, wanted, wrong>>
  \/ c \in Fx /\ do_fx_key(c)
  \/ c \in {"a", "1", "esc", "numlock"} /\ do_default(c, make)

\* LineEdit!ArrowKey has what tty_handle_key does.
do_e0_key(c, make) ==
  \/ <<"after0", c>> \in Modifiers /\ Flag(<<"after0", c>>, make)
  \/ c = "up" /\ UNCHANGED <<keyboard_state, curr_tty, wanted, wrong>>

do_handle_keyboard ==
  /\ bytes # <<>>
  /\ bytes' = Tail(bytes)
  /\ LET b == Head(bytes)
     IN IF b \in {E0, E1}
        THEN /\ recv_state' = IF b = E0 THEN "BEGIN_E0" ELSE "BEGIN_E1"
             /\ UNCHANGED <<keyboard_state, curr_tty, wanted, wrong>>
        ELSE /\ recv_state' = "NORMAL"
             /\ \/ recv_state = "NORMAL" /\ do_normal_key(b[1], b[2])
                \/ recv_state = "BEGIN_E0" /\ do_e0_key(b[1], b[2])
                \/ recv_state = "BEGIN_E1" /\ UNCHANGED <<keyboard_state, curr_tty, wanted, wrong>>
  /\ UNCHANGED <<held, caps, chosen, both>>

KeyboardNext == Down \/ Up \/ Pause \/ do_handle_keyboard

KeyboardSpec == KeyboardInit /\ [][KeyboardNext]_kvars

-----------------------------------------------------------------------------
\* Every key with a character gives it once per press, in order, with the shift
\* keys that were down and the caps lock that was on when it was pressed, and
\* no sequence of 0xE0 or 0xE1 disturbs the keys behind it.  When all bytes are
\* read the flags are those of the keys that are down, and the console is the
\* one of the function key pressed last, unless it was pressed while another
\* was down: releasing that one selects its console again.
KeysUnderstood ==
  /\ ~wrong
  /\ bytes = <<>> =>
       /\ wanted = <<>> /\ recv_state = "NORMAL"
       /\ keyboard_state = (held \cap Modifiers) \cup (IF caps THEN {CapsLock} ELSE {})
       /\ both \/ curr_tty = chosen
=============================================================================
