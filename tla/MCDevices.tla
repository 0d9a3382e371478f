-------------------------------- MODULE MCDevices ------------------------------
(****************************************************************************)
(* Small instances, for TLC, of components that have nothing in common, in  *)
(* one run: part is the one that moves, the others rest in one initial      *)
(* state.                                                                   *)
(****************************************************************************)
EXTENDS LineEdit, Console, Keyboard, LinkedList, Selectors, Clock, Klib

VARIABLE part

vars == <<part, lvars, cvars, kvars, listvars, selvars, readvars, walkvars, input>>

\* The years of the calendar.
Walked == 1970..2037

DevicesInit ==
  /\ part \in {"line", "console", "keyboard", "list", "selectors", "clock", "calendar", "klib"}
  /\ LineInit /\ ConsoleInit /\ KeyboardInit /\ LinkedListInit /\ SelectorsInit
  /\ ClockInit /\ KlibInit
  /\ part # "console"  => cursor_row = 0 /\ cursor_col = 0
  /\ part # "keyboard" => curr_tty = CHOOSE f \in Fx : TRUE
  /\ part # "clock"    => now = 0
  /\ part # "calendar" => date.year = 1970

DevicesNext ==
  /\ UNCHANGED part
  /\ \/ part = "line" /\ LineNext
          /\ UNCHANGED <<cvars, kvars, listvars, selvars, readvars, walkvars, input>>
     \/ part = "console" /\ ConsoleNext
          /\ UNCHANGED <<lvars, kvars, listvars, selvars, readvars, walkvars, input>>
     \/ part = "keyboard" /\ KeyboardNext
          /\ UNCHANGED <<lvars, cvars, listvars, selvars, readvars, walkvars, input>>
     \/ part = "list" /\ LinkedListNext
          /\ UNCHANGED <<lvars, cvars, kvars, selvars, readvars, walkvars, input>>
     \/ part = "selectors" /\ SelectorsNext
          /\ UNCHANGED <<lvars, cvars, kvars, listvars, readvars, walkvars, input>>
     \/ part = "clock" /\ ReadClock
          /\ UNCHANGED <<lvars, cvars, kvars, listvars, selvars, walkvars, input>>
     \/ part = "calendar" /\ Walk
          /\ UNCHANGED <<lvars, cvars, kvars, listvars, selvars, readvars, input>>
     \/ part = "klib" /\ KlibNext
          /\ UNCHANGED <<lvars, cvars, kvars, listvars, selvars, readvars, walkvars>>

DevicesSpec == DevicesInit /\ [][DevicesNext]_vars
=============================================================================
