--------------------------------- MODULE Console -------------------------------
(****************************************************************************)
(* What one console shows: the loop body of console_write of                *)
(* kernel/dev/console.c, one character a step, with the console's mutex     *)
(* held.  Tty has the loop, the queue and the mutex; LineEdit has the       *)
(* caller of erase_backword that does not hold it.                          *)
(*                                                                          *)
(* The memory of the consoles is one array; a cell is the place row *       *)
(* Cols + col, and a console has the first Rows * Cols places from its      *)
(* disp_base.  Colours are left out.                                        *)
(****************************************************************************)
EXTENDS Integers, FiniteSets

CONSTANTS
  Rows, Cols,  \* display_rows and display_cols
  EscMax,      \* ESC_PARAM_MAX
  Digit,       \* the digits a program writes
  ParamMax     \* bound: the largest parameter

ASSUME ConsoleAssumption ==
  /\ Rows \in Nat \ {0, 1} /\ Cols \in Nat \ {0, 1} /\ EscMax \in Nat \ {0, 1}
  /\ Digit \subseteq 0..9 /\ ParamMax \in Nat

VARIABLES
  cursor_row, cursor_col,
  old_cursor_row, old_cursor_col,  \* the cursor that ESC 7 has saved
  write_state,
  esc_param,        \* the parameters; curr_param_index lies behind the last
  curr_param_index,
  filled,           \* the cells of the screen that are not blank
  home, high,       \* history: the places where the typing began, and has been
  strayed           \* history: what took the cursor off the screen, or curr_param_index
                    \* off esc_param

shownvars == <<cursor_row, cursor_col, filled, home, high>>
cvars == <<shownvars, old_cursor_row, old_cursor_col, write_state, esc_param, curr_param_index, strayed>>

Place  == cursor_row * Cols + cursor_col
Screen == 0..(Rows * Cols - 1)
InScreen(r, c) == r \in 0..(Rows - 1) /\ c \in 0..(Cols - 1)

\* The BIOS has left the cursor somewhere on the first console.
ConsoleInit ==
  /\ cursor_row \in 0..(Rows - 1) /\ cursor_col \in 0..(Cols - 1)
  /\ old_cursor_row = cursor_row /\ old_cursor_col = cursor_col
  /\ write_state = "normal"
  /\ esc_param = [i \in 0..(EscMax - 1) |-> 0] /\ curr_param_index = 0
  /\ filled = 0..(Place - 1)
  /\ home = Place /\ high = Place
  /\ strayed = {}

-----------------------------------------------------------------------------
\* scroll_up of one row: what is typed moves with the screen.
Scrolled(cells) == {i \in Screen : i + Cols \in cells /\ i + Cols \in Screen}

\* The cursor goes to a place where no typing has been.
JumpTo(r, c) ==
  /\ cursor_row' = r /\ cursor_col' = c
  /\ home' = r * Cols + c /\ high' = r * Cols + c

\* show_char, and move_forward of one place.  A program that writes where the
\* cursor is not on the screen writes to another console.
show_char ==
  LET wraps   == cursor_col + 1 >= Cols
      scrolls == wraps /\ cursor_row + 1 >= Rows
      up      == IF scrolls THEN Cols ELSE 0
      cells   == filled \cup ({Place} \cap Screen)
      top     == IF high > Place THEN high ELSE Place + 1
  IN /\ filled' = IF scrolls THEN Scrolled(cells) ELSE cells
     /\ cursor_col' = IF wraps THEN 0 ELSE cursor_col + 1
     /\ cursor_row' = IF wraps /\ ~scrolls THEN cursor_row + 1 ELSE cursor_row
     /\ home' = IF home > up THEN home - up ELSE 0
     /\ high' = top - up
     /\ UNCHANGED strayed

\* move_next_line: the column stays.
move_next_line ==
  LET scrolls == cursor_row + 1 >= Rows
      r       == IF scrolls THEN cursor_row ELSE cursor_row + 1
  IN /\ JumpTo(r, cursor_col)
     /\ filled' = IF scrolls THEN Scrolled(filled) ELSE filled
     /\ UNCHANGED strayed

\* The place before the cursor; the first place has none.
Before == IF cursor_col > 0 THEN <<cursor_row, cursor_col - 1>>
          ELSE IF cursor_row > 0 THEN <<cursor_row - 1, Cols - 1>> ELSE <<cursor_row, cursor_col>>

\* '\b'.
move_backword == JumpTo(Before[1], Before[2]) /\ UNCHANGED <<filled, strayed>>

\* MUTANT of erase_backword: it stops at the beginning of a row.
erase_backword_Row ==
  /\ IF cursor_col > 0 THEN cursor_col' = cursor_col - 1 /\ filled' = filled \ {Place - 1}
     ELSE UNCHANGED <<cursor_col, filled>>
  /\ home' = IF home > Place - 1 THEN Place - 1 ELSE home
  /\ UNCHANGED <<cursor_row, high, strayed>>

\* A delete blanks the place before the cursor and goes there.
erase_backword ==
  LET at == Before[1] * Cols + Before[2]
  IN IF <<cursor_row, cursor_col>> = Before THEN JumpTo(cursor_row, cursor_col) /\ UNCHANGED <<filled, strayed>>
     ELSE /\ cursor_row' = Before[1] /\ cursor_col' = Before[2]
          /\ filled' = filled \ {at}
          /\ home' = IF home > at THEN at ELSE home
          /\ UNCHANGED <<high, strayed>>

write_normal ==
  /\ write_state = "normal"
  /\ \/ write_state' = "esc" /\ UNCHANGED <<shownvars, strayed>>
     \/ /\ \/ show_char \/ erase_backword \/ move_backword \/ move_next_line
           \/ JumpTo(cursor_row, 0) /\ UNCHANGED <<filled, strayed>>
        /\ UNCHANGED write_state
  /\ UNCHANGED <<old_cursor_row, old_cursor_col, esc_param, curr_param_index>>

-----------------------------------------------------------------------------
\* ESC 7, ESC 8, ESC [ and any other character.
write_esc ==
  /\ write_state = "esc"
  /\ \/ /\ old_cursor_row' = cursor_row /\ old_cursor_col' = cursor_col /\ write_state' = "normal"
        /\ UNCHANGED <<shownvars, esc_param, curr_param_index>>
     \/ /\ JumpTo(old_cursor_row, old_cursor_col) /\ write_state' = "normal"
        /\ UNCHANGED <<filled, old_cursor_row, old_cursor_col, esc_param, curr_param_index>>
     \/ /\ esc_param' = [i \in 0..(EscMax - 1) |-> 0] /\ curr_param_index' = 0
        /\ write_state' = "square"
        /\ UNCHANGED <<shownvars, old_cursor_row, old_cursor_col>>
     \/ /\ write_state' = "normal"
        /\ UNCHANGED <<shownvars, old_cursor_row, old_cursor_col, esc_param, curr_param_index>>
  /\ UNCHANGED strayed

\* A digit.  Behind the last parameter lies the index itself; from then on it
\* points anywhere, which is EscMax + 1 here.
Param ==
  /\ write_state = "square"
  /\ \E d \in Digit :
       IF curr_param_index < EscMax
       THEN LET v == esc_param[curr_param_index] * 10 + d
            IN /\ v <= ParamMax
               /\ esc_param' = [esc_param EXCEPT ![curr_param_index] = v]
               /\ UNCHANGED <<curr_param_index, strayed>>
       ELSE /\ curr_param_index' = EscMax + 1
            /\ strayed' = strayed \cup {"param"}
            /\ UNCHANGED esc_param
  /\ UNCHANGED <<shownvars, old_cursor_row, old_cursor_col, write_state>>

Separator ==
  /\ write_state = "square"
  /\ curr_param_index < EscMax
  /\ curr_param_index' = curr_param_index + 1
  /\ UNCHANGED <<shownvars, old_cursor_row, old_cursor_col, write_state, esc_param, strayed>>

Steps(n) == IF n = 0 THEN 1 ELSE n
move_left(n)  == JumpTo(cursor_row, IF cursor_col > Steps(n) THEN cursor_col - Steps(n) ELSE 0)

\* MUTANT of move_right: the last column is not the limit.
move_right_Far(n) == JumpTo(cursor_row, cursor_col + Steps(n))

move_right(n) == JumpTo(cursor_row, IF cursor_col + Steps(n) >= Cols THEN Cols - 1 ELSE cursor_col + Steps(n))

\* H and f take the parameters as they are.
move_cursor ==
  /\ JumpTo(esc_param[0], esc_param[1])
  /\ strayed' = IF InScreen(esc_param[0], esc_param[1]) THEN strayed
                ELSE strayed \cup {"cursor"}
  /\ UNCHANGED filled

\* 2J erases as many rows as the screen has columns: Cols - Rows of them belong
\* to the consoles behind this one.
erase_in_display ==
  IF esc_param[0] # 2 THEN UNCHANGED <<shownvars, strayed>>
  ELSE /\ JumpTo(0, 0)
       /\ filled' = {}
       /\ UNCHANGED strayed

\* The other characters end the sequence; m sets colours.
write_esc_square ==
  /\ write_state = "square"
  /\ write_state' = "normal"
  /\ \/ (move_left(esc_param[0]) \/ move_right(esc_param[0])) /\ UNCHANGED <<filled, strayed>>
     \/ move_cursor
     \/ erase_in_display
     \/ UNCHANGED <<shownvars, strayed>>
  /\ UNCHANGED <<old_cursor_row, old_cursor_col, esc_param, curr_param_index>>

ConsoleNext == write_normal \/ write_esc \/ Param \/ Separator \/ write_esc_square

ConsoleSpec == ConsoleInit /\ [][ConsoleNext]_cvars

-----------------------------------------------------------------------------
\* Whatever a program writes, the cursor, and the one that ESC 8 restores, stay
\* on the console's screen, and with them all that show_char and a delete write,
\* with two exceptions: H and f with parameters that are outside, and digits
\* for an eleventh parameter.  And a delete undoes what a character has done,
\* over the ends of rows and the scrolling of the screen: from where the typing
\* began to the cursor all is filled, and what was deleted is blank.
ConsoleSound ==
  strayed = {} =>
    /\ InScreen(cursor_row, cursor_col) /\ InScreen(old_cursor_row, old_cursor_col)
    /\ curr_param_index <= EscMax
    /\ home <= Place /\ Place <= high
    /\ \A i \in Screen : /\ i >= home /\ i < Place => i \in filled
                         /\ i >= Place /\ i < high => i \notin filled
=============================================================================
