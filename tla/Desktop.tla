------------------------------ MODULE Desktop ------------------------------
(***************************************************************************)
(* The desktop, kernel/src/gui/desktop.rs, as the idle loop of kernel_main *)
(* drives it: characters are typed, the mouse is polled, the screen is     *)
(* rendered, the processor halts.  Bytes of the mouse are delivered where  *)
(* the interrupt masks let them through: while init has remapped the PIC   *)
(* and not yet written its own masks, and never after.  Every read the     *)
(* loop makes of the handler's variables is a step all the same, so masks  *)
(* that let line 12 through would bring the interleavings with them.       *)
(* Registers are taken to survive the timer (see Keyboard).                *)
(***************************************************************************)
EXTENDS Option, Mouse, Compositor

CONSTANTS
    Chars,              \* characters read_char returns
    MAX_TEXT,           \* 256, the size of TERMINAL_TEXT
    COLUMNS,            \* glyphs that fit into a line of the terminal: 78
    FONT,               \* the characters of the font, in its order
    ButtonX, ButtonY    \* pixels of the taskbar button

Enter == "enter"
Backspace == "backspace"
ASSUME DesktopAssumption ==
    /\ MAX_TEXT \in Nat /\ COLUMNS \in Nat /\ Len(FONT) >= 6
    /\ MAX_WINDOWS >= 3                 \* the root, the desktop, the terminal
    /\ None \notin Nat

VARIABLES
    step,               \* where the loop stands
    seen_x, seen_y,     \* handle_mouse's mx and my
    down_last,          \* BUTTON_DOWN_LAST
    terminal,           \* TERMINAL_WINDOW, as a slot
    text,               \* TERMINAL_TEXT
    len                 \* TERMINAL_TEXT_LEN

loop_vars == <<step, seen_x, seen_y, down_last>>
gui_vars == <<windows, screen, terminal, text, len>>
vars == <<mouse_vars, loop_vars, gui_vars>>

(* init_compositor creates a root window, desktop::init the desktop with   *)
(* its taskbar over it.  BUTTON, TERM and REST are the areas.              *)
BUTTON == "button"
TERM == "terminal"
REST == "rest"
AllAreas == {BUTTON, TERM, REST}
Background == [a \in AllAreas |-> IF a = BUTTON THEN <<"button">> ELSE <<"background">>]

DesktopInit ==
    /\ MouseInit
    /\ windows = <<Filled(AllAreas, <<"white">>), Background>>
    /\ screen = Rendered(AllAreas, windows)
    /\ step = "boot" /\ seen_x = 0 /\ seen_y = 0 /\ down_last = FALSE
    /\ terminal = None /\ text = [i \in 1 .. MAX_TEXT |-> None] /\ len = 0

(* glyph_for: a character the font lacks is shown as the sixth from last,  *)
(* which is the full stop; the comment there says as space.                *)
Glyph(ch) == IF \E i \in DOMAIN FONT : FONT[i] = ch THEN ch ELSE FONT[Len(FONT) - 5]

(* redraw_terminal: clear_window, then draw_text, which stops at the edge. *)
Shown(t, n) == [i \in 1 .. Min({n, COLUMNS}) |-> Glyph(t[i])]
Redrawn(table, slot, t, n) == [table EXCEPT ![slot] = Filled({TERM}, Shown(t, n))]

-----------------------------------------------------------------------------
(* IRQ12 comes through line 2 of PIC1 and line 4 of PIC2.  During "boot"   *)
(* the firmware's masks are in force, here ones that leave it open; then   *)
(* init writes 0xFC and 0xFB.                                              *)
Pic1Mask == 252
Pic2Mask == 251
MouseLineAlwaysOpen == TRUE                     \* variant: 0xF8 and 0xEB
MouseLineOpen ==
    \/ step = "boot"
    \/ (Pic1Mask \div 4) % 2 = 0 /\ (Pic2Mask \div 16) % 2 = 0

MouseByte ==
    /\ step # "panicked" /\ MouseLineOpen
    /\ ByteArrives \/ ByteLost
    /\ UNCHANGED <<loop_vars, gui_vars>>

(* init writes its masks; kernel_main goes on to its loop. *)
EnterLoop ==
    /\ step = "boot" /\ step' = "keys"
    /\ UNCHANGED <<mouse_vars, seen_x, seen_y, down_last, gui_vars>>

(* type_char, for a character the loop read. *)
NewLen(ch) ==
    CASE ch = Enter -> 0
      [] ch = Backspace -> IF len > 0 THEN len - 1 ELSE len
      [] OTHER -> IF len < MAX_TEXT THEN len + 1 ELSE len

TypeChar(ch) ==
    /\ step = "keys"
    /\ IF terminal = None THEN UNCHANGED gui_vars
       ELSE /\ text' = IF ch \notin {Enter, Backspace} /\ len < MAX_TEXT
                       THEN [text EXCEPT ![len + 1] = ch] ELSE text
            /\ len' = NewLen(ch)
            /\ windows' = Redrawn(windows, terminal, text', len')
            /\ UNCHANGED <<screen, terminal>>
    /\ UNCHANGED <<mouse_vars, loop_vars>>

NoMoreKeys ==
    /\ step = "keys" /\ step' = "x"
    /\ UNCHANGED <<mouse_vars, seen_x, seen_y, down_last, gui_vars>>

(* handle_mouse: mouse_position reads MOUSE_X, then MOUSE_Y, then          *)
(* mouse_buttons MOUSE_BTN.                                                *)
ReadX ==
    /\ step = "x" /\ step' = "y" /\ seen_x' = pos.x
    /\ UNCHANGED <<mouse_vars, seen_y, down_last, gui_vars>>

ReadY ==
    /\ step = "y" /\ step' = "buttons" /\ seen_y' = pos.y
    /\ UNCHANGED <<mouse_vars, seen_x, down_last, gui_vars>>

LeftDown == btn % 2 = 1
Clicked == LeftDown /\ ~down_last /\ seen_x \in ButtonX /\ seen_y \in ButtonY

(* open_terminal creates the window once; the slot is the next one.        *)
NeedsWindow == terminal = None

OpenTerminal ==
    CASE ~NeedsWindow ->
            /\ windows' = Redrawn(windows, terminal, text, len)
            /\ step' = "render"
            /\ UNCHANGED terminal
      [] NeedsWindow /\ CanCreate({TERM}) ->
            /\ terminal' = Len(windows) + 1
            /\ windows' = Redrawn(Append(windows, Filled({TERM}, <<"white">>)),
                                  terminal', text, len)
            /\ step' = "render"
      [] OTHER -> step' = "panicked" /\ UNCHANGED <<windows, terminal>>

ReadButtons ==
    /\ step = "buttons"
    /\ down_last' = LeftDown
    /\ seen_x' = 0 /\ seen_y' = 0          \* the locals are gone
    /\ IF Clicked THEN OpenTerminal
       ELSE step' = "render" /\ UNCHANGED <<windows, terminal>>
    /\ UNCHANGED <<mouse_vars, screen, text, len>>

(* gui::render, then halt_once, which the next interrupt ends. *)
Render ==
    /\ step = "render" /\ step' = "halted"
    /\ screen' = Rendered(AllAreas, windows)
    /\ UNCHANGED <<mouse_vars, seen_x, seen_y, down_last, windows, terminal, text, len>>

Woken ==
    /\ step = "halted" /\ step' = "keys"
    /\ UNCHANGED <<mouse_vars, seen_x, seen_y, down_last, gui_vars>>

Loop == NoMoreKeys \/ ReadX \/ ReadY \/ ReadButtons \/ Render \/ Woken

DesktopNext == MouseByte \/ EnterLoop \/ Loop \/ \E ch \in Chars : TypeChar(ch)

DesktopSpec == DesktopInit /\ [][DesktopNext]_vars

-----------------------------------------------------------------------------
DesktopTypeOK ==
    /\ packet \in Seq(Byte) /\ Cycle < 3
    /\ pos \in [x : 0 .. WIDTH - 1, y : 0 .. HEIGHT - 1] /\ btn \in 0 .. 7
    /\ len \in 0 .. MAX_TEXT
    /\ terminal = None \/ terminal \in DOMAIN windows

(* Whatever is typed and clicked, the desktop never runs out of window     *)
(* slots or of heap, which would stop the kernel: create_window is called  *)
(* once after boot, for the terminal.                                      *)
NeverOutOfWindows == step # "panicked"

(* When the loop halts, the screen shows the taskbar's button, and the     *)
(* terminal, once opened, with the glyphs of what was entered since the    *)
(* last Enter, as far as they fit into a line: type_char redraws after     *)
(* every change, and render paints the root window, the desktop and the    *)
(* terminal in this order.                                                 *)
ScreenIsCurrent ==
    step = "halted" =>
        /\ screen[BUTTON] = <<"button">>
        /\ screen[TERM] = IF terminal = None THEN <<"background">> ELSE Shown(text, len)

(* The terminal is open, from the end of the first pass on, exactly if the *)
(* packets handled during boot left the button pressed with the pointer on *)
(* the taskbar's button: a press that is still held when the loop starts   *)
(* is a click, and no later one is ever seen, although the module comment  *)
(* says "Clicking the button creates a simple terminal window".            *)
OnButton == pos.x \in ButtonX /\ pos.y \in ButtonY
OnlyBootPressOpens == step = "halted" => (terminal # None <=> LeftDown /\ OnButton)

=============================================================================
