------------------------------ MODULE LizardShell ------------------------------
(***************************************************************************)
(* LizardShell.py: a terminal emulator with an on-screen keyboard. One     *)
(* thread reads what the shell writes and draws it, one reads the user's   *)
(* keys and draws the keyboard below it, and the main thread waits for the *)
(* shell to end. They share one lock, which the screen thread does not     *)
(* always take, and a cache of the real cursor's position.                 *)
(*                                                                         *)
(* A screen is the lengths of its rows; what is written in them is left    *)
(* out. A section under the lock is one step with the local steps before   *)
(* it, except where it reads from the shell or where the other thread's    *)
(* unlocked code can come between.                                         *)
(***************************************************************************)
EXTENDS Integers, Sequences, SequencesExt

CONSTANTS
    Sizes,       \* screen sizes <<width, height>> of terminals large enough
    Layout,      \* KEYBOARD_LAYOUT, with the kinds of the keys
    MaxN,        \* bound on the numbers in escape sequences
    MaxResizes,  \* bound on how often the terminal changes its size
    None

TooSmall == <<0, 0>>    \* a terminal that does not fit the keyboard
KeyKind == {"letter", "mapped", "Backspace", "Ctrl", "Shift", "Caps"}

ASSUME LizardAssumption ==
    /\ Sizes \subseteq (Nat \ {0}) \X (Nat \ {0}) /\ Sizes # {}
    /\ Layout \in Seq(Seq(KeyKind)) /\ Layout # <<>>
    /\ \A i \in DOMAIN Layout : Layout[i] # <<>>
    /\ MaxN \in Nat /\ MaxResizes \in Nat
    /\ None \notin Seq(Nat) \cup {"screen", "keyboard", "print", "undecodable"}

VARIABLES
    \* the terminal and the shell
    term,     \* the terminal's size
    resizes,  \* how often it has changed
    cursor,   \* where the terminal's cursor is, or Lost
    alive,    \* the shell runs
    \* state of init()
    width, height,
    screen, alt, usingAlt,
    x, y,     \* screen_x, screen_y
    real,     \* real_x and real_y, or None (not known, or not followed)
    keyX, keyY, ctrl, shift, caps,
    lock,     \* its owner, or None
    \* threads
    scr,      \* screen_worker: its pc and the character being printed
    kbd,      \* keyboard_worker: its pc
    ended     \* main() has ended, and the daemon threads with it

tty == <<term, resizes>>
buffer == <<width, height, screen, alt, usingAlt>>
pos == <<x, y>>
drawn == <<cursor, real>>
keys == <<keyX, keyY, ctrl, shift, caps>>
vars == <<tty, alive, buffer, pos, drawn, keys, lock, scr, kbd, ended>>

Item(cmd, n, m) == [cmd |-> cmd, n |-> n, m |-> m]
N == 0 .. MaxN
Counted == {"G", "d", "C", "P", "S", "A", "B", "D", "r"}
Uncounted == {"K", "1K", "X", "J", "2J", "alt on", "alt off", "other",
              "malformed", "not a sequence"}
Sequence == {Item(cmd, n, 0) : cmd \in Counted, n \in N}
            \cup {Item("H", n, m) : n, m \in N}
            \cup {Item(cmd, 0, 0) : cmd \in Uncounted}
Char == {"print", "undecodable", "newline", "return", "backspace", "control",
         "escape"}
Printable == {"print", "undecodable"}   \* ''.isprintable() holds

-----------------------------------------------------------------------------
(* Lists and the terminal *)

Upto(s, n) == SubSeq(s, 1, IF n < 0 THEN Len(s) + n
                           ELSE IF n < Len(s) THEN n ELSE Len(s))
From(s, n) == SubSeq(s, n + 1, Len(s))
Rows(n, w) == [i \in 1 .. (IF n < 0 THEN 0 ELSE n) |-> IF w < 0 THEN 0 ELSE w]

(* state['screen'][j][i]: a negative index counts from the end.            *)
RowOf(s, j) == IF j < 0 THEN Len(s) + j + 1 ELSE j + 1
HasCell(s, i, j) == RowOf(s, j) \in DOMAIN s /\ i < s[RowOf(s, j)]

(* The screen as redraw_screen() leaves it.                                *)
Fitted(s, w, h) == LET kept == Upto(s, h) IN
    Rows(Len(kept), w) \o Rows(h - Len(kept), w)

(* The cursor, below the screen, while the keyboard is drawn.              *)
OnKeyboard == <<-1, -1>>
Lost == <<-2, -2>>

Between(lo, n, hi) == IF n < lo THEN lo ELSE IF n > hi THEN hi ELSE n
Clamped(i, j) == <<Between(0, i, width - 1), Between(0, j, height + Len(Layout))>>

(* n characters from position p on; a full row goes on in the next.        *)
After(p, n) ==
    IF p \in {OnKeyboard, Lost} \/ width < 1 THEN p
    ELSE LET k == p[2] * width + p[1] + n IN Clamped(k % width, k \div width)

(* Draw with the cursor at p and the cache at r afterwards. Once something *)
(* happens that the cache does not account for (sound is FALSE) the cursor *)
(* is lost, and neither is followed any more.                              *)
Draw(p, r, sound) ==
    LET lost == cursor = Lost \/ ~sound IN
    /\ cursor' = IF lost THEN Lost ELSE p
    /\ real' = IF lost THEN None ELSE r

(* move_real_cursor() and n characters: nothing is sent to the terminal    *)
(* when the cache says that the cursor is there.                           *)
Moved(i, j) == IF real = <<i, j>> THEN cursor ELSE Clamped(i, j)
MoveAndWrite(i, j, n, sound) == Draw(After(Moved(i, j), n), <<i, j>>, sound)

(* redraw_screen() *)
Redraw(s, w, h) ==
    /\ screen' = Fitted(s, w, h)
    /\ Draw(IF Moved(0, 0) = <<0, 0>> THEN <<0, h>> ELSE Moved(0, 0), <<0, h>>,
            TRUE)

(* redraw_if_terminal_resized(); the keyboard is drawn last.               *)
Resized == term # TooSmall /\ term # <<width, height>>

RedrawIfResized(s) ==
    IF Resized
    THEN /\ width' = term[1] /\ height' = term[2]
         /\ screen' = Fitted(s, term[1], term[2])
         /\ Draw(OnKeyboard, None, TRUE)
    ELSE screen' = s /\ UNCHANGED <<width, height, drawn>>

-----------------------------------------------------------------------------
(* The shell and the terminal *)

ShellExits ==
    /\ ~ended /\ alive
    /\ alive' = FALSE
    /\ UNCHANGED <<tty, buffer, pos, drawn, keys, lock, scr, kbd, ended>>

ResizeTerminal(s) ==
    /\ ~ended /\ resizes < MaxResizes
    /\ s # term
    /\ term' = s /\ resizes' = resizes + 1 /\ cursor' = Lost /\ real' = None
    /\ UNCHANGED <<alive, buffer, pos, keys, lock, scr, kbd, ended>>

-----------------------------------------------------------------------------
(* screen_worker() *)

ScrAt(l) == ~ended /\ scr.pc = l
ScrGoto(l) == scr' = [scr EXCEPT !.pc = l]
Dies(why) == scr' = [pc |-> why, c |-> None]
others == <<tty, alive, keys, kbd, ended>>   \* what drawing leaves alone

(* The loop ends with the shell. A read that began before goes on waiting, *)
(* without the lock and with nothing to come.                              *)
ScrOver ==
    /\ ScrAt("read") /\ ~alive
    /\ Dies("over")
    /\ UNCHANGED <<others, buffer, pos, drawn, lock>>

(* Mutant: the lock is held while the next character is waited for. *)
ScrReadLocked ==
    /\ ScrAt("read") /\ alive
    /\ \/ lock = None /\ lock' = "screen" /\ UNCHANGED <<scr, buffer, drawn>>
       \/ /\ lock = "screen" /\ lock' = None
          /\ RedrawIfResized(screen) /\ UNCHANGED <<alt, usingAlt>>
          /\ ScrGoto("handle")
    /\ UNCHANGED <<others, pos>>

(* The shell writes, the thread reads it and looks whether the terminal    *)
(* has changed. Which character it was is chosen where it is used.         *)
ScrRead ==
    /\ ScrAt("read") /\ alive /\ lock = None
    /\ RedrawIfResized(screen)
    /\ ScrGoto("handle")
    /\ UNCHANGED <<others, alt, usingAlt, pos, lock>>

(* Newline, carriage return and what is ignored take no lock.              *)
ScrPlain(c) ==
    /\ ScrAt("handle") /\ c \in {"newline", "return", "control"}
    /\ x' = IF c = "control" THEN x ELSE 0
    /\ y' = IF c = "newline" THEN y + 1 ELSE y
    /\ ScrGoto("norm")
    /\ UNCHANGED <<others, buffer, drawn, lock>>

ScrBackspace ==
    /\ ScrAt("handle") /\ lock = None
    /\ IF HasCell(screen, x, y)
       THEN /\ x' = x - 1
            /\ Draw(Clamped(x - 1, y), <<x - 1, y>>, TRUE)
            /\ ScrGoto("norm")
       ELSE Dies("index") /\ UNCHANGED <<x, drawn>>
    /\ UNCHANGED <<others, buffer, y, lock>>

(* The cell is written without the lock, the terminal with it, and what    *)
(* follows without it again.                                               *)
ScrCell(c) ==
    /\ ScrAt("handle") /\ c \in Printable
    /\ IF HasCell(screen, x, y) THEN scr' = [pc |-> "print", c |-> c]
                                ELSE Dies("index")
    /\ UNCHANGED <<others, buffer, pos, drawn, lock>>

(* A byte that is not a character by itself is drawn as nothing.           *)
ScrPrint ==
    /\ ScrAt("print") /\ lock = None
    /\ MoveAndWrite(x, y, IF scr.c = "print" THEN 1 ELSE 0,
                    scr.c = "print" /\ y >= 0)
    /\ ScrGoto("advance")
    /\ UNCHANGED <<others, buffer, pos, lock>>

ScrAdvance ==
    /\ ScrAt("advance")
    /\ x' = x + 1
    /\ ScrGoto("norm")
    /\ UNCHANGED <<others, buffer, y, drawn, lock>>

NormX == IF x < 0 \/ x >= width THEN 0 ELSE x
NormY == IF x >= 0 /\ x >= width THEN y + 1 ELSE y

(* Mutant: a row that is full is not left. *)
ScrNormaliseRowOnly ==
    /\ ScrAt("norm")
    /\ x' = (IF x < 0 THEN 0 ELSE x) /\ y' = y
    /\ IF scr.c \in Printable THEN Draw(cursor, <<x', y>>, TRUE)
                               ELSE UNCHANGED drawn
    /\ scr' = [pc |-> "read", c |-> None]
    /\ UNCHANGED <<others, buffer, lock>>

(* Mutant: the cursor is taken to be where the text goes on, after an      *)
(* escape sequence too.                                                    *)
ScrNormaliseTrusting ==
    /\ ScrAt("norm")
    /\ x' = NormX
    /\ IF NormY >= height
       THEN /\ y' = height - 1
            /\ screen' = From(screen, 1) \o Rows(1, width)
            /\ ScrGoto("scroll")
            /\ UNCHANGED drawn
       ELSE /\ y' = NormY
            /\ Draw(cursor, <<NormX, NormY>>, lock # "keyboard")
            /\ scr' = [pc |-> "read", c |-> None]
            /\ UNCHANGED screen
    /\ UNCHANGED <<others, width, height, alt, usingAlt, lock>>

(* The end of the loop: back into the screen, and the cursor is taken to   *)
(* be where the text goes on. None of it is under the lock.                *)
ScrNormalise ==
    /\ ScrAt("norm")
    /\ x' = NormX
    /\ IF NormY >= height
       THEN /\ y' = height - 1
            /\ screen' = From(screen, 1) \o Rows(1, width)
            /\ ScrGoto("scroll")
            /\ UNCHANGED drawn
       ELSE /\ y' = NormY
            /\ IF scr.c \in Printable
               THEN Draw(cursor, <<NormX, NormY>>, lock # "keyboard")
               ELSE UNCHANGED drawn
            /\ scr' = [pc |-> "read", c |-> None]
            /\ UNCHANGED screen
    /\ UNCHANGED <<others, width, height, alt, usingAlt, lock>>

ScrScroll ==
    /\ ScrAt("scroll") /\ lock = None
    /\ Redraw(screen, width, height)
    /\ scr' = [pc |-> "read", c |-> None]
    /\ UNCHANGED <<others, width, height, alt, usingAlt, pos, lock>>

-----------------------------------------------------------------------------
(* handle_escape_sequence() *)

(* The rest of the sequence is read with the lock held.                    *)
ScrEscape ==
    /\ ScrAt("handle") /\ lock = None
    /\ lock' = "screen"
    /\ ScrGoto("sequence")
    /\ UNCHANGED <<others, buffer, pos, drawn>>

(* The sequences that only set the position. All but H send the cursor     *)
(* there.                                                                  *)
Positioning == {"G", "d", "H", "C", "A", "B", "D", "r"}

Target(cmd, n, m) ==
    CASE cmd = "G" -> <<n - 1, y>>
      [] cmd = "d" -> <<x, n - 1>>
      [] cmd = "H" -> <<m - 1, n - 1>>
      [] cmd = "C" -> <<x + n, y>>
      [] cmd = "A" -> <<x, IF y - n < 0 THEN 0 ELSE y - n>>
      [] cmd = "B" -> <<x, IF y + n >= height THEN height - 1 ELSE y + n>>
      [] cmd = "D" -> <<IF x - n < 0 THEN 0 ELSE x - n, y>>
      [] cmd = "r" -> <<x, n>>

Position(cmd, n, m) ==
    /\ cmd \in Positioning
    /\ x' = Target(cmd, n, m)[1] /\ y' = Target(cmd, n, m)[2]
    /\ IF cmd = "H" THEN UNCHANGED drawn ELSE MoveAndWrite(x', y', 0, TRUE)
    /\ ScrGoto("norm")
    /\ UNCHANGED buffer

(* K: real_x is forgotten, so that the cursor is sent back.                *)
EraseLine ==
    /\ IF RowOf(screen, y) \in DOMAIN screen
       THEN /\ screen' = [screen EXCEPT ![RowOf(screen, y)] =
                             (IF x < @ THEN x ELSE @)
                             + (IF x < width THEN width - x ELSE 0)]
            /\ Draw(Clamped(x, y), <<x, y>>, TRUE)
            /\ ScrGoto("norm")
       ELSE Dies("index") /\ UNCHANGED <<screen, drawn>>
    /\ UNCHANGED <<width, height, alt, usingAlt, pos>>

(* 1K and X write cell by cell.                                            *)
EraseCells(cmd) ==
    /\ LET cells == IF cmd = "1K" THEN 0 .. (x - 1) ELSE x .. (width - 1) IN
       IF \A i \in cells : HasCell(screen, i, y)
       THEN /\ IF cmd = "1K"
               THEN Draw(After(Moved(0, y), x), <<x, y>>, TRUE)
               ELSE Draw(Clamped(x, y), <<x, y>>, TRUE)
            /\ ScrGoto("norm")
       ELSE Dies("index") /\ UNCHANGED drawn
    /\ UNCHANGED <<buffer, pos>>

(* J, 2J and S redraw what they leave.                                     *)
EraseScreen(cmd, n) ==
    /\ Redraw(CASE cmd = "J" -> Upto(screen, y)
                [] cmd = "2J" -> Rows(height, width)
                [] cmd = "S" -> From(screen, n) \o Rows(n, width),
              width, height)
    /\ ScrGoto("norm")
    /\ UNCHANGED <<width, height, alt, usingAlt, pos>>

(* P writes n spaces, and the second move is not sent: the cache still     *)
(* has the position from before the spaces.                                *)
DeleteChars(n) ==
    /\ MoveAndWrite(x, y, n, n = 0)
    /\ ScrGoto("norm")
    /\ UNCHANGED <<buffer, pos>>

(* The other screen comes back with the size it was left with; it is       *)
(* fitted only if the terminal has changed since the last look at it.      *)
SwapScreens(on) ==
    /\ LET made == IF on /\ alt = None THEN Rows(height, width) ELSE alt IN
       IF on # usingAlt
       THEN RedrawIfResized(made) /\ alt' = screen
       ELSE /\ IF on THEN RedrawIfResized(screen)
                     ELSE UNCHANGED <<width, height, screen, drawn>>
            /\ alt' = made
    /\ usingAlt' = on
    /\ ScrGoto("norm")
    /\ UNCHANGED pos

Apply(cmd, n, m) ==
    \/ Position(cmd, n, m)
    \/ cmd = "K" /\ EraseLine
    \/ cmd \in {"1K", "X"} /\ EraseCells(cmd)
    \/ cmd \in {"J", "2J", "S"} /\ EraseScreen(cmd, n)
    \/ cmd = "P" /\ DeleteChars(n)
    \/ cmd \in {"alt on", "alt off"} /\ SwapScreens(cmd = "alt on")
    \/ /\ cmd \in {"other", "not a sequence"}
       /\ ScrGoto("norm") /\ UNCHANGED <<buffer, pos, drawn>>
    \/ /\ cmd = "malformed"      \* int() or the unpacking raises ValueError
       /\ Dies("value") /\ UNCHANGED <<buffer, pos, drawn>>

ScrSequence(i) ==
    /\ ScrAt("sequence") /\ alive
    /\ Apply(i.cmd, i.n, i.m)
    /\ lock' = None
    /\ UNCHANGED others

-----------------------------------------------------------------------------
(* keyboard_worker() *)

KbdAt(l) == ~ended /\ kbd = l
Key == Layout[keyY][keyX]
untouched == <<tty, alive, pos, scr, ended>>   \* what the keyboard leaves alone

KbdOver ==
    /\ KbdAt("read") /\ ~alive
    /\ kbd' = "over"
    /\ UNCHANGED <<untouched, buffer, drawn, keys, lock>>

(* The bytes of an arrow key are read one by one, without the lock.        *)
KbdRead ==
    /\ KbdAt("read") /\ alive /\ lock = None
    /\ RedrawIfResized(screen)
    /\ kbd' = "act"
    /\ UNCHANGED <<untouched, alt, usingAlt, keys, lock>>

(* Enter on a key that is only passed on to the shell; Backspace takes the *)
(* lock before, for nothing.                                               *)
KbdPass(c) ==
    /\ KbdAt("act")
    /\ \/ c = "other"
       \/ c = "enter" /\ Key = "Backspace" /\ lock = None
       \/ c = "enter" /\ Key = "mapped"
       \/ c = "enter" /\ Key = "letter" /\ ~ctrl /\ ~shift
    /\ kbd' = "read"
    /\ UNCHANGED <<untouched, buffer, drawn, keys, lock>>

(* The text is printed, and the cache does not know it yet.                *)
ScrBetween == scr.c \in Printable /\ scr.pc \in {"advance", "norm"}

(* Keys that change the keyboard: it is drawn, and then the cursor is sent *)
(* back to the text, both under the lock.                                  *)
KbdDraw(r) ==
    /\ lock = None
    /\ Draw(OnKeyboard, r, ~ScrBetween)
    /\ kbd' = "back"
    /\ lock' = "keyboard"
    /\ UNCHANGED <<untouched, buffer>>

KbdToggle(c) ==
    /\ KbdAt("act") /\ c = "enter"
    /\ \/ /\ Key = "Ctrl" \/ (Key = "letter" /\ ctrl)
          /\ ctrl' = ~ctrl /\ KbdDraw(OnKeyboard)
          /\ UNCHANGED <<shift, caps>>
       \/ /\ Key = "Shift"
          /\ shift' = ~shift /\ caps' = (caps /\ shift') /\ KbdDraw(None)
          /\ UNCHANGED ctrl
       \/ /\ Key = "Caps"
          /\ caps' = ~caps /\ shift' = caps' /\ KbdDraw(None)
          /\ UNCHANGED ctrl
    /\ UNCHANGED <<keyX, keyY>>

(* Mutant: shift goes off after every letter. *)
KbdShiftedDropsShift(c) ==
    /\ KbdAt("act") /\ c = "enter"
    /\ Key = "letter" /\ ~ctrl /\ shift /\ lock = None
    /\ shift' = FALSE
    /\ Draw(OnKeyboard, None, ~ScrBetween)
    /\ kbd' = "read"
    /\ UNCHANGED <<untouched, buffer, keyX, keyY, ctrl, caps, lock>>

(* A shifted letter: shift goes off again unless caps holds it. The cursor *)
(* stays on the keyboard, and the cache is cleared.                        *)
KbdShifted(c) ==
    /\ KbdAt("act") /\ c = "enter"
    /\ Key = "letter" /\ ~ctrl /\ shift /\ lock = None
    /\ shift' = caps
    /\ IF caps THEN UNCHANGED drawn
       ELSE Draw(OnKeyboard, None, ~ScrBetween)
    /\ kbd' = "read"
    /\ UNCHANGED <<untouched, buffer, keyX, keyY, ctrl, caps, lock>>

Wrapped(n, len) == IF n < 1 THEN len ELSE IF n > len THEN 1 ELSE n

(* Arrow keys: the row first, then the column in the new row.              *)
KbdArrow(c) ==
    /\ KbdAt("act") /\ c \in {"up", "down", "left", "right"}
    /\ keyY' = Wrapped(CASE c = "up" -> keyY - 1 [] c = "down" -> keyY + 1
                         [] OTHER -> keyY, Len(Layout))
    /\ keyX' = Wrapped(CASE c = "left" -> keyX - 1 [] c = "right" -> keyX + 1
                         [] OTHER -> keyX, Len(Layout[keyY']))
    /\ KbdDraw(OnKeyboard)
    /\ UNCHANGED <<ctrl, shift, caps>>

KbdBack ==
    /\ KbdAt("back")
    /\ MoveAndWrite(x, y, 0, ~ScrBetween)
    /\ lock' = None
    /\ kbd' = "read"
    /\ UNCHANGED <<untouched, buffer, keys>>

-----------------------------------------------------------------------------
(* main() *)

MainEnds ==
    /\ ~ended /\ ~alive /\ lock = None
    /\ ended' = TRUE
    /\ UNCHANGED <<tty, alive, buffer, pos, drawn, keys, lock, scr, kbd>>

Init ==
    /\ term \in Sizes \cup {TooSmall} /\ resizes = 0
    /\ cursor = IF term = TooSmall THEN Lost ELSE <<0, 0>>
    /\ alive = TRUE
    /\ width = -1 /\ height = -1 /\ screen = <<>> /\ alt = None
    /\ usingAlt = FALSE
    /\ x = 0 /\ y = 0 /\ real = None
    /\ keyX = 1 /\ keyY = 1 /\ ctrl = FALSE /\ shift = FALSE /\ caps = FALSE
    /\ lock = None
    /\ scr = [pc |-> "read", c |-> None] /\ kbd = "read"
    /\ ended = FALSE

ScreenThread ==
    \/ ScrOver \/ ScrBackspace \/ ScrPrint \/ ScrAdvance
    \/ ScrNormalise \/ ScrScroll \/ ScrEscape
    \/ \E c \in Char : ScrPlain(c) \/ ScrCell(c)

KeyboardThread ==
    \/ KbdOver \/ KbdBack
    \/ \E c \in {"enter", "up", "down", "left", "right", "other"} :
          KbdPass(c) \/ KbdToggle(c) \/ KbdShifted(c) \/ KbdArrow(c)

Shell == ShellExits \/ ScrRead \/ \E i \in Sequence : ScrSequence(i)

User == KbdRead \/ \E s \in Sizes \cup {TooSmall} : ResizeTerminal(s)

Next == ScreenThread \/ KeyboardThread \/ MainEnds \/ Shell \/ User

(* The threads are scheduled; the shell and the user owe nothing.          *)
Spec ==
    /\ Init /\ [][Next]_vars
    /\ WF_vars(ScreenThread) /\ WF_vars(KeyboardThread) /\ WF_vars(MainEnds)

-----------------------------------------------------------------------------
(* Properties *)

(* The highlighted key exists whatever row the arrow keys come from, and   *)
(* caps is never on without shift.                                         *)
LizardTypeOK ==
    /\ keyY \in DOMAIN Layout /\ keyX \in DOMAIN Layout[keyY]
    /\ caps => shift
    /\ \A i \in DOMAIN screen : screen[i] \in Nat
    /\ usingAlt => alt # None

(* The terminal fits and has had one size since the start.                 *)
Steady == resizes = 0 /\ term # TooSmall

(* In a terminal that keeps its size no order of text and escape sequences *)
(* takes the screen thread past the end of the screen (an IndexError would *)
(* end the thread and with it all output); the position is brought back    *)
(* only at the end of the loop (LizardShell.py:393).                       *)
IndexSafe == scr.pc = "index" => ~Steady

InScreen(p) == p # None /\ p[1] \in 0 .. (width - 1) /\ p[2] \in 0 .. (height - 1)

(* move_real_cursor() sends nothing when the cache has the position it is  *)
(* asked for. Between characters the cache is right, except after a        *)
(* resize, after "delete characters", after a byte that is not a           *)
(* character, after text at the row above the first (from "go to row 0"),  *)
(* and where the keyboard was drawn while the screen thread was past its   *)
(* lock but had not yet noted the new position.                            *)
CursorTrue ==
    cursor # Lost /\ lock = None /\ scr.pc = "read"
    /\ InScreen(real)
    => cursor = real

(* When the shell has ended so does LizardShell, unless the shell ended    *)
(* inside an escape sequence: its rest is read under the lock that main()  *)
(* needs, from a terminal that never reports the end.                      *)
EndsUnlessMidSequence ==
    ~alive ~> ended \/ scr.pc = "sequence"

=============================================================================
