------------------------------ MODULE Console -------------------------------
(***************************************************************************)
(* The two ends of the console: the keyboard of devices/kbd.c, which turns *)
(* scancodes into characters, and the text screen of devices/vga.c.        *)
(* Characters are ASCII codes.                                             *)
(***************************************************************************)
EXTENDS Integers, Sequences

CONSTANTS
  Codes,             \* scancodes of the ordinary keys that are pressed
  COL_CNT, ROW_CNT,
  TabStop,
  StartCursors,      \* where the BIOS may have left the cursor
  MaxText            \* characters written to the screen

VARIABLES
  kbd,      \* caps_lock and the states of the shift keys
  held,     \* ghost: the shift keys that are really down
  typed,    \* the last ordinary key pressed and the character it has put into the input buffer
  screen,   \* cx, cy, fb
  cursor,   \* the hardware's cursor, which find_cursor reads and move_cursor sets
  beeping,  \* vga_putc is in speaker_beep
  text      \* ghost: the characters written since the screen was blank, and where

kvars == <<kbd, held, typed>>
svars == <<screen, cursor, beeping, text>>

-----------------------------------------------------------------------------
Map(first, chars) == [first_scancode |-> first, chars |-> chars]

invariant_keymap ==
  <<Map(1, <<27>>), Map(14, <<8>>), Map(15, <<9, 81, 87, 69, 82, 84, 89, 85, 73, 79, 80>>), Map(28, <<13>>),
    Map(30, <<65, 83, 68, 70, 71, 72, 74, 75, 76>>), Map(44, <<90, 88, 67, 86, 66, 78, 77>>),
    Map(55, <<42>>), Map(57, <<32>>), Map(83, <<127>>)>>
unshifted_keymap ==
  <<Map(2, <<49, 50, 51, 52, 53, 54, 55, 56, 57, 48, 45, 61>>), Map(26, <<91, 93>>),
    Map(39, <<59, 39, 96>>), Map(43, <<92>>), Map(51, <<44, 46, 47>>)>>
shifted_keymap ==
  <<Map(2, <<33, 64, 35, 36, 37, 94, 38, 42, 40, 41, 95, 43>>), Map(26, <<123, 125>>),
    Map(39, <<58, 34, 126>>), Map(43, <<124>>), Map(51, <<60, 62, 63>>)>>
shift_keys ==
  [left_shift |-> 42, right_shift |-> 54, left_alt |-> 56, right_alt |-> 57400,
   left_ctrl |-> 29, right_ctrl |-> 57373]
CapsLock == 58
Delete == 127
None == 0

map_key(k, code) ==
  LET rows == {i \in DOMAIN k : /\ code >= k[i].first_scancode
                                /\ code < k[i].first_scancode + Len(k[i].chars)}
      row == k[CHOOSE i \in rows : \A j \in rows : i <= j]
  IN IF rows = {} THEN None ELSE row.chars[code - row.first_scancode + 1]

(* The character of a key; code is without the bit for release. *)
Mapped(code, shift) ==
  LET c == map_key(invariant_keymap, code)
  IN IF c # None THEN c ELSE map_key(IF shift THEN shifted_keymap ELSE unshifted_keymap, code)

tolower(c) == IF c \in 65 .. 90 THEN c + 32 ELSE c

(* What is put into the buffer for it. *)
Character(c, shift, ctrl, alt, caps_lock) ==
  LET plain == IF ctrl /\ c >= 64 /\ c < 96 THEN c - 64
               ELSE IF shift = caps_lock THEN tolower(c) ELSE c
  IN IF alt THEN plain + 128 ELSE plain

NoKey == [code |-> None, c |-> None]
Released == [kbd |-> [k \in DOMAIN shift_keys \cup {"caps_lock"} |-> FALSE], typed |-> NoKey]

(* bytes are what inb reads; full is input_full ().  After shutdown_reboot  *)
(* the machine starts anew.                                                 *)
keyboard_interrupt(bytes, full) ==
  LET shift == kbd.left_shift \/ kbd.right_shift
      alt == kbd.left_alt \/ kbd.right_alt
      ctrl == kbd.left_ctrl \/ kbd.right_ctrl
      raw == IF bytes[1] = 224 THEN 224 * 256 + bytes[2] ELSE bytes[1]
      release == (raw \div 128) % 2 = 1
      code == IF release THEN raw - 128 ELSE raw
      c == Mapped(code, shift)
      new == IF code = CapsLock
             THEN [kbd |-> [kbd EXCEPT !.caps_lock = IF release THEN @ ELSE ~@], typed |-> NoKey]
             ELSE IF c # None
             THEN IF ~release /\ c = Delete /\ ctrl /\ alt THEN Released
                  ELSE [kbd |-> kbd,
                        typed |-> IF release \/ full THEN NoKey
                                  ELSE [code |-> code, c |-> Character(c, shift, ctrl, alt, kbd.caps_lock)]]
             ELSE [kbd |-> [k \in DOMAIN kbd |-> IF k # "caps_lock" /\ shift_keys[k] = code THEN ~release
                                                 ELSE kbd[k]],
                   typed |-> NoKey]
  IN kbd' = new.kbd /\ typed' = new.typed

-----------------------------------------------------------------------------
(* The bytes a keyboard sends for a key.  A key that stays down repeats.    *)
Sends(code, release) ==
  LET low == (code % 256) + (IF release THEN 128 ELSE 0)
  IN IF code >= 256 THEN <<224, low>> ELSE <<low>>

(* A machine that starts anew is given keys that are up. *)
Press(code) ==
  /\ \E full \in BOOLEAN : keyboard_interrupt(Sends(code, FALSE), full)
  /\ held' = IF Mapped(code, FALSE) = Delete /\ kbd' = Released.kbd THEN {}
             ELSE held \cup {k \in DOMAIN shift_keys : shift_keys[k] = code}
Release(code) ==
  /\ keyboard_interrupt(Sends(code, TRUE), FALSE)
  /\ held' = held \ {k \in DOMAIN shift_keys : shift_keys[k] = code}

Keys8042 == Codes \cup {CapsLock} \cup {shift_keys[k] : k \in DOMAIN shift_keys}

KeyboardSteps == (\E code \in Keys8042 : Press(code) \/ Release(code)) /\ UNCHANGED svars

KeyboardInit == kbd = Released.kbd /\ typed = NoKey /\ held = {}

(* The symbols of the keys that bear two. *)
Pairs ==
  {<<49, 33>>, <<50, 64>>, <<51, 35>>, <<52, 36>>, <<53, 37>>, <<54, 94>>, <<55, 38>>, <<56, 42>>,
   <<57, 40>>, <<48, 41>>, <<45, 95>>, <<61, 43>>, <<91, 123>>, <<93, 125>>, <<59, 58>>, <<39, 34>>,
   <<96, 126>>, <<92, 124>>, <<44, 60>>, <<46, 62>>, <<47, 63>>}

Typeable == {Character(Mapped(code, s), s, FALSE, FALSE, FALSE) : code \in 1 .. 83, s \in BOOLEAN}

(* The kernel's view of the shift keys is the real one after every sequence *)
(* of presses, repeats and releases, so that no row of a keymap hides one;  *)
(* a key's character follows from the keys that are down: the upper symbol  *)
(* of its pair with Shift, a capital letter with one of Shift and Caps Lock *)
(* (which leaves other keys alone), a control character with Ctrl whatever  *)
(* Shift is, the high bit with Alt; and every printable character has keys. *)
KeysRight ==
  LET shift == held \cap {"left_shift", "right_shift"} # {}
      ctrl == held \cap {"left_ctrl", "right_ctrl"} # {}
      alt == held \cap {"left_alt", "right_alt"} # {}
      c == typed.c % 128
      lower == Mapped(typed.code, FALSE)
      symbol == IF shift /\ \E p \in Pairs : p[1] = lower
                THEN (CHOOSE p \in Pairs : p[1] = lower)[2] ELSE lower
      letter == lower \in 65 .. 90
  IN /\ \A k \in DOMAIN shift_keys : kbd[k] = (k \in held)
     /\ typed # NoKey =>
          /\ (typed.c >= 128) = alt
          /\ c = IF letter THEN (IF ctrl THEN lower - 64
                                 ELSE IF shift # kbd.caps_lock THEN lower ELSE lower + 32)
                 ELSE IF ctrl /\ symbol \in 64 .. 95 THEN symbol - 64 ELSE symbol
     /\ 32 .. 126 \subseteq Typeable

-----------------------------------------------------------------------------
Rows == 0 .. ROW_CNT - 1
Cols == 0 .. COL_CNT - 1
SPACE == 32
Row == [x \in Cols |-> SPACE]

BS == 8
TAB == 9
LF == 10
FF == 12
CR == 13

(* Mutant: the row that is scrolled in is not cleared. *)
newline_stale(s) ==
  IF s.cy + 1 < ROW_CNT THEN [s EXCEPT !.cx = 0, !.cy = @ + 1]
  ELSE [cx |-> 0, cy |-> ROW_CNT - 1,
        fb |-> [y \in Rows |-> s.fb[IF y = ROW_CNT - 1 THEN y ELSE y + 1]]]

newline(s) ==
  IF s.cy + 1 < ROW_CNT THEN [s EXCEPT !.cx = 0, !.cy = @ + 1]
  ELSE [cx |-> 0, cy |-> ROW_CNT - 1,
        fb |-> [y \in Rows |-> IF y = ROW_CNT - 1 THEN Row ELSE s.fb[y + 1]]]

cls == [cx |-> 0, cy |-> 0, fb |-> [y \in Rows |-> Row]]

(* The switch of vga_putc, except for the bell. *)
Put(s, c) ==
  CASE c = LF -> newline(s)
    [] c = FF -> cls
    [] c = BS -> IF s.cx > 0 THEN [s EXCEPT !.cx = @ - 1] ELSE s
    [] c = CR -> [s EXCEPT !.cx = 0]
    [] c = TAB -> LET x == ((s.cx \div TabStop) + 1) * TabStop
                  IN IF x >= COL_CNT THEN newline([s EXCEPT !.cx = x]) ELSE [s EXCEPT !.cx = x]
    [] OTHER -> LET shown == [s EXCEPT !.fb[s.cy][s.cx] = c, !.cx = @ + 1]
                IN IF shown.cx >= COL_CNT THEN newline(shown) ELSE shown

move_cursor(s) == s.cx + COL_CNT * s.cy

(* find_cursor, in the first call. *)
find_cursor(cp) == [cx |-> cp % COL_CNT, cy |-> cp \div COL_CNT, fb |-> [y \in Rows |-> Row]]

(* Interrupts are off, and on again while the speaker beeps: then a handler *)
(* may write.                                                               *)
vga_putc(c) ==
  /\ Len(text.chars) < MaxText
  /\ screen' = Put(screen, c)
  /\ cursor' = move_cursor(screen')
  /\ text' = IF c = FF THEN [start |-> 0, chars |-> <<>>] ELSE [text EXCEPT !.chars = Append(@, c)]
  /\ UNCHANGED beeping
Bell == ~beeping /\ beeping' = TRUE /\ UNCHANGED <<screen, cursor, text>>
BellDone == beeping /\ beeping' = FALSE /\ cursor' = move_cursor(screen) /\ UNCHANGED <<screen, text>>

ScreenSteps ==
  /\ (\E c \in {97, LF, FF, BS, CR, TAB} : vga_putc(c)) \/ Bell \/ BellDone
  /\ UNCHANGED kvars

ScreenInit ==
  /\ cursor \in StartCursors
  /\ screen = find_cursor(cursor)
  /\ beeping = FALSE
  /\ text = [start |-> cursor, chars |-> <<>>]

(* Reference: the text on paper that has as many rows as it takes. *)
Feed(p) == [p EXCEPT !.x = 0, !.y = @ + 1]
RECURSIVE Paper(_)
Paper(t) ==
  IF t.chars = <<>> THEN [x |-> t.start % COL_CNT, y |-> t.start \div COL_CNT, ink |-> [at \in {} |-> SPACE]]
  ELSE LET p == Paper([t EXCEPT !.chars = SubSeq(@, 1, Len(@) - 1)])
           c == t.chars[Len(t.chars)]
           Move(x) == IF x = COL_CNT THEN Feed(p) ELSE [p EXCEPT !.x = x]
           at == <<p.x, p.y>>
       IN CASE c = LF -> Feed(p)
            [] c = CR -> Move(0)
            [] c = BS -> Move(IF p.x = 0 THEN 0 ELSE p.x - 1)
            [] c = TAB -> Move(CHOOSE x \in p.x + 1 .. p.x + TabStop : x % TabStop = 0)
            [] OTHER -> [Move(p.x + 1) EXCEPT !.ink = [q \in DOMAIN @ \cup {at} |-> IF q = at THEN c ELSE @[q]]]

(* The screen shows the last ROW_CNT rows of all that has been written, as  *)
(* on endless paper, with nothing stale in the rows scrolled in, and both   *)
(* the kernel's and the hardware's cursor are where the paper's is, also    *)
(* when a handler writes while the bell of another caller sounds.           *)
ScreenRight ==
  LET p == Paper(text)
      top == IF p.y < ROW_CNT THEN 0 ELSE p.y - ROW_CNT + 1
  IN /\ screen.cx = p.x /\ screen.cy = p.y - top
     /\ cursor = p.x + COL_CNT * (p.y - top)
     /\ \A y \in Rows, x \in Cols :
          screen.fb[y][x] = IF <<x, top + y>> \in DOMAIN p.ink THEN p.ink[<<x, top + y>>] ELSE SPACE

(* Keyboard and screen work as KeysRight and ScreenRight say. *)
ConsoleRight == KeysRight /\ ScreenRight
=============================================================================
