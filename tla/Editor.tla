------------------------------- MODULE Editor -------------------------------
(***************************************************************************)
(* The text editor (src/src/editor.c): a buffer of lines with a cursor, an *)
(* undo ring of serialised snapshots and a yank register, driven by the    *)
(* keys of the windowed modal frontend (editor_vim_key, after its decoder) *)
(* or of the classic one (editor_run).  A character is a letter, a dot or  *)
(* a blank; a ':' or '/' line is chosen whole.  Rendering, status messages *)
(* and the decoder of escape sequences are left out.                       *)
(***************************************************************************)
EXTENDS Integers, Sequences, FiniteSets
LOCAL INSTANCE SequencesExt

CONSTANTS ED_MAX_LINES, ED_MAX_COLS, ED_UNDO_MAX, ED_UNDO_CAP, ED_YANK_CAP,
          TermRows    \* term_rows

ASSUME EditorAssumption ==
  /\ ED_MAX_LINES \in Nat \ {0} /\ ED_MAX_COLS \in Nat \ {0} /\ ED_UNDO_MAX \in Nat \ {0}
  /\ ED_UNDO_CAP \in Nat /\ ED_YANK_CAP \in Nat /\ TermRows \in Nat /\ TermRows > 1

VARIABLES ed,         \* struct editor; cx and cy count from 0
          stored,     \* the bytes of the file
          front,      \* the frontend: "vim" or "classic"
          armed,      \* quit_armed
          outcome,    \* EDITOR_CONTINUE, EDITOR_QUIT or EDITOR_RUN
          hist,       \* the texts before each group of changes, and the text now
          lost,       \* snapshots lost: "none", the "oldest", or "any" not taken
          doubt       \* since the last save: dd or cc, or a save that failed

editorVars == <<ed, stored, front, armed, outcome, hist, lost, doubt>>

TextKeys == {"a", ".", " "}
ed_isspace(c) == c = " "
\* The class that ed_isword and ed_isspace give a character.
Class(c) == IF ed_isspace(c) THEN "blank" ELSE IF c = "a" THEN "word" ELSE "other"

----------------------------------------------------------------------------
(* The buffer.                                                             *)

Lesser(a, b) == IF a < b THEN a ELSE b
Least(S) == CHOOSE i \in S : \A j \in S : i <= j

serialize(lines) == FlattenSeq([i \in DOMAIN lines |-> Append(lines[i], "\n")])

\* The lines of a text: no carriage returns, long lines clipped, lines past the last
\* dropped; an unfinished last line counts if it is not empty, or the only one.
buffer_from_text(p) ==
  LET ends == {j \in DOMAIN p : p[j] = "\n"}
      End(i) == IF i = 0 THEN 0 ELSE IF i > Cardinality(ends) THEN Len(p) + 1
                ELSE CHOOSE j \in ends : Cardinality({x \in ends : x <= j}) = i
      Row(i) == LET s == SelectSeq(SubSeq(p, End(i - 1) + 1, End(i) - 1), LAMBDA c : c # "\r")
                IN  SubSeq(s, 1, Lesser(Len(s), ED_MAX_COLS))
      n == Cardinality(ends)
  IN  [i \in 1 .. Lesser(ED_MAX_LINES, IF n = 0 \/ Row(n + 1) # <<>> THEN n + 1 ELSE n) |-> Row(i)]

LineAt(e) == e.lines[e.cy + 1]
LenAt(e) == Len(LineAt(e))
Under(e) == LineAt(e)[e.cx + 1]
clamp_cx_Not(e) == e
clamp_cx(e) == [e EXCEPT !.cx = Lesser(@, LenAt(e))]

insert_char(e, ch) ==
  IF LenAt(e) >= ED_MAX_COLS THEN e
  ELSE [e EXCEPT !.lines[e.cy + 1] = InsertAt(@, e.cx + 1, ch), !.cx = @ + 1, !.dirty = TRUE]

insert_newline(e) ==
  IF Len(e.lines) >= ED_MAX_LINES THEN e
  ELSE [e EXCEPT !.lines = SubSeq(@, 1, e.cy)
                             \o <<SubSeq(LineAt(e), 1, e.cx), SubSeq(LineAt(e), e.cx + 1, LenAt(e))>>
                             \o SubSeq(@, e.cy + 2, Len(@)),
                 !.cy = @ + 1, !.cx = 0, !.dirty = TRUE]

\* join_into and delete_line: the line after row joins it, as far as it fits.
JoinNext(e, row) ==
  LET both == e.lines[row + 1] \o e.lines[row + 2]
  IN  [e EXCEPT !.lines = RemoveAt([@ EXCEPT ![row + 1] = SubSeq(both, 1, Lesser(Len(both), ED_MAX_COLS))], row + 2),
                !.dirty = TRUE]

do_backspace(e) ==
  IF e.cx > 0 THEN [e EXCEPT !.lines[e.cy + 1] = RemoveAt(@, e.cx), !.cx = @ - 1, !.dirty = TRUE]
  ELSE IF e.cy > 0 THEN [JoinNext(e, e.cy - 1) EXCEPT !.cy = @ - 1, !.cx = Len(e.lines[e.cy])]
  ELSE e

\* del_char deletes under the cursor; do_delete joins the next line at the end.
del_char(e) ==
  IF e.cx >= LenAt(e) THEN e ELSE [e EXCEPT !.lines[e.cy + 1] = RemoveAt(@, e.cx + 1), !.dirty = TRUE]
do_delete(e) ==
  IF e.cx < LenAt(e) THEN del_char(e)
  ELSE IF e.cy + 1 < Len(e.lines) THEN JoinNext(e, e.cy)
  ELSE e

----------------------------------------------------------------------------
(* Undo, yank and paste.                                                   *)

push_undo_NoWrap(e) ==
  LET text == serialize(e.lines)
  IN  IF Len(text) > ED_UNDO_CAP THEN e
      ELSE [e EXCEPT !.undo[e.head] = [text |-> text, cx |-> e.cx, cy |-> e.cy],
                     !.head = (@ + 1) % ED_UNDO_MAX, !.held = @ + 1]

\* A snapshot in the next slot of the ring, unless the text is too large for one.
push_undo(e) ==
  LET text == serialize(e.lines)
  IN  IF Len(text) > ED_UNDO_CAP THEN e
      ELSE [e EXCEPT !.undo[e.head] = [text |-> text, cx |-> e.cx, cy |-> e.cy],
                     !.head = (@ + 1) % ED_UNDO_MAX, !.held = Lesser(@ + 1, ED_UNDO_MAX)]

do_undo_Clean(e) ==
  LET slot == (e.head + ED_UNDO_MAX - 1) % ED_UNDO_MAX
      text == buffer_from_text(e.undo[slot].text)
  IN  IF e.held = 0 THEN e
      ELSE clamp_cx([e EXCEPT !.lines = text, !.head = slot, !.held = @ - 1,
                              !.cx = e.undo[slot].cx, !.cy = Lesser(e.undo[slot].cy, Len(text) - 1)])

do_undo(e) ==
  LET slot == (e.head + ED_UNDO_MAX - 1) % ED_UNDO_MAX
      text == buffer_from_text(e.undo[slot].text)
  IN  IF e.held = 0 THEN e
      ELSE clamp_cx([e EXCEPT !.lines = text, !.head = slot, !.held = @ - 1, !.dirty = TRUE,
                              !.cx = e.undo[slot].cx, !.cy = Lesser(e.undo[slot].cy, Len(text) - 1)])

\* As many of the lines as fit in the register.
yank_lines(e, count) ==
  LET n == Lesser(count, Len(e.lines) - e.cy)
      fits == {k \in 0 .. n : Len(serialize(SubSeq(e.lines, e.cy + 1, e.cy + k))) <= ED_YANK_CAP}
  IN  [e EXCEPT !.yank = SubSeq(e.lines, e.cy + 1, e.cy + (CHOOSE k \in fits : \A j \in fits : j <= k))]

\* insert_line_at, line by line until the buffer is full; the cursor goes to the first
\* of them even if there is none.
paste_lines(e, at) ==
  LET k == Lesser(Len(e.yank), ED_MAX_LINES - Len(e.lines))
  IN  IF e.yank = <<>> THEN e
      ELSE [e EXCEPT !.lines = SubSeq(@, 1, at) \o SubSeq(e.yank, 1, k) \o SubSeq(@, at + 1, Len(@)),
                     !.cy = at, !.cx = 0, !.dirty = TRUE]

\* dd: the register gets the lines from the cursor on.  As many lines go as counted,
\* but for one: where the lines from the cursor on are fewer, those before it go too.
\* The buffer is not marked as changed.
DeleteLines(e, count) ==
  LET u == yank_lines(push_undo(e), count)
      len == Len(e.lines)
      n == Lesser(count, len - 1)
      rest == IF n <= len - e.cy THEN SubSeq(e.lines, 1, e.cy) \o SubSeq(e.lines, e.cy + n + 1, len)
                                 ELSE SubSeq(e.lines, 1, len - n)
  IN  IF len <= 1 THEN [u EXCEPT !.lines = << <<>> >>, !.cx = 0]
      ELSE clamp_cx([u EXCEPT !.lines = rest, !.cy = Lesser(@, Len(rest) - 1)])

\* What the classes of characters from column c on say: where this one ends.
RunEnd(line, c) == Least({i \in c .. Len(line) : i = Len(line) \/ Class(line[i + 1]) # Class(line[c + 1])})

\* dw: the run under the cursor, and the blanks after it.
del_word(e) ==
  LET line == LineAt(e)
      run == IF e.cx = Len(line) THEN e.cx ELSE RunEnd(line, e.cx)
      end == IF run = Len(line) \/ ~ed_isspace(line[run + 1]) THEN run ELSE RunEnd(line, run)
  IN  [e EXCEPT !.lines[e.cy + 1] = SubSeq(@, 1, e.cx) \o SubSeq(@, end + 1, Len(@)), !.dirty = TRUE]

\* J: the next line without its leading blanks, after a blank, as far as it fits.
vim_join(e) ==
  LET next == e.lines[e.cy + 2]
      s == IF next # <<>> /\ ed_isspace(next[1]) THEN RunEnd(next, 0) ELSE 0
      more == (IF LenAt(e) > 0 /\ s < Len(next) THEN <<" ">> ELSE <<>>) \o SubSeq(next, s + 1, Len(next))
      both == LineAt(e) \o more
  IN  IF e.cy + 1 >= Len(e.lines) THEN e
      ELSE [e EXCEPT !.lines = RemoveAt([@ EXCEPT ![e.cy + 1] = SubSeq(both, 1, Lesser(Len(both), ED_MAX_COLS))],
                                        e.cy + 2),
                     !.dirty = TRUE]

----------------------------------------------------------------------------
(* Motions.                                                                *)

Go(e, row) == clamp_cx([e EXCEPT !.cy = row])
GoDown(e, n) == Go(e, Lesser(e.cy + n, Len(e.lines) - 1))
GoUp(e, n) == Go(e, IF e.cy > n THEN e.cy - n ELSE 0)

\* Forward over blanks and the ends of lines, to a character or the end of the text.
RECURSIVE SkipBlanks(_)
SkipBlanks(e) ==
  IF e.cx < LenAt(e)
  THEN IF ed_isspace(Under(e)) THEN SkipBlanks([e EXCEPT !.cx = @ + 1]) ELSE e
  ELSE IF e.cy + 1 < Len(e.lines) THEN SkipBlanks([e EXCEPT !.cy = @ + 1, !.cx = 0]) ELSE e

vim_w(e) ==
  SkipBlanks(IF e.cx < LenAt(e) /\ ~ed_isspace(Under(e)) THEN [e EXCEPT !.cx = RunEnd(LineAt(e), @)] ELSE e)

vim_e(e) ==
  LET next == IF e.cx + 1 < LenAt(e) THEN [e EXCEPT !.cx = @ + 1]
              ELSE IF e.cy + 1 < Len(e.lines) THEN [e EXCEPT !.cy = @ + 1, !.cx = 0] ELSE e
      at == SkipBlanks(next)
  IN  IF at.cx = LenAt(at) THEN at ELSE [at EXCEPT !.cx = RunEnd(LineAt(at), @) - 1]

\* Backward by one, to a character of the line, and to the start of its run.
vim_b(e) ==
  LET prev == IF e.cx > 0 THEN [e EXCEPT !.cx = @ - 1] ELSE [e EXCEPT !.cy = @ - 1, !.cx = Len(e.lines[e.cy])]
      line == LineAt(prev)
      solid == {i \in 0 .. prev.cx : i < Len(line) /\ ~ed_isspace(line[i + 1])}
      last == CHOOSE i \in solid : \A j \in solid : j <= i
  IN  IF e.cx = 0 /\ e.cy = 0 THEN e
      ELSE [prev EXCEPT !.cx = IF solid = {} THEN 0
                               ELSE Least({i \in 0 .. last : RunEnd(line, i) = RunEnd(line, last)})]

\* The first match in the next line that has one, in this line last.
do_search(e, forward) ==
  LET n == Len(e.lines)
      Row(step) == IF forward THEN (e.cy + step) % n ELSE (e.cy + n - step) % n
      At(row) == {c \in 0 .. Len(e.lines[row + 1]) - Len(e.search) :
                    SubSeq(e.lines[row + 1], c + 1, c + Len(e.search)) = e.search}
      steps == {s \in 1 .. n : At(Row(s)) # {}}
  IN  IF e.search = <<>> \/ steps = {} THEN e
      ELSE [e EXCEPT !.cy = Row(Least(steps)), !.cx = Least(At(Row(Least(steps))))]

Repeat(Op(_), e, n) ==
  LET after[i \in 0 .. n] == IF i = 0 THEN e ELSE Op(after[i - 1]) IN after[n]

HalfPage == (TermRows - 1) \div 2

Motions == {"h", "l", "j", "k", "0", "^", "$", "w", "b", "e", "G", "pgup", "pgdn", "n", "N"}
Motion(e, k, cnt) ==
  CASE k = "h" -> [e EXCEPT !.cx = IF @ > cnt THEN @ - cnt ELSE 0]
    [] k = "l" -> [e EXCEPT !.cx = Lesser(@ + cnt, LenAt(e))]
    [] k = "j" -> GoDown(e, cnt)
    [] k = "k" -> GoUp(e, cnt)
    [] k = "0" -> [e EXCEPT !.cx = 0]
    [] k = "^" -> [e EXCEPT !.cx = IF LenAt(e) > 0 /\ ed_isspace(LineAt(e)[1]) THEN RunEnd(LineAt(e), 0) ELSE 0]
    [] k = "$" -> [e EXCEPT !.cx = LenAt(e)]
    [] k = "w" -> Repeat(vim_w, e, cnt)
    [] k = "b" -> Repeat(vim_b, e, cnt)
    [] k = "e" -> Repeat(vim_e, e, cnt)
    [] k = "G" -> Go(e, IF cnt > 1 THEN Lesser(cnt, Len(e.lines)) - 1 ELSE Len(e.lines) - 1)
    [] k = "pgup" -> GoUp(e, HalfPage)
    [] k = "pgdn" -> GoDown(e, HalfPage)
    [] k = "n" -> do_search(e, TRUE)
    [] k = "N" -> do_search(e, FALSE)

----------------------------------------------------------------------------
(* The modal frontend.                                                     *)

Insert(e) == [e EXCEPT !.vmode = "insert"]
\* The line ends at the cursor.
Cut(e) == [e EXCEPT !.lines[e.cy + 1] = SubSeq(@, 1, e.cx), !.dirty = TRUE]
At(e, col) == [e EXCEPT !.cx = col]

\* The commands of handle_normal that change the text; all of them save a snapshot.
Changes == {"i", "a", "I", "A", "o", "O", "x", "D", "C", "J", "p", "P"}
Change(e, k, cnt) ==
  LET u == push_undo(e)
  IN  CASE k = "i" -> Insert(u)
        [] k = "a" -> Insert(At(u, Lesser(u.cx + 1, LenAt(u))))
        [] k = "I" -> Insert(At(u, 0))
        [] k = "A" -> Insert(At(u, LenAt(u)))
        [] k = "o" -> Insert(insert_newline(At(u, LenAt(u))))
        [] k = "O" -> LET v == insert_newline(At(u, 0)) IN Insert([v EXCEPT !.cy = IF @ > 0 THEN @ - 1 ELSE 0])
        [] k = "x" -> clamp_cx(Repeat(del_char, u, cnt))
        [] k = "D" -> Cut(u)
        [] k = "C" -> Insert(Cut(u))
        [] k = "J" -> vim_join(u)
        [] k = "p" -> paste_lines(u, e.cy + 1)
        [] k = "P" -> paste_lines(u, e.cy)

\* The second key of d, c, g, r and y.  Neither dd nor cc marks the buffer as changed.
Operators == {"d", "c", "g", "r", "y"}
Operator_NoUndo(e, op, k, cnt) ==
  LET u == e
  IN  CASE op = "r" /\ k \in TextKeys /\ e.cx < LenAt(e) -> [u EXCEPT !.lines[e.cy + 1][e.cx + 1] = k, !.dirty = TRUE]
        [] op = "g" /\ k = "g" -> Go(e, 0)
        [] op = "d" /\ k = "d" -> DeleteLines(e, cnt)
        [] op = "d" /\ k = "w" -> del_word(u)
        [] op = "c" /\ k = "c" -> Insert([u EXCEPT !.lines[e.cy + 1] = <<>>, !.cx = 0])
        [] op = "c" /\ k = "w" -> Insert(del_word(u))
        [] op = "y" /\ k = "y" -> yank_lines(e, cnt)
        [] OTHER -> e

Operator(e, op, k, cnt) ==
  LET u == push_undo(e)
  IN  CASE op = "r" /\ k \in TextKeys /\ e.cx < LenAt(e) -> [u EXCEPT !.lines[e.cy + 1][e.cx + 1] = k, !.dirty = TRUE]
        [] op = "g" /\ k = "g" -> Go(e, 0)
        [] op = "d" /\ k = "d" -> DeleteLines(e, cnt)
        [] op = "d" /\ k = "w" -> del_word(u)
        [] op = "c" /\ k = "c" -> Insert([u EXCEPT !.lines[e.cy + 1] = <<>>, !.cx = 0])
        [] op = "c" /\ k = "w" -> Insert(del_word(u))
        [] op = "y" /\ k = "y" -> yank_lines(e, cnt)
        [] OTHER -> e

handle_normal(e, k) ==
  LET cnt == IF e.vcount > 0 THEN e.vcount ELSE 1
      f == [e EXCEPT !.vcount = 0, !.vpending = "none"]
  IN  CASE k = "2" \/ (k = "0" /\ e.vcount > 0) -> [e EXCEPT !.vcount = @ * 10 + IF k = "2" THEN 2 ELSE 0]
        [] e.vpending # "none" -> Operator(f, e.vpending, k, cnt)
        [] k \in Motions -> Motion(f, k, cnt)
        [] k \in Changes -> Change(f, k, cnt)
        [] k \in Operators -> [f EXCEPT !.vpending = k, !.vcount = IF cnt > 1 THEN cnt ELSE 0]
        [] k = "u" -> do_undo(f)
        [] k = ":" -> [f EXCEPT !.vmode = "command"]
        [] k = "/" -> [f EXCEPT !.vmode = "search"]
        [] OTHER -> f

handle_insert(e, k) ==
  CASE k = "enter" -> insert_newline(e)
    [] k = "backspace" -> do_backspace(e)
    [] k = "del" -> do_delete(e)
    [] k = "left" -> At(e, IF e.cx > 0 THEN e.cx - 1 ELSE 0)
    [] k = "right" -> At(e, Lesser(e.cx + 1, LenAt(e)))
    [] k = "up" -> GoUp(e, 1)
    [] k = "down" -> GoDown(e, 1)
    [] k = "home" -> At(e, 0)
    [] k = "end" -> At(e, LenAt(e))
    [] k \in TextKeys -> insert_char(e, k)
    [] OTHER -> e

vim_escape(e) ==
  [e EXCEPT !.cx = IF e.vmode = "insert" /\ @ > 0 THEN @ - 1 ELSE @,
            !.vmode = "normal", !.vpending = "none", !.vcount = 0]

vim_key_logical(e, k) ==
  CASE k = "esc" -> vim_escape(e)
    [] k # "esc" /\ e.vmode = "insert" -> handle_insert(e, k)
    [] k # "esc" /\ e.vmode = "normal" -> handle_normal(e, k)
    [] OTHER -> e

----------------------------------------------------------------------------
(* The editor as a whole.                                                  *)

NoSnapshot == [text |-> <<>>, cx |-> 0, cy |-> 0]

\* editor_open; a missing file is an empty one.
EditorInit(file, f) ==
  /\ ed = [lines |-> buffer_from_text(file), cx |-> 0, cy |-> 0, dirty |-> FALSE,
           vmode |-> "normal", vcount |-> 0, vpending |-> "none", search |-> <<>>, yank |-> <<>>,
           undo |-> [i \in 0 .. ED_UNDO_MAX - 1 |-> NoSnapshot], head |-> 0, held |-> 0]
  /\ stored = file /\ front = f /\ armed = FALSE /\ outcome = "continue"
  /\ hist = <<buffer_from_text(file)>> /\ lost = "none" /\ doubt = FALSE

\* With the cursor outside the buffer the code reads past its arrays: not followed.
InBuffer == ed.cy < Len(ed.lines)
Editing(f) == outcome = "continue" /\ front = f /\ InBuffer
\* A key in normal mode that is not the second of two.
Fresh == ed.vmode = "normal" /\ ed.vpending = "none"

Last2Equal(h) == Len(h) > 1 /\ h[Len(h) - 1] = h[Len(h)]

\* The history after key k: a group of changes is a command, or an insertion up to its esc.
Remember(e, k) ==
  /\ hist' = IF Fresh /\ k = "u" THEN IF e.lines = ed.lines \/ Len(hist) = 1 THEN hist ELSE Front(hist)
             ELSE IF ed.vmode = "insert"
             THEN LET h == [hist EXCEPT ![Len(hist)] = e.lines]
                  IN  IF k = "esc" /\ Last2Equal(h) THEN Front(h) ELSE h
             ELSE IF e.vmode = "insert" \/ e.lines # ed.lines THEN Append(hist, e.lines)
             ELSE hist
  /\ lost' = IF Len(serialize(ed.lines)) > ED_UNDO_CAP /\ (e.lines # ed.lines \/ e.vmode = "insert") THEN "any"
             ELSE IF lost = "none" /\ ed.held = ED_UNDO_MAX /\ e.head # ed.head /\ k # "u" THEN "oldest"
             ELSE lost

\* A key that neither saves nor ends the editor.
Press(k) ==
  /\ Editing("vim")
  /\ ed' = vim_key_logical(ed, k)
  /\ Remember(ed', k)
  /\ doubt' = (doubt \/ (ed.vmode = "normal" /\ ed.vpending = k /\ k \in {"d", "c"}))
  /\ UNCHANGED <<stored, front, armed, outcome>>

\* Enter at the end of a '/' line.
Search(pattern) ==
  /\ Editing("vim") /\ ed.vmode = "search"
  /\ ed' = do_search([ed EXCEPT !.vmode = "normal", !.search = pattern], TRUE)
  /\ UNCHANGED <<stored, front, armed, outcome, hist, lost, doubt>>

\* ext2_write_file (see FileTree) fails with the file as it was, or with part of it.
Broken == <<"?">>
save_file(ok) ==
  IF ok THEN stored' = serialize(ed.lines) /\ doubt' = FALSE
        ELSE stored' \in {stored, Broken} /\ doubt' = TRUE
Saved(e, ok) == IF ok THEN [e EXCEPT !.dirty = FALSE] ELSE e

\* Ctrl-S, and Ctrl-X which runs the file.
SaveKey(k, ok) ==
  /\ Editing(front) /\ (front = "vim" => Fresh)
  /\ save_file(ok)
  /\ ed' = Saved([ed EXCEPT !.vcount = 0], ok)
  /\ outcome' = IF k = "^X" /\ ok THEN "run" ELSE "continue"
  /\ armed' = FALSE
  /\ UNCHANGED <<front, hist, lost>>

\* Enter at the end of a ':' line.  A line number moves the cursor.
run_command(c, ok) ==
  LET w == c \in {"w", "wq", "run"}
      e == [ed EXCEPT !.vmode = "normal"]
      after == IF w THEN Saved(e, ok) ELSE e
  IN  /\ Editing("vim") /\ ed.vmode = "command"
      /\ ed' = IF c = "2" /\ Len(ed.lines) >= 2 THEN Go(e, 1) ELSE after
      /\ IF w THEN save_file(ok) ELSE ok /\ UNCHANGED <<stored, doubt>>
      /\ outcome' = CASE c = "run" /\ ~after.dirty -> "run"
                      [] c \in {"wq", "q!"} \/ (c = "q" /\ ~ed.dirty) -> "quit"
                      [] OTHER -> "continue"
      /\ UNCHANGED <<front, armed, hist, lost>>

\* Ctrl-Q: with unsaved changes the modal frontend refuses, the classic one asks once.
Quit ==
  /\ Editing(front) /\ (front = "vim" => Fresh)
  /\ outcome' = IF ed.dirty /\ ~armed THEN "continue" ELSE "quit"
  /\ armed' = (front = "classic")
  /\ ed' = [ed EXCEPT !.vcount = 0]
  /\ UNCHANGED <<stored, front, hist, lost, doubt>>

\* ui_edit: the button in the title bar.
CloseWindow ==
  /\ outcome = "continue" /\ front = "vim" /\ outcome' = "quit"
  /\ UNCHANGED <<ed, stored, front, armed, hist, lost, doubt>>

\* A key of editor_run: as in insert mode, but left and right go on at the next line.
editor_run(k) ==
  LET prev == ed.cx = 0 /\ ed.cy > 0
      next == ed.cx = LenAt(ed) /\ ed.cy + 1 < Len(ed.lines)
  IN  /\ Editing("classic")
      /\ ed' = CASE k = "left" /\ prev -> [ed EXCEPT !.cy = @ - 1, !.cx = Len(ed.lines[ed.cy])]
                 [] k = "right" /\ next -> [ed EXCEPT !.cy = @ + 1, !.cx = 0]
                 [] k = "pgup" -> GoUp(ed, TermRows - 1)
                 [] k = "pgdn" -> GoDown(ed, TermRows - 1)
                 [] OTHER -> handle_insert(ed, k)
      /\ armed' = FALSE
      /\ UNCHANGED <<stored, front, outcome, hist, lost, doubt>>

\* The keys of a session, with "save" for everything that saves or quits.  A count has
\* one digit.
EditorStep(keys) ==
  \/ ed.vmode \in {"normal", "insert"} /\ \E k \in keys : (k \in {"2", "0"} => ed.vcount = 0) /\ Press(k)
  \/ \E pattern \in {<<>>, <<"a">>, <<" ", "a">>} : Search(pattern)
  \/ "save" \in keys /\ \E k \in {"^S", "^X"}, ok \in BOOLEAN : SaveKey(k, ok)
  \/ "save" \in keys /\ \E c \in {"w", "wq", "q", "q!", "run", "2", "?"}, ok \in BOOLEAN : run_command(c, ok)
  \/ "save" \in keys /\ (Quit \/ CloseWindow)
  \/ \E k \in keys : editor_run(k)

----------------------------------------------------------------------------
\* A sequence without the repetitions that follow each other.
NoRepeats(s) ==
  LET kept == {j \in DOMAIN s : j = 1 \/ s[j] # s[j - 1]}
  IN  [i \in 1 .. Cardinality(kept) |-> s[CHOOSE j \in kept : Cardinality({x \in kept : x <= j}) = i]]

\* u takes back one group of changes after the other, exactly, whichever command or
\* insertion made them (push_undo before each of them, do_undo, serialize_into and
\* buffer_from_text), until the ring runs out; when it has overwritten the oldest
\* snapshots, the later ones are still all there, in order.
UndoExact ==
  LET at(i) == (ed.head + ED_UNDO_MAX - ed.held + i - 1) % ED_UNDO_MAX
      texts == NoRepeats(Append([i \in 1 .. ed.held |-> buffer_from_text(ed.undo[at(i)].text)], ed.lines))
      all == NoRepeats(hist)
  IN  front = "vim" => /\ lost = "none" => texts = all
                       /\ lost = "oldest" => IsSuffix(texts, all)

\* The cursor is in the buffer and the buffer within its limits after every key, but
\* for a paste below the last line of a full buffer (paste_lines); a buffer not
\* marked as changed, and one whose file is about to run, is what the file holds,
\* unless dd or cc changed it or the last save failed (dirty, save_file, run_command).
EditorSound ==
  /\ Len(ed.lines) \in 1 .. ED_MAX_LINES /\ \A i \in DOMAIN ed.lines : Len(ed.lines[i]) <= ED_MAX_COLS
  /\ IF InBuffer THEN ed.cx <= LenAt(ed) ELSE ed.cy = ED_MAX_LINES /\ ed.yank # <<>>
  /\ (~ed.dirty \/ outcome = "run") /\ ~doubt => ed.lines = buffer_from_text(stored)

\* "bool dirty;            // unsaved changes": a buffer that is not marked as changed
\* is what the file holds (dd and cc in handle_normal).
CleanMeansSaved == ~ed.dirty => ed.lines = buffer_from_text(stored)
=============================================================================
