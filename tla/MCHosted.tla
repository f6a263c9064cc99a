------------------------------ MODULE MCHosted ------------------------------
(* Two files on a disk of three blocks, rings that wrap, and every         *)
(* scenario with one part of the kernel busy: the parts share only the     *)
(* processor, the rings a program drains and the mask of its calls.        *)
EXTENDS Hosted

MCPaths == {"a", "b"}
MCFDs == {3, 4}
MCKeys == {"letter", "shift", "caps", "up", "rctrl"}
MCPackets == {<<8, 9, 0>>, <<24, 255, 0>>}

File(in, n) == [there |-> TRUE, inode |-> in, size |-> n]
Disk(f) == [p \in MCPaths |-> IF p = "a" THEN f ELSE NoFile]
Sparse == [block |-> [k \in 0 .. Direct - 1 |-> 2], ind |-> [k \in 0 .. Per - 1 |-> IF k = 1 THEN 3 ELSE 0], dbl |-> None]

Nought == [runs |-> 0, opens |-> 0, writes |-> 0, reads |-> 0, seeks |-> 0, errors |-> 0, brks |-> 0, frames |-> 0,
           faults |-> 0, keys |-> 0, moves |-> 0, usb |-> 0, plays |-> 0, stops |-> 0, music |-> 0,
           typed |-> 0, session |-> {}]

Loading == [left |-> [Nought EXCEPT !.runs = 1, !.opens = 1], audio |-> "none", front |-> "vim", texts |-> {<<>>},
            disks |-> {Disk(File(in, n)) : in \in Inodes, n \in {5, 6, 13, 15}}]
Filing(f, o, w, s, r, e) ==
  [left |-> [Nought EXCEPT !.runs = 1, !.opens = o, !.writes = w, !.seeks = s, !.reads = r, !.errors = e, !.faults = e],
   audio |-> "none", front |-> "vim", texts |-> {<<>>}, disks |-> {Disk(f)}]
Typing(k, m, u, r) ==
  [left |-> [Nought EXCEPT !.runs = r, !.brks = r, !.frames = r, !.keys = k, !.moves = m, !.usb = u],
   audio |-> "none", front |-> "vim", texts |-> {<<>>}, disks |-> {Disk(NoFile)}]
Playing(kind, r, p, s, m) ==
  [left |-> [Nought EXCEPT !.runs = r, !.plays = p, !.stops = s, !.music = m],
   audio |-> kind, front |-> "vim", texts |-> {<<>>}, disks |-> {Disk(NoFile)}]

InsertKeys == TextKeys \cup {"enter", "backspace", "del", "left", "right", "up", "down", "home", "end", "esc"}
NormalKeys == Motions \cup Changes \cup Operators \cup {"u", ":", "/", "2"}
\* Carriage returns and a blank, a long line, and one line too many.
Texts == {<<"a", ".", "\r", "\n", " ", "a">>, <<"a", "a", " ", ".", "\n", "\n", "a">>, <<"a", "\n", ".", "\n", "\n", "a">>}
Session(frontend, keys, n) ==
  [left |-> [Nought EXCEPT !.typed = n, !.session = keys], audio |-> "none", front |-> frontend,
   texts |-> Texts, disks |-> {Disk(NoFile)}]

Sessions ==
  {Session("vim", NormalKeys \cup InsertKeys \cup {"save"}, 3),
   Session("vim", {"x", "d", "u", "p", "J"}, 7),
   Session("vim", {"y", "d", "2", "u", "p", "P", "j"}, 6),
   Session("vim", {"i", "o", "u", "c", "a", "enter", "backspace", "esc"}, 7),
   Session("vim", {"x", "d", "u", ":", "save"}, 5),
   Session("classic", InsertKeys \cup {"pgup", "pgdn", "save"}, 4)}

\* Nothing is saved, so no save can fail.
Unsaved == {Session("vim", {"x", "d", "c", "esc", "u", "j"}, 5)}

MCScenarios == Sessions \cup
  {Loading, Filing(File(Sparse, 5), 1, 2, 1, 1, 0), Filing(File(Sparse, 5), 2, 2, 0, 0, 1), Filing(NoFile, 2, 2, 1, 0, 0),
   Typing(4, 0, 0, 0), Typing(2, 0, 1, 0), Typing(1, 1, 1, 0), Typing(1, 1, 0, 1),
   Playing("ac97", 0, 2, 1, 0), Playing("hda", 1, 1, 0, 0), Playing("ac97", 1, 0, 0, 4), Playing("hda", 1, 0, 1, 3)}
=============================================================================
