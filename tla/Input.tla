------------------------------- MODULE Input -------------------------------
(***************************************************************************)
(* The PS/2 keyboard and mouse (src/src/keyboard.c, src/src/mouse.c) and   *)
(* the way in for USB (keyboard_inject, mouse_inject).  Both devices share *)
(* the one-byte output buffer of the i8042; whichever handler finds a byte *)
(* routes it by its status bit.  The handlers run with interrupts off; an  *)
(* injection runs with interrupts on and is split at its volatile          *)
(* accesses, and a poll writes nothing a handler reads but its tail.       *)
(* Bytes are scancodes and mouse packets; a character carries its source   *)
(* and the number of its key press, so that no two are alike.              *)
(* The controller and the devices are external.                            *)
(***************************************************************************)
EXTENDS Integers, Sequences, FiniteSets

CONSTANTS KBUF_SZ, RAW_SZ,
          Ps2Keys,   \* keys of the PS/2 keyboard
          Packets    \* packets of the PS/2 mouse

ASSUME InputAssumption == KBUF_SZ \in Nat /\ RAW_SZ \in Nat /\ KBUF_SZ > 1 /\ RAW_SZ > 1

VARIABLES kbuf, rawbuf, \* the rings: memory, head and tail
          mods,      \* shift, ctrl, caps, extended, and the keys handled so far
          pkt,       \* pkt[0 .. pkt_idx - 1]
          acc_dx,
          port,      \* the output buffer: <<>>, or <<byte, from the mouse>>
          out,       \* bytes the keyboard and the mouse have yet to send
          typing,    \* the truth: keys down, caps lock
          inject,    \* the injection in progress: what is left of it, and next
          read,      \* what was read: characters, raw events, motion
          sent,      \* what the devices sent: characters by source, raw events, motion
          exact      \* nothing was dropped for lack of space, cut or collided so far

inputVars == <<kbuf, rawbuf, mods, pkt, acc_dx, port, out, typing, inject, read, sent, exact>>

Letter == 30
Shift == 42
Ctrl == 29
Caps == 58
Up == 72
Extended == 224
Code == [letter |-> <<Letter>>, shift |-> <<Shift>>, ctrl |-> <<Ctrl>>, caps |-> <<Caps>>,
         up |-> <<Extended, Up>>, rctrl |-> <<Extended, Ctrl>>]

Empty(size) == [mem |-> [k \in 0 .. size - 1 |-> <<>>], head |-> 0, tail |-> 0]
Nothing == [step |-> "none", todo |-> <<>>, next |-> 0]

InputInit ==
  /\ kbuf = Empty(KBUF_SZ) /\ rawbuf = Empty(RAW_SZ)
  /\ mods = [shift |-> FALSE, ctrl |-> FALSE, caps |-> FALSE, extended |-> FALSE, n |-> 0]
  /\ pkt = <<>> /\ acc_dx = 0 /\ port = <<>> /\ out = [kbd |-> <<>>, mouse |-> <<>>]
  /\ typing = [down |-> {}, caps |-> FALSE]
  /\ inject = Nothing
  /\ read = [chars |-> <<>>, raw |-> <<>>, dx |-> 0]
  /\ sent = [ps2 |-> <<>>, usb |-> <<>>, raw |-> <<>>, dx |-> 0]
  /\ exact = [keys |-> TRUE, raw |-> TRUE, dx |-> TRUE]

----------------------------------------------------------------------------
(* The rings.                                                              *)

Full(r, size) == (r.head + 1) % size = r.tail
Content(r, size) == [k \in 1 .. (r.head + size - r.tail) % size |-> r.mem[(r.tail + k - 1) % size]]

\* kpush and rawpush of a handler: dropped when the ring is full.
Push(r, size, c) ==
  IF Full(r, size) THEN r ELSE [r EXCEPT !.mem[r.head] = c, !.head = (@ + 1) % size]

\* kpush_seq: one character or the three of an escape sequence.
PushAll(cs) ==
  LET one == Push(kbuf, KBUF_SZ, cs[1])
      two == Push(one, KBUF_SZ, cs[2])
  IN  IF cs = <<>> THEN kbuf ELSE IF Len(cs) = 1 THEN one ELSE Push(two, KBUF_SZ, cs[3])

Chars(source, n, what) ==
  IF what = "up" THEN <<<<source, n, "esc">>, <<source, n, "[">>, <<source, n, "A">>>> ELSE <<<<source, n, what>>>>

\* keyboard_poll and keyboard_poll_raw: the oldest entry, if there is one.
keyboard_poll ==
  /\ kbuf.head # kbuf.tail /\ inject = Nothing
  /\ read' = [read EXCEPT !.chars = Append(@, kbuf.mem[kbuf.tail])]
  /\ kbuf' = [kbuf EXCEPT !.tail = (@ + 1) % KBUF_SZ]
  /\ UNCHANGED <<rawbuf, mods, pkt, acc_dx, port, out, typing, inject, sent, exact>>

keyboard_poll_raw ==
  /\ rawbuf.head # rawbuf.tail /\ inject = Nothing
  /\ read' = [read EXCEPT !.raw = Append(@, rawbuf.mem[rawbuf.tail])]
  /\ rawbuf' = [rawbuf EXCEPT !.tail = (@ + 1) % RAW_SZ]
  /\ UNCHANGED <<kbuf, mods, pkt, acc_dx, port, out, typing, inject, sent, exact>>

\* mouse_poll, under cli.
mouse_poll ==
  /\ acc_dx # 0 /\ inject = Nothing
  /\ read' = [read EXCEPT !.dx = @ + acc_dx] /\ acc_dx' = 0
  /\ UNCHANGED <<kbuf, rawbuf, mods, pkt, port, out, typing, inject, sent, exact>>

\* The loops that empty both rings, and mouse_flush.  A packet under way is cut.
drain(flush) ==
  /\ inject = Nothing
  /\ read' = [chars |-> read.chars \o Content(kbuf, KBUF_SZ), raw |-> read.raw \o Content(rawbuf, RAW_SZ),
              dx |-> IF flush THEN read.dx + acc_dx ELSE read.dx]
  /\ kbuf' = [kbuf EXCEPT !.tail = kbuf.head] /\ rawbuf' = [rawbuf EXCEPT !.tail = rawbuf.head]
  /\ pkt' = IF flush THEN <<>> ELSE pkt
  /\ acc_dx' = IF flush THEN 0 ELSE acc_dx
  /\ exact' = [exact EXCEPT !.dx = @ /\ (flush => pkt = <<>>)]
  /\ UNCHANGED <<mods, port, out, typing, inject, sent>>

----------------------------------------------------------------------------
(* USB: keyboard_inject and mouse_inject, from xhci_poll.                  *)

keyboard_inject(what) ==
  LET cs == Chars("usb", Len(sent.usb), what)
  IN  /\ inject = Nothing
      /\ inject' = [step |-> "next", todo |-> cs, next |-> 0]
      /\ sent' = [sent EXCEPT !.usb = @ \o cs]
      /\ UNCHANGED <<kbuf, rawbuf, mods, pkt, acc_dx, port, out, typing, read, exact>>

\* kpush outside a handler: next is computed, the character is written, the head moves.
kpush ==
  LET rest == IF Len(inject.todo) = 1 THEN Nothing ELSE [step |-> "next", todo |-> Tail(inject.todo), next |-> 0]
  IN  /\ \/ /\ inject.step = "next"
            /\ inject' = [inject EXCEPT !.step = "write", !.next = (kbuf.head + 1) % KBUF_SZ]
            /\ UNCHANGED <<kbuf, exact>>
         \/ /\ inject.step = "write"
            /\ IF inject.next = kbuf.tail
               THEN inject' = rest /\ exact' = [exact EXCEPT !.keys = FALSE] /\ UNCHANGED kbuf
               ELSE /\ kbuf' = [kbuf EXCEPT !.mem[kbuf.head] = Head(inject.todo)]
                    /\ inject' = [inject EXCEPT !.step = "head"] /\ UNCHANGED exact
         \/ /\ inject.step = "head"
            /\ kbuf' = [kbuf EXCEPT !.head = inject.next]
            /\ inject' = rest /\ UNCHANGED exact
      /\ UNCHANGED <<rawbuf, mods, pkt, acc_dx, port, out, typing, read, sent>>

\* acc_dx += dx, a load and a store.
mouse_inject(dx) ==
  /\ \/ /\ inject = Nothing
        /\ inject' = [step |-> "dx", todo |-> <<>>, next |-> acc_dx + dx]
        /\ sent' = [sent EXCEPT !.dx = @ + dx] /\ UNCHANGED acc_dx
     \/ /\ inject.step = "dx"
        /\ acc_dx' = inject.next /\ inject' = Nothing /\ UNCHANGED sent
  /\ UNCHANGED <<kbuf, rawbuf, mods, pkt, port, out, typing, read, exact>>

----------------------------------------------------------------------------
(* The handlers.                                                           *)

Bit(b, k) == (b \div 2 ^ k) % 2 = 1

\* mouse_handle_byte: byte 0 always has bit 3 set; the third byte completes a packet.
mouse_handle_byte(b) ==
  /\ IF Len(pkt) < 2
     THEN pkt' = (IF pkt = <<>> /\ ~Bit(b, 3) THEN pkt ELSE Append(pkt, b)) /\ UNCHANGED <<acc_dx, exact>>
     ELSE /\ pkt' = <<>>
          /\ acc_dx' = acc_dx + pkt[2] - (IF Bit(pkt[1], 4) THEN 256 ELSE 0)
          /\ exact' = [exact EXCEPT !.dx = @ /\ inject.step # "dx"]
  /\ UNCHANGED <<kbuf, rawbuf, mods>>

\* The character of the letter under the modifiers the driver has seen.
Translate ==
  LET upper == mods.shift # mods.caps
  IN  IF upper THEN "upper" ELSE IF mods.ctrl THEN "control" ELSE "lower"

\* A scancode: the prefix, or a key with its raw event, its modifier and its characters.
scancode(sc) ==
  LET code == sc % 128
      release == sc >= 128
      what == IF release THEN "none"
              ELSE IF mods.extended THEN (IF code = Up THEN "up" ELSE "none")
              ELSE IF code = Letter THEN Translate ELSE "none"
      cs == IF what = "none" THEN <<>> ELSE Chars("ps2", mods.n, what)
      pushed == PushAll(cs)
  IN  /\ IF sc = Extended
         THEN mods' = [mods EXCEPT !.extended = TRUE] /\ UNCHANGED <<kbuf, rawbuf, exact>>
         ELSE /\ rawbuf' = Push(rawbuf, RAW_SZ, <<code, mods.extended, ~release>>)
              /\ kbuf' = pushed
              /\ mods' = [extended |-> FALSE, n |-> mods.n + 1,
                          shift |-> IF code = Shift /\ ~mods.extended THEN ~release ELSE mods.shift,
                          ctrl |-> IF code = Ctrl THEN ~release ELSE mods.ctrl,
                          caps |-> IF code = Caps /\ ~mods.extended /\ ~release THEN ~mods.caps ELSE mods.caps]
              /\ exact' = [exact EXCEPT
                   !.keys = @ /\ (cs # <<>> => /\ (pushed.head - kbuf.head) % KBUF_SZ = Len(cs)
                                               /\ inject.step \notin {"write", "head"}),
                   !.raw = @ /\ ~Full(rawbuf, RAW_SZ)]
  /\ UNCHANGED <<pkt, acc_dx>>

kbd_irq_AnyByte ==
  /\ port # <<>> /\ port' = <<>>
  /\ scancode(port[1])
  /\ UNCHANGED <<out, typing, inject, read, sent>>

\* kbd_irq: a byte of the mouse found here goes to the mouse.
kbd_irq ==
  /\ port # <<>> /\ port' = <<>>
  /\ IF port[2] THEN mouse_handle_byte(port[1]) ELSE scancode(port[1])
  /\ UNCHANGED <<out, typing, inject, read, sent>>

\* mouse_irq: a byte of the keyboard is left for IRQ 1.
mouse_irq ==
  /\ port # <<>> /\ port[2] /\ port' = <<>>
  /\ mouse_handle_byte(port[1])
  /\ UNCHANGED <<out, typing, inject, read, sent>>

----------------------------------------------------------------------------
(* The controller and the devices (external).                              *)

Deliver(d) ==
  /\ port = <<>> /\ out[d] # <<>>
  /\ port' = <<Head(out[d]), d = "mouse">>
  /\ out' = [out EXCEPT ![d] = Tail(@)]
  /\ UNCHANGED <<kbuf, rawbuf, mods, pkt, acc_dx, typing, inject, read, sent, exact>>

\* A key goes down or up; what it should give is decided by the keys that are down.
Key(k) ==
  LET press == k \notin typing.down
      down == IF press THEN typing.down \cup {k} ELSE typing.down \ {k}
      upper == ("shift" \in down) # typing.caps
      what == IF k = "letter" THEN (IF upper THEN "upper" ELSE IF down \cap {"ctrl", "rctrl"} # {} THEN "control" ELSE "lower")
              ELSE IF k = "up" THEN "up" ELSE "none"
      bytes == [i \in DOMAIN Code[k] |-> IF press \/ Code[k][i] = Extended THEN Code[k][i] ELSE Code[k][i] + 128]
  IN  /\ typing' = [down |-> down, caps |-> IF k = "caps" /\ press THEN ~typing.caps ELSE typing.caps]
      /\ out' = [out EXCEPT !.kbd = @ \o bytes]
      /\ sent' = [sent EXCEPT !.raw = Append(@, <<Code[k][Len(Code[k])], Len(Code[k]) = 2, press>>),
                    !.ps2 = IF press /\ what # "none" THEN @ \o Chars("ps2", Len(sent.raw), what) ELSE @]
      /\ UNCHANGED <<kbuf, rawbuf, mods, pkt, acc_dx, port, inject, read, exact>>

Move(p) ==
  /\ out' = [out EXCEPT !.mouse = @ \o p]
  /\ sent' = [sent EXCEPT !.dx = @ + p[2] - (IF Bit(p[1], 4) THEN 256 ELSE 0)]
  /\ UNCHANGED <<kbuf, rawbuf, mods, pkt, acc_dx, port, typing, inject, read, exact>>

----------------------------------------------------------------------------
\* Once every byte has been handled, what was read and what is still in the rings
\* is what the devices sent: every character of every key press under the
\* modifiers of that moment, every raw event, all motion, whichever handler
\* found the byte (kbd_irq, mouse_irq) and however the two devices' bytes mix,
\* unless a ring was full, a flush cut a packet, or USB and PS/2 collided in
\* kpush or acc_dx.  Even then no character comes twice or before an earlier one.
InputExact ==
  LET got == read.chars \o Content(kbuf, KBUF_SZ)
      of(source) == SelectSeq(got, LAMBDA c : c[1] = source)
      place(c) == CHOOSE i \in DOMAIN sent[c[1]] : sent[c[1]][i] = c
      quiet == port = <<>> /\ out.kbd = <<>> /\ out.mouse = <<>> /\ inject = Nothing
  IN  /\ quiet /\ exact.keys => of("ps2") = sent.ps2 /\ of("usb") = sent.usb
      /\ quiet /\ exact.raw => read.raw \o Content(rawbuf, RAW_SZ) = sent.raw
      /\ quiet /\ exact.dx => read.dx + acc_dx = sent.dx /\ pkt = <<>>
      /\ \A c \in {"ps2", "usb"} : \A i \in DOMAIN of(c) :
           /\ \E j \in DOMAIN sent[c] : sent[c][j] = of(c)[i]
           /\ i > 1 => place(of(c)[i - 1]) < place(of(c)[i])
=============================================================================
