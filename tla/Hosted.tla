------------------------------- MODULE Hosted -------------------------------
(***************************************************************************)
(* Hosted programs (src/src/syscall.c): one program at a time runs from    *)
(* the shell and calls the kernel through int 0x80 with interrupts off.    *)
(* Its files are whole-file buffers: loaded by sys_open (Ext2Read), grown  *)
(* by sys_write, flushed by sys_close or when the program ends.  It takes  *)
(* input from the rings (Input) and feeds the mixer (AudioMixer), whose    *)
(* interrupts come whenever they are on.  ext2_write_file is modelled by   *)
(* what FileTree promises of it.  A file is counted in half blocks.        *)
(* The editor (Editor) runs from the shell too, with no program beside it. *)
(***************************************************************************)
EXTENDS Ext2Read, Input, AudioMixer, Editor

CONSTANTS Paths,
          FDs,               \* descriptors FD_BASE .. MAX_FD - 1
          CAP,               \* capacity of a new buffer (code: 64 bytes)
          HOSTED_HEAP_SZ,
          Scenarios          \* what happens how often: records of bounds

VARIABLES prog,       \* "none", "running" or "closing"
          active, fb_active,
          brk,        \* brk_cur - brk_base, or NoBrk
          files,      \* struct hfile of every descriptor
          disk, data, \* the file at each path, and the contents of the blocks
          faulted,    \* a program ended by a fault
          want,       \* what each path should hold
          ref,        \* what each descriptor's file should hold
          got,        \* the last sys_read: what it returned, and should have
          left        \* what may still happen

hostedVars == <<prog, active, fb_active, brk, files, disk, data, faulted, want, ref, got>>
progVars == <<prog, active, fb_active, brk, faulted>>
fileVars == <<files, disk, data, want, ref, got>>

Bare == [block |-> [k \in 0 .. Direct - 1 |-> 0], ind |-> None, dbl |-> None]
NoFile == [there |-> FALSE, inode |-> Bare, size |-> 0]
NoBrk == HOSTED_HEAP_SZ + 1
Closed == [used |-> FALSE, writable |-> FALSE, dirty |-> FALSE, buf |-> <<>>, size |-> 0, pos |-> 0, path |-> "none"]
Held(file, blocks) == FileOf(file.inode, file.size, blocks)

HostedInit(d) ==
  /\ prog = "none" /\ active = FALSE /\ fb_active = FALSE /\ brk = NoBrk /\ faulted = FALSE
  /\ files = [f \in FDs |-> Closed]
  /\ disk = d /\ data = [b \in Physical |-> <<<<b, 0>>, <<b, 1>>>>]
  /\ want = [p \in Paths |-> Held(disk[p], data)] /\ ref = [f \in FDs |-> <<>>]
  /\ got = [data |-> <<>>, want |-> <<>>]

----------------------------------------------------------------------------
(* Files.                                                                  *)

\* The main thread is between two calls, and the program between two system calls.
Idle == call = NoCall /\ pumps = {} /\ inject = Nothing
Calls == prog = "running" /\ Idle

\* The smallest doubling of the capacity that holds need, from CAP on.
Grown(cap, need) ==
  LET fits == {k \in 0 .. need : (IF cap = 0 THEN CAP ELSE cap) * 2 ^ k >= need}
  IN  (IF cap = 0 THEN CAP ELSE cap) * 2 ^ (CHOOSE k \in fits : \A j \in fits : k <= j)

hfile_reserve_NoCopy(h, need) ==
  IF need <= Len(h.buf) THEN h ELSE [h EXCEPT !.buf = [k \in 1 .. Grown(Len(@), need) |-> Zero]]

\* A larger buffer is zeroed, and takes over what the file holds.
hfile_reserve(h, need) ==
  IF need <= Len(h.buf) THEN h
  ELSE [h EXCEPT !.buf = [k \in 1 .. Grown(Len(@), need) |-> IF k <= h.size THEN h.buf[k] ELSE Zero]]

\* s copied into a buffer at pos.
Copied(buf, pos, s) == [k \in DOMAIN buf |-> IF k - pos \in DOMAIN s THEN s[k - pos] ELSE buf[k]]

\* sys_open in the first free descriptor.  Contents are loaded unless truncating; a
\* read-only open needs them.
sys_open(p, acc, trunc, append) ==
  LET unused == {f \in FDs : ~files[f].used}
      fd == CHOOSE f \in unused : \A g \in unused : f <= g
      load == ~trunc /\ disk[p].there
      bytes == read_file(disk[p].inode, disk[p].size, data)
      h == hfile_reserve([Closed EXCEPT !.path = p, !.writable = (acc # "rdonly")],
                         IF load THEN Len(bytes) ELSE CAP)
  IN  /\ Calls /\ unused # {}
      /\ acc = "rdonly" => load
      /\ files' = [files EXCEPT ![fd] =
           [h EXCEPT !.used = TRUE, !.dirty = trunc,
                     !.buf = IF load THEN Copied(@, 0, bytes) ELSE @,
                     !.size = IF load THEN Len(bytes) ELSE 0,
                     !.pos = IF append /\ load THEN Len(bytes) ELSE 0]]
      /\ ref' = [ref EXCEPT ![fd] = IF trunc THEN <<>> ELSE want[p]]
      /\ UNCHANGED <<disk, data, want, got, progVars, inputVars, audioVars>>

sys_write(fd, s) ==
  LET h == hfile_reserve(files[fd], files[fd].pos + Len(s))
      end == h.pos + Len(s)
      old == ref[fd]
  IN  /\ Calls /\ files[fd].used /\ files[fd].writable
      /\ files' = [files EXCEPT ![fd] =
           [h EXCEPT !.buf = Copied(@, h.pos, s), !.pos = end, !.size = IF end > @ THEN end ELSE @, !.dirty = TRUE]]
      /\ ref' = [ref EXCEPT ![fd] =
           [k \in 1 .. (IF end > Len(old) THEN end ELSE Len(old)) |->
              IF k - h.pos \in DOMAIN s THEN s[k - h.pos] ELSE IF k <= Len(old) THEN old[k] ELSE Zero]]
      /\ UNCHANGED <<disk, data, want, got, progVars, inputVars, audioVars>>

\* sys_read of a file.  Past the end, size - pos wraps: len bytes of whatever follows.
sys_read(fd, len) ==
  LET h == files[fd]
      past == h.pos > h.size
      rest == Len(ref[fd]) - h.pos
      avail == IF past \/ h.size - h.pos > len THEN len ELSE h.size - h.pos
  IN  /\ Calls /\ h.used
      /\ files' = [files EXCEPT ![fd].pos = @ + avail]
      /\ got' = IF past THEN [data |-> <<>>, want |-> <<>>]
                ELSE [data |-> SubSeq(h.buf, h.pos + 1, h.pos + avail),
                      want |-> SubSeq(ref[fd], h.pos + 1, h.pos + (IF rest > len THEN len ELSE rest))]
      /\ UNCHANGED <<disk, data, want, ref, progVars, inputVars, audioVars>>

\* sys_lseek; -E_INVAL before the start.
sys_lseek(fd, off, whence) ==
  LET h == files[fd]
      np == off + (IF whence = 0 THEN 0 ELSE IF whence = 1 THEN h.pos ELSE h.size)
  IN  /\ Calls /\ h.used
      /\ files' = [files EXCEPT ![fd].pos = IF np < 0 THEN @ ELSE np]
      /\ UNCHANGED <<disk, data, want, ref, got, progVars, inputVars, audioVars>>

\* ext2_write_file of c at p (external here, see FileTree): all of it in the lowest free
\* blocks; or it fails, with the file as it was, or with holes after the first k blocks.
Stored(p, c, k) ==
  LET others == UNION {{block_of(disk[q].inode, n) : n \in 0 .. Direct + Per + Per * Per - 1} : q \in Paths \ {p}}
      room == Physical \ others
      nth(n) == CHOOSE b \in room : Cardinality({x \in room : x < b}) = n
      at(n) == IF n < k THEN nth(n) ELSE 0
  IN  /\ k <= Cardinality(room) /\ k <= Direct + Per
      /\ disk' = [disk EXCEPT ![p] =
           [there |-> TRUE, size |-> Len(c),
            inode |-> [block |-> [n \in 0 .. Direct - 1 |-> at(n)],
                       ind |-> IF k > Direct THEN [n \in 0 .. Per - 1 |-> at(Direct + n)] ELSE None,
                       dbl |-> None]]]
      /\ data' = [b \in Physical |->
           IF \E n \in 0 .. k - 1 : nth(n) = b
           THEN LET n == CHOOSE n \in 0 .. k - 1 : nth(n) = b
                IN  <<c[2 * n + 1], IF 2 * n + 2 <= Len(c) THEN c[2 * n + 2] ELSE Zero>>
           ELSE data[b]]

ext2_write_file(p, c, ok) ==
  LET blocks == (Len(c) + 1) \div 2
  IN  \/ ok /\ Stored(p, c, blocks)
      \/ ~ok /\ \E k \in 0 .. blocks - 1 : Stored(p, c, k)
      \/ ~ok /\ UNCHANGED <<disk, data>>

hfile_close_Keeps(fd, ok) ==
  /\ ok /\ UNCHANGED <<disk, data>>
  /\ want' = IF files[fd].writable /\ files[fd].dirty THEN [want EXCEPT ![files[fd].path] = ref[fd]] ELSE want
  /\ files' = [files EXCEPT ![fd] = Closed] /\ ref' = [ref EXCEPT ![fd] = <<>>]

\* The file reaches the disk if it was written; the buffer is freed, the descriptor too.
\* Where the write failed, the path holds what it holds.
hfile_close(fd, ok) ==
  LET h == files[fd]
      flush == h.writable /\ h.dirty
  IN  /\ IF flush THEN ext2_write_file(h.path, SubSeq(h.buf, 1, h.size), ok) ELSE ok /\ UNCHANGED <<disk, data>>
      /\ want' = IF flush THEN [want EXCEPT ![h.path] = IF ok THEN ref[fd] ELSE Held(disk'[h.path], data')] ELSE want
      /\ files' = [files EXCEPT ![fd] = Closed] /\ ref' = [ref EXCEPT ![fd] = <<>>]

sys_close(fd, ok) ==
  /\ Calls /\ files[fd].used
  /\ hfile_close(fd, ok)
  /\ UNCHANGED <<got, progVars, inputVars, audioVars>>

----------------------------------------------------------------------------
(* The program.                                                            *)

\* hosted_run up to the program's first instruction: a program heap, empty rings.
\* It returns -1 while a program is active.
hosted_run ==
  /\ prog = "none" /\ ~active /\ Idle
  /\ prog' = "running" /\ active' = TRUE /\ brk' = 0
  /\ drain(FALSE)
  /\ UNCHANGED <<fb_active, faulted, fileVars, audioVars>>

sys_sbrk(incr) ==
  /\ Calls
  /\ brk' = IF brk + incr \in 0 .. HOSTED_HEAP_SZ THEN brk + incr ELSE brk
  /\ UNCHANGED <<prog, active, fb_active, faulted, fileVars, inputVars, audioVars>>

\* SYS_fb_present: the program has the screen.
fb_present ==
  /\ Calls /\ fb_active' = TRUE
  /\ UNCHANGED <<prog, active, brk, faulted, fileVars, inputVars, audioVars>>

\* SYS_exit, or _start returns.
Exit ==
  /\ Calls /\ prog' = "closing"
  /\ UNCHANGED <<active, fb_active, brk, faulted, fileVars, inputVars, audioVars>>

\* The descriptors the program left open, in order; a failure goes unnoticed.
CloseNext(ok) ==
  LET open == {f \in FDs : files[f].used}
  IN  /\ prog = "closing" /\ Idle /\ open # {}
      /\ hfile_close(CHOOSE f \in open : \A g \in open : f <= g, ok)
      /\ UNCHANGED <<got, progVars, inputVars, audioVars>>

\* The rest of hosted_run: the desktop gets the screen back, and no input of the program's.
Finish ==
  /\ prog = "closing" /\ Idle /\ \A f \in FDs : ~files[f].used
  /\ IF fb_active THEN drain(TRUE) ELSE UNCHANGED inputVars
  /\ prog' = "none" /\ active' = FALSE /\ fb_active' = FALSE /\ brk' = NoBrk
  /\ UNCHANGED <<faulted, fileVars, audioVars>>

\* fault_recover: a longjmp to the shell, past all of the above.
fault_recover ==
  /\ Calls /\ prog' = "none" /\ faulted' = TRUE
  /\ UNCHANGED <<active, fb_active, brk, fileVars, inputVars, audioVars>>

----------------------------------------------------------------------------
(* Everything together.  Interrupts come unless a masked call or another   *)
(* handler runs; USB input comes from the shell's idle loop.               *)

vars == <<hostedVars, inputVars, audioVars, editorVars, left>>

Init == \E s \in Scenarios :
  /\ left = s.left
  /\ \E d \in s.disks : HostedInit(d)
  /\ InputInit /\ AudioInit(s.audio)
  /\ \E file \in s.texts : EditorInit(file, s.front)

Use(what) == left[what] > 0 /\ left' = [left EXCEPT ![what] = @ - 1]
Interrupts == "isr" \notin pumps /\ ~call.masked
Shell == prog = "none" /\ Idle

FileCall ==
  \/ /\ Use("opens")
     /\ \E p \in Paths, acc \in {"rdonly", "rdwr"}, trunc, append \in BOOLEAN : sys_open(p, acc, trunc, append)
  \/ \E f \in FDs :
       \/ Use("writes") /\ \E n \in 1 .. 2 : sys_write(f, [i \in 1 .. n |-> <<left.writes, 10 + i>>])
       \/ Use("reads") /\ \E n \in 1 .. 2 : sys_read(f, n)
       \/ Use("seeks") /\ \E off \in -1 .. 1, whence \in 0 .. 2 : sys_lseek(f, off, whence)
       \/ sys_close(f, TRUE) /\ UNCHANGED left
       \/ sys_close(f, FALSE) /\ Use("errors")

ProgramStep ==
  \/ hosted_run /\ Use("runs")
  \/ sys_sbrk(1) /\ Use("brks")
  \/ sys_sbrk(-1) /\ Use("brks")
  \/ fb_present /\ Use("frames")
  \/ Exit /\ UNCHANGED left
  \/ CloseNext(TRUE) /\ UNCHANGED left
  \/ CloseNext(FALSE) /\ Use("errors")
  \/ Finish /\ UNCHANGED left
  \/ fault_recover /\ Use("faults")

InputEvent ==
  /\ \/ Use("keys") /\ \E k \in Ps2Keys : Key(k)
     \/ Use("moves") /\ \E p \in Packets : Move(p)
     \/ UNCHANGED left /\ \E d \in {"kbd", "mouse"} : Deliver(d)
     \/ UNCHANGED left /\ Interrupts /\ kbd_irq
     \/ UNCHANGED left /\ Interrupts /\ mouse_irq
     \/ Use("usb") /\ Shell /\ \E what \in {"usb", "up"} : keyboard_inject(what)
     \/ Use("usb") /\ Shell /\ mouse_inject(1)
     \/ UNCHANGED left /\ "isr" \notin pumps /\ kpush
     \/ UNCHANGED left /\ "isr" \notin pumps /\ inject.step = "dx" /\ mouse_inject(1)
     \/ UNCHANGED left /\ Shell /\ keyboard_poll
     \/ UNCHANGED left /\ Calls /\ keyboard_poll_raw
     \/ UNCHANGED left /\ (Shell \/ Calls) /\ mouse_poll
  /\ UNCHANGED <<hostedVars, audioVars>>

\* Lua plays with interrupts on, a program with interrupts off; music is a program's.
AudioEvent ==
  /\ \/ Use("plays") /\ Shell /\ \E n \in 0 .. 1 : audio_tone(n, FALSE)
     \/ Use("plays") /\ Shell /\ \E loop \in BOOLEAN : audio_play_pcm(1, loop, FALSE)
     \/ Use("plays") /\ Calls /\ audio_play_pcm(1, FALSE, TRUE)
     \/ Use("stops") /\ (Shell \/ Calls) /\ \E h \in handles : audio_stop(h)
     \/ Use("stops") /\ (Shell \/ Calls) /\ audio_stop_all(prog = "running")
     \/ Use("music") /\ Calls /\ (audio_music_start \/ audio_music_stop)
     \/ Use("music") /\ Calls /\ \E n \in {1, 3} : audio_music_write([i \in 1 .. n |-> 10 * left.music + i])
     \/ UNCHANGED left /\ dev.kind # "none" /\ Play
     \/ UNCHANGED left /\ dev.kind # "none" /\ AudioStep /\ ("idle" \in pumps' \ pumps => Shell)
  /\ UNCHANGED <<hostedVars, inputVars>>

EditorEvent == Use("typed") /\ Shell /\ EditorStep(left.session) /\ UNCHANGED <<hostedVars, inputVars, audioVars>>

Next == \/ (FileCall \/ ProgramStep \/ InputEvent \/ AudioEvent) /\ UNCHANGED editorVars
        \/ EditorEvent

Spec == Init /\ [][Next]_vars

----------------------------------------------------------------------------
\* A descriptor holds what POSIX says its file holds after the writes and seeks so
\* far, zeros in a gap included, and sys_read returns it: read_file loses, repeats
\* and shifts nothing across holes and the ends of the direct, single and double
\* indirect maps, and hfile_reserve keeps the contents.  After a close, or the
\* program's end, without a write error each path holds what the last descriptor
\* closed held (sys_close, hosted_run).  Unless a fault cut it short, a program
\* leaves no descriptor open, no program heap and no screen taken.
FilesExact ==
  /\ \A p \in Paths : Held(disk[p], data) = want[p]
  /\ \A f \in FDs : files[f].used => SubSeq(files[f].buf, 1, files[f].size) = ref[f]
  /\ got.data = got.want
  /\ prog = "none" /\ ~faulted =>
       ~active /\ ~fb_active /\ brk = NoBrk /\ \A f \in FDs : files[f] = Closed
=============================================================================
