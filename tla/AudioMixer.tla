---------------------------- MODULE AudioMixer ----------------------------
(***************************************************************************)
(* The software mixer (src/src/audio.c) over the period ring of its        *)
(* backend (src/src/ac97.c, src/src/hda.c).  The completion interrupt and  *)
(* the idle loop both pump; the calls of the Lua shell run with interrupts *)
(* on and are split where an interrupt can tell, those of a hosted program *)
(* run inside int 0x80 with interrupts off (masked).  A period is one      *)
(* frame, and samples are left out but for those of the music stream.      *)
(* The DMA engine is external.                                             *)
(***************************************************************************)
EXTENDS Naturals, Sequences, FiniteSets

CONSTANTS MAX_VOICES,
          BDL_ENTRIES, QUEUE,    \* periods, and how many are kept filled (code: 32 and 6)
          MUSIC_RING_FRAMES,     \* code: 2^15
          CountMod,              \* music_head and music_tail count modulo this (code: 2^32)
          GenMod,                \* generations of a handle (code: 2^23)
          ToneMod,               \* frames_left of a tone counts modulo this (code: 2^32)
          FadeSteps              \* frames of a fade-out (code: 128)

ASSUME MixerAssumption ==
  /\ QUEUE \in Nat \ {0} /\ BDL_ENTRIES \in Nat /\ QUEUE + 1 < BDL_ENTRIES
  /\ MUSIC_RING_FRAMES \in Nat \ {0} /\ CountMod \in Nat /\ CountMod > MUSIC_RING_FRAMES
  /\ CountMod % MUSIC_RING_FRAMES = 0
  /\ MAX_VOICES \in Nat \ {0} /\ GenMod \in Nat \ {0} /\ ToneMod \in Nat \ {0} /\ FadeSteps \in Nat

VARIABLES voices,     \* struct voice of every slot, with the play it is for
          voice_seq,
          buffers,    \* PCM buffers on the heap, by play
          forgotten,  \* those no voice names any more
          handles,    \* the handles returned: generation, slot and play
          stopped,    \* plays somebody stopped
          call,       \* the call in progress, and whether interrupts are off
          music,      \* music_ring, music_head, music_tail, music_on
          stream,     \* music accepted and not yet mixed
          dev,        \* the backend: its kind, the producer's and the play cursor
          filled,     \* the periods mixed and not yet begun, in the order they were queued
          pumps,      \* who is inside audio_pump: "idle", "isr"
          hand,       \* the period next_period handed out to each
          late        \* the play cursor has caught up with the mixer

voiceVars == <<voices, voice_seq, buffers, forgotten, handles, stopped, call>>
musicVars == <<music, stream>>
ringVars == <<dev, filled, pumps, hand, late>>
audioVars == <<voiceVars, musicVars, ringVars>>

Slots == 1 .. MAX_VOICES
NoBuffer == 0
NoPeriod == BDL_ENTRIES
NoCall == [op |-> "none", slot |-> 0, n |-> 0, loop |-> FALSE, masked |-> FALSE]

AudioInit(kind) ==
  /\ voices = [v \in Slots |-> [active |-> FALSE, tone |-> TRUE, fading |-> FALSE, fade_q8 |-> 0, loop |-> FALSE,
                                pcm |-> NoBuffer, left |-> 0, pos |-> 0, gen |-> 0, play |-> 0]]
  /\ voice_seq = 0 /\ buffers = {} /\ forgotten = {} /\ handles = {} /\ stopped = {} /\ call = NoCall
  /\ music = [ring |-> [k \in 0 .. MUSIC_RING_FRAMES - 1 |-> 0], head |-> CountMod - 1,
              tail |-> CountMod - 1, on |-> FALSE]
  /\ stream = <<>>
  /\ dev = [kind |-> kind, wr |-> QUEUE, play |-> 0]
  /\ filled = <<>> /\ pumps = {} /\ hand = [c \in {"idle", "isr"} |-> NoPeriod] /\ late = FALSE

----------------------------------------------------------------------------
(* The calls.  The main thread makes one at a time, and none while it pumps. *)

MainRuns == "isr" \notin pumps
Free == {v \in Slots : ~voices[v].active}
FirstFree == CHOOSE v \in Free : \A w \in Free : v <= w

\* A new play in the first free slot, not yet active; without a buffer it is a tone.
\* The number it goes by is the generation it is about to get.
Fill(n, loop, pcm) ==
  [voices[FirstFree] EXCEPT !.tone = (pcm = NoBuffer), !.loop = loop, !.fading = FALSE, !.fade_q8 = FadeSteps,
                            !.pcm = pcm, !.left = n, !.pos = 0, !.play = voice_seq + 1]
Begin(masked) == call' = [NoCall EXCEPT !.op = "start", !.slot = FirstFree, !.masked = masked]

\* audio_tone: a buffer that a finished play left in the slot is forgotten.
audio_tone(n, masked) ==
  /\ call = NoCall /\ pumps = {} /\ Free # {}
  /\ voices' = [voices EXCEPT ![FirstFree] = Fill(n, FALSE, NoBuffer)]
  /\ forgotten' = forgotten \cup ({voices[FirstFree].pcm} \ {NoBuffer})
  /\ Begin(masked)
  /\ UNCHANGED <<voice_seq, buffers, handles, stopped, musicVars, ringVars>>

\* audio_play_pcm: first reap_finished frees what the inactive slots hold ...
audio_play_pcm(n, loop, masked) ==
  /\ call = NoCall /\ pumps = {}
  /\ buffers' = buffers \ {voices[v].pcm : v \in Free}
  /\ voices' = [v \in Slots |-> IF v \in Free THEN [voices[v] EXCEPT !.pcm = NoBuffer] ELSE voices[v]]
  /\ call' = [NoCall EXCEPT !.op = "slot", !.n = n, !.loop = loop, !.masked = masked]
  /\ UNCHANGED <<voice_seq, forgotten, handles, stopped, musicVars, ringVars>>

\* ... then a copy of the samples goes to the first free slot, which may have become
\* free since; without one the call returns -1.
TakeSlot ==
  /\ call.op = "slot" /\ MainRuns
  /\ IF Free = {}
     THEN call' = NoCall /\ UNCHANGED <<voices, buffers, forgotten>>
     ELSE /\ buffers' = buffers \cup {voice_seq + 1}
          /\ voices' = [voices EXCEPT ![FirstFree] = Fill(call.n, call.loop, voice_seq + 1)]
          /\ forgotten' = forgotten \cup ({voices[FirstFree].pcm} \ {NoBuffer})
          /\ Begin(call.masked)
  /\ UNCHANGED <<voice_seq, handles, stopped, musicVars, ringVars>>

\* The voice is heard from here on.
Activate ==
  /\ call.op = "start" /\ MainRuns
  /\ voices' = [voices EXCEPT ![call.slot].active = TRUE]
  /\ call' = [call EXCEPT !.op = "handle"]
  /\ UNCHANGED <<voice_seq, buffers, forgotten, handles, stopped, musicVars, ringVars>>

voice_handle ==
  /\ call.op = "handle" /\ MainRuns
  /\ voice_seq' = voice_seq + 1
  /\ voices' = [voices EXCEPT ![call.slot].gen = voice_seq + 1]
  /\ handles' = handles \cup {[gen |-> (voice_seq + 1) % GenMod, slot |-> call.slot, play |-> voice_seq + 1]}
  /\ call' = NoCall
  /\ UNCHANGED <<buffers, forgotten, stopped, musicVars, ringVars>>

\* voice_from_handle finds the slot active, in the generation of the handle.
voice_from_handle(h) == voices[h.slot].active /\ voices[h.slot].gen % GenMod = h.gen

\* audio_stop of one play: it fades out.
audio_stop(h) ==
  /\ call = NoCall /\ pumps = {}
  /\ voices' = IF voice_from_handle(h) THEN [voices EXCEPT ![h.slot].fading = TRUE] ELSE voices
  /\ stopped' = stopped \cup {h.play}
  /\ UNCHANGED <<voice_seq, buffers, forgotten, handles, call, musicVars, ringVars>>

\* audio_stop of all plays: voice_free of one slot after the other.
audio_stop_all(masked) ==
  /\ call = NoCall /\ pumps = {}
  /\ call' = [NoCall EXCEPT !.op = "stop", !.slot = 1, !.masked = masked]
  /\ UNCHANGED <<voices, voice_seq, buffers, forgotten, handles, stopped, musicVars, ringVars>>

voice_free_FreesFirst ==
  /\ call.op \in {"stop", "free"} /\ MainRuns
  /\ IF call.op = "stop"
     THEN /\ buffers' = buffers \ {voices[call.slot].pcm}
          /\ call' = [call EXCEPT !.op = "free"]
          /\ UNCHANGED voices
     ELSE /\ voices' = [voices EXCEPT ![call.slot].active = FALSE, ![call.slot].pcm = NoBuffer]
          /\ call' = IF call.slot = MAX_VOICES THEN NoCall ELSE [call EXCEPT !.op = "stop", !.slot = @ + 1]
          /\ UNCHANGED buffers
  /\ UNCHANGED <<voice_seq, forgotten, handles, stopped, musicVars, ringVars>>

\* Deactivate, then free.
voice_free ==
  /\ call.op \in {"stop", "free"} /\ MainRuns
  /\ IF call.op = "stop"
     THEN /\ voices' = [voices EXCEPT ![call.slot].active = FALSE]
          /\ call' = [call EXCEPT !.op = "free"]
          /\ UNCHANGED buffers
     ELSE /\ buffers' = buffers \ {voices[call.slot].pcm}
          /\ voices' = [voices EXCEPT ![call.slot].pcm = NoBuffer]
          /\ call' = IF call.slot = MAX_VOICES THEN NoCall ELSE [call EXCEPT !.op = "stop", !.slot = @ + 1]
  /\ UNCHANGED <<voice_seq, forgotten, handles, stopped, musicVars, ringVars>>

----------------------------------------------------------------------------
(* Streamed music, fed by system calls only.                               *)

Count == (music.head + CountMod - music.tail) % CountMod
audio_music_space == MUSIC_RING_FRAMES - Count

audio_music_start ==
  /\ call = NoCall /\ pumps = {}
  /\ music' = [music EXCEPT !.tail = music.head, !.on = TRUE]
  /\ stream' = <<>>
  /\ UNCHANGED <<voiceVars, ringVars>>

audio_music_stop ==
  /\ call = NoCall /\ pumps = {}
  /\ music' = [music EXCEPT !.head = music.tail, !.on = FALSE]
  /\ stream' = <<>>
  /\ UNCHANGED <<voiceVars, ringVars>>

audio_music_write_Overfills(frames) ==
  /\ call = NoCall /\ pumps = {}
  /\ music' = [music EXCEPT !.ring = [k \in DOMAIN @ |->
                   LET at == {i \in DOMAIN frames : (music.head + i - 1) % MUSIC_RING_FRAMES = k}
                   IN  IF at = {} THEN @[k] ELSE frames[CHOOSE i \in at : \A j \in at : i >= j]],
                 !.head = (@ + Len(frames)) % CountMod]
  /\ stream' = stream \o frames
  /\ UNCHANGED <<voiceVars, ringVars>>

\* As many of the frames as fit.
audio_music_write(frames) ==
  LET n == IF Len(frames) > audio_music_space THEN audio_music_space ELSE Len(frames)
  IN  /\ call = NoCall /\ pumps = {}
      /\ music' = [music EXCEPT !.ring = [k \in DOMAIN @ |->
                       LET at == {i \in 1 .. n : (music.head + i - 1) % MUSIC_RING_FRAMES = k}
                       IN  IF at = {} THEN @[k] ELSE frames[CHOOSE i \in at : TRUE]],
                     !.head = (@ + n) % CountMod]
      /\ stream' = stream \o SubSeq(frames, 1, n)
      /\ UNCHANGED <<voiceVars, ringVars>>

----------------------------------------------------------------------------
(* The pump.                                                               *)

\* voice_mix: the voice after one frame.
voice_mix(v) ==
  LET faded == IF v.fading THEN [v EXCEPT !.fade_q8 = @ - 1] ELSE v
  IN  IF v.fading /\ v.fade_q8 = 0 THEN [v EXCEPT !.active = FALSE]
      ELSE IF v.tone
      THEN [faded EXCEPT !.left = (@ + ToneMod - 1) % ToneMod, !.active = (v.left # 1)]
      ELSE IF v.pos >= v.left /\ ~v.loop
      THEN [faded EXCEPT !.active = FALSE]
      ELSE [faded EXCEPT !.pos = IF @ >= v.left THEN 1 ELSE @ + 1]

\* mix_period: every active voice moves on, and the music by the frame it pulls.
mix_period ==
  LET pull == music.on /\ music.tail # music.head
  IN  /\ voices' = [v \in Slots |-> IF voices[v].active THEN voice_mix(voices[v]) ELSE voices[v]]
      /\ music' = IF pull THEN [music EXCEPT !.tail = (@ + 1) % CountMod] ELSE music
      /\ stream' = IF pull /\ stream # <<>> THEN Tail(stream) ELSE stream

Ahead == (dev.wr + BDL_ENTRIES - dev.play) % BDL_ENTRIES
\* AC'97: wr is PO_LVI, the last period queued.  HDA: the next one to fill.
Target == IF dev.kind = "ac97" THEN (dev.wr + 1) % BDL_ENTRIES ELSE dev.wr

next_period == IF Ahead >= QUEUE \/ Target = dev.play THEN NoPeriod ELSE Target

audio_pump_NoGuard(c) ==
  /\ c \notin pumps /\ MainRuns
  /\ c = "isr" => ~call.masked
  /\ c = "idle" => call = NoCall
  /\ pumps' = pumps \cup {c} /\ hand' = [hand EXCEPT ![c] = next_period]
  /\ UNCHANGED <<voiceVars, musicVars, dev, filled, late>>

\* audio_pump up to the first next_period: from the completion interrupt (ac97_irq,
\* hda_irq), or from an idle loop.  Nobody else may be inside.
audio_pump(c) ==
  /\ pumps = {}
  /\ c = "isr" => ~call.masked
  /\ c = "idle" => call = NoCall
  /\ pumps' = {c} /\ hand' = [hand EXCEPT ![c] = next_period]
  /\ UNCHANGED <<voiceVars, musicVars, dev, filled, late>>

\* One turn of its loop: the period is mixed and queued.  The cursor may have moved
\* since next_period.
commit_period(c) ==
  /\ c \in pumps /\ (c = "idle" => MainRuns) /\ hand[c] # NoPeriod
  /\ mix_period
  /\ dev' = [dev EXCEPT !.wr = (@ + 1) % BDL_ENTRIES]
  /\ filled' = Append(filled, hand[c])
  /\ hand' = [hand EXCEPT ![c] = NoPeriod]
  /\ UNCHANGED <<voice_seq, buffers, forgotten, handles, stopped, call, pumps, late>>

Again(c) ==
  /\ c \in pumps /\ (c = "idle" => MainRuns) /\ hand[c] = NoPeriod
  /\ IF next_period = NoPeriod THEN pumps' = pumps \ {c} /\ UNCHANGED hand
                               ELSE hand' = [hand EXCEPT ![c] = next_period] /\ UNCHANGED pumps
  /\ UNCHANGED <<voiceVars, musicVars, dev, filled, late>>

\* The DMA engine begins the next period.  AC'97 stops at the last one queued; HDA goes
\* round for ever, over what it finds.
Play ==
  LET next == (dev.play + 1) % BDL_ENTRIES
  IN  /\ dev.kind = "ac97" => dev.play # dev.wr
      /\ dev' = [dev EXCEPT !.play = next]
      /\ late' = (late \/ (dev.kind = "hda" /\ next = dev.wr))
      /\ filled' = IF filled # <<>> /\ Head(filled) = next THEN Tail(filled) ELSE filled
      /\ UNCHANGED <<voiceVars, musicVars, pumps, hand>>

AudioStep ==
  \/ TakeSlot \/ Activate \/ voice_handle \/ voice_free
  \/ \E c \in {"idle", "isr"} : audio_pump(c) \/ commit_period(c) \/ Again(c)

\* The mixer with calls of any kind at any time.
AudioNext ==
  \/ AudioStep \/ Play
  \/ \E n \in Nat, masked \in BOOLEAN : audio_tone(n, masked)
  \/ \E n \in Nat, loop, masked \in BOOLEAN : audio_play_pcm(n, loop, masked)
  \/ \E h \in handles : audio_stop(h)
  \/ \E masked \in BOOLEAN : audio_stop_all(masked)
  \/ audio_music_start \/ audio_music_stop
  \/ \E frames \in Seq(Nat) : audio_music_write(frames)

AudioSpec == (\E kind \in {"ac97", "hda"} : AudioInit(kind)) /\ [][AudioNext]_audioVars

----------------------------------------------------------------------------
\* Whenever the interrupt may come, a sounding voice has a buffer of its own on
\* the heap; no buffer is freed twice or lost, except those a tone displaced
\* (voice_free, reap_finished) or whose play ended while the next call was between
\* reaping and taking the slot (audio_play_pcm); and only a play that was stopped
\* fades, however often its slot was used again (the generation in a handle),
\* until the generations wrap.
VoicesSound ==
  LET with == {v \in Slots : voices[v].pcm # NoBuffer}
  IN  /\ \A v \in Slots : voices[v].active /\ ~voices[v].tone => voices[v].pcm \in buffers
      /\ \A v, w \in with : v # w => voices[v].pcm # voices[w].pcm
      /\ buffers = {voices[v].pcm : v \in with} \cup forgotten
      /\ \A v \in Slots : voice_seq < GenMod /\ voices[v].active /\ voices[v].fading => voices[v].play \in stopped

\* Music comes out of the ring frame by frame as it went in, also when the
\* counters wrap and when a write does not fit (audio_music_write, mix_period).
\* The periods mixed are played in order and once, and none is mixed again
\* while it waits or plays, whichever of the interrupt and the idle loop mixes
\* (the guard in audio_pump, next_period); with HDA, until the play cursor has
\* once caught up with the mixer.
MusicExact ==
  /\ Count = Len(stream) /\ Count <= MUSIC_RING_FRAMES
  /\ \A i \in DOMAIN stream : music.ring[(music.tail + i - 1) % MUSIC_RING_FRAMES] = stream[i]
  /\ ~late => /\ \A i \in DOMAIN filled :
                   /\ filled[i] # dev.play
                   /\ i > 1 => filled[i] = (filled[i - 1] + 1) % BDL_ENTRIES
              /\ \A c \in pumps : hand[c] \notin {filled[i] : i \in DOMAIN filled} \cup {dev.play}

\* Voices and the music ring survive whatever the completion interrupt does
\* between two steps of a call.
MixerSound == VoicesSound /\ MusicExact
=============================================================================
