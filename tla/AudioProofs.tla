---------------------------- MODULE AudioProofs ----------------------------
(***************************************************************************)
(* The voices of the mixer are sound for any number of voices and any      *)
(* interleaving of calls, interrupts and idle pumps.  VoicesSound is not   *)
(* inductive: a call in progress has filled or deactivated its slot and    *)
(* not yet said so, and freeing needs to know that no other slot and no    *)
(* forgotten buffer is the one freed.  Nor is MusicExact: that the music   *)
(* comes out as it went in needs that the counters are apart by the length *)
(* of the stream although they wrap, and that the periods are mixed once   *)
(* needs where those handed out and those queued are from the cursor.      *)
(***************************************************************************)
EXTENDS AudioMixer, Integers, WellFoundedInduction, TLAPS

Voice == [active : BOOLEAN, tone : BOOLEAN, fading : BOOLEAN, fade_q8 : Int, loop : BOOLEAN,
          pcm : Nat, left : Nat, pos : Nat, gen : Nat, play : Nat]
Ops == {"none", "slot", "start", "handle", "stop", "free"}

TypeInv ==
  /\ voices \in [Slots -> Voice]
  /\ voice_seq \in Nat /\ buffers \subseteq Nat /\ forgotten \subseteq Nat
  /\ handles \subseteq [gen : Nat, slot : Slots, play : Nat]
  /\ call \in [op : Ops, slot : Nat, n : Nat, loop : BOOLEAN, masked : BOOLEAN]
  /\ call.op \in {"start", "handle", "stop", "free"} => call.slot \in Slots

\* The slot a call has filled and not yet given its generation.
Pending(v) == call.op \in {"start", "handle"} /\ v = call.slot

\* What a call in progress has done to its slot.
CallInv ==
  /\ call.op = "start" => /\ ~voices[call.slot].active /\ ~voices[call.slot].fading
                          /\ voices[call.slot].tone \/ voices[call.slot].pcm \in buffers
  /\ call.op = "free" => ~voices[call.slot].active

\* Buffers are numbered by plays, and every one has one owner.
HasBuffer == \A v \in Slots : voices[v].active /\ ~voices[v].tone => voices[v].pcm # NoBuffer
Owned == \A v \in Slots : voices[v].pcm # NoBuffer => voices[v].pcm \in buffers /\ voices[v].pcm \notin forgotten
OneOwner == \A v, w \in Slots : voices[v].pcm # NoBuffer /\ v # w => voices[v].pcm # voices[w].pcm
NoneLost == \A b \in buffers : b \in forgotten \/ \E v \in Slots : voices[v].pcm = b
Numbered ==
  /\ forgotten \subseteq buffers /\ NoBuffer \notin buffers
  /\ \A b \in buffers : b <= voice_seq + 1
  /\ call.op \notin {"start", "handle"} => \A b \in buffers : b <= voice_seq
BufferInv == HasBuffer /\ Owned /\ OneOwner /\ NoneLost /\ Numbered

\* Handles and slots agree on the play a generation stands for.
HandleInv ==
  /\ \A h \in handles : h.play <= voice_seq /\ h.gen = h.play % GenMod
  /\ \A v \in Slots : ~Pending(v) => voices[v].gen = voices[v].play /\ voices[v].play <= voice_seq
  /\ \A v \in Slots : Pending(v) => voices[v].play = voice_seq + 1
  /\ voice_seq < GenMod => \A v \in Slots : voices[v].active /\ voices[v].fading => voices[v].play \in stopped

IInv == TypeInv /\ CallInv /\ BufferInv /\ HandleInv

----------------------------------------------------------------------------
\* What a play number below the modulus stands for is the number itself.
LEMMA ModSmall == \A x \in Nat : x < GenMod => x % GenMod = x
  BY MixerAssumption

\* voice_mix moves a voice on and keeps its owner, buffer and handle; it may end
\* the voice and never starts one.
LEMMA MixKeeps ==
  ASSUME NEW v \in Voice
  PROVE  /\ voice_mix(v) \in Voice
         /\ voice_mix(v).pcm = v.pcm /\ voice_mix(v).tone = v.tone /\ voice_mix(v).play = v.play
         /\ voice_mix(v).gen = v.gen /\ voice_mix(v).fading = v.fading
         /\ voice_mix(v).active => v.active \/ v.tone
<1>. DEFINE faded == IF v.fading THEN [v EXCEPT !.fade_q8 = @ - 1] ELSE v
<1>1. /\ faded \in Voice /\ faded.pcm = v.pcm /\ faded.tone = v.tone /\ faded.play = v.play
      /\ faded.gen = v.gen /\ faded.fading = v.fading /\ faded.active = v.active
      /\ faded.left = v.left /\ faded.pos = v.pos
  BY DEF Voice
<1>2. (v.left + ToneMod - 1) % ToneMod \in Nat
  BY MixerAssumption DEF Voice
<1>. HIDE DEF faded
<1>3. CASE v.fading /\ v.fade_q8 = 0
  BY <1>3, Zenon DEF voice_mix, Voice
<1>4. CASE ~(v.fading /\ v.fade_q8 = 0) /\ v.tone
  <2>. DEFINE new == [faded EXCEPT !.left = (@ + ToneMod - 1) % ToneMod, !.active = (v.left # 1)]
  <2>1. voice_mix(v) = new
    BY <1>4, Zenon DEF voice_mix, faded
  <2>2. /\ new \in Voice /\ new.pcm = v.pcm /\ new.tone = v.tone /\ new.play = v.play
        /\ new.gen = v.gen /\ new.fading = v.fading
    BY <1>1, <1>2, Zenon DEF Voice
  <2>. QED BY <2>1, <2>2, <1>4, Zenon
<1>5. CASE ~(v.fading /\ v.fade_q8 = 0) /\ ~v.tone /\ v.pos >= v.left /\ ~v.loop
  <2>1. voice_mix(v) = [faded EXCEPT !.active = FALSE]
    BY <1>5, Zenon DEF voice_mix, faded
  <2>. QED BY <2>1, <1>1, ZenonT(60) DEF Voice
<1>6. CASE ~(v.fading /\ v.fade_q8 = 0) /\ ~v.tone /\ ~(v.pos >= v.left /\ ~v.loop)
  <2>1. voice_mix(v) = [faded EXCEPT !.pos = IF @ >= v.left THEN 1 ELSE @ + 1]
    BY <1>6, Zenon DEF voice_mix, faded
  <2>. QED BY <2>1, <1>1 DEF Voice
<1>. QED BY <1>3, <1>4, <1>5, <1>6, Zenon

\* At the start all slots are free and there is no buffer.
LEMMA InitInv == ASSUME NEW kind \in {"ac97", "hda"}, AudioInit(kind) PROVE IInv
<1>1. TypeInv
  BY MixerAssumption DEF AudioInit, TypeInv, Voice, NoBuffer, NoCall, Ops
<1>2. CallInv /\ BufferInv
  BY Zenon DEF AudioInit, CallInv, BufferInv, HasBuffer, Owned, OneOwner, NoneLost, Numbered, NoBuffer, NoCall
<1>3. HandleInv
  BY MixerAssumption DEF AudioInit, HandleInv, NoCall, Pending
<1>. QED BY <1>1, <1>2, <1>3, Zenon DEF IInv

----------------------------------------------------------------------------
\* FirstFree is a free slot when there is one.
LEMMA FirstFreeIsFree ==
  ASSUME TypeInv, Free # {}
  PROVE  FirstFree \in Slots /\ ~voices[FirstFree].active
<1>1. Free \subseteq Nat
  BY DEF Free, Slots
<1>. DEFINE R == {ss \in Nat \X Nat : ss[1] < ss[2]}
<1>2. IsWellFoundedOn(R, Nat)
  BY NatLessThanWellFounded, Zenon DEF OpToRel
<1>3. \A v, w \in Nat : ~(<<w, v>> \in R) => v <= w
  OBVIOUS
<1>. HIDE DEF R
<1>4. \E v \in Free : \A w \in Free : ~(<<w, v>> \in R)
  BY <1>1, <1>2, WFMin, Zenon
<1>. QED BY <1>1, <1>3, <1>4, Zenon DEF FirstFree, Free

\* A slot as Fill leaves it, and all others as they were.
LEMMA FillFacts ==
  ASSUME TypeInv, Free # {}, NEW n \in Nat, NEW loop \in BOOLEAN, NEW pcm \in Nat,
         voices' = [voices EXCEPT ![FirstFree] = Fill(n, loop, pcm)]
  PROVE  /\ voices' \in [Slots -> Voice]
         /\ \A v \in Slots : v # FirstFree => voices'[v] = voices[v]
         /\ ~voices'[FirstFree].active /\ ~voices'[FirstFree].fading
         /\ (voices'[FirstFree].tone <=> pcm = NoBuffer) /\ voices'[FirstFree].pcm = pcm
         /\ voices'[FirstFree].play = voice_seq + 1
<1>1. FirstFree \in Slots /\ ~voices[FirstFree].active
  BY FirstFreeIsFree, Zenon
<1>2. voices[FirstFree] \in Voice /\ voice_seq + 1 \in Nat
  BY <1>1 DEF TypeInv
<1>. DEFINE new == Fill(n, loop, pcm)
<1>3. /\ new \in Voice /\ ~new.active /\ ~new.fading /\ (new.tone <=> pcm = NoBuffer) /\ new.pcm = pcm
      /\ new.play = voice_seq + 1
  <2>. DEFINE b == pcm = NoBuffer
  <2>1. b \in BOOLEAN
    BY Zenon
  <2>2. new = [voices[FirstFree] EXCEPT !.tone = b, !.loop = loop, !.fading = FALSE, !.fade_q8 = FadeSteps,
                                        !.pcm = pcm, !.left = n, !.pos = 0, !.play = voice_seq + 1]
    BY Zenon DEF Fill
  <2>. DEFINE w == voices[FirstFree]
  <2>. HIDE DEF b, new, w
  <2>3. new = [active |-> w.active, tone |-> b, fading |-> FALSE, fade_q8 |-> FadeSteps, loop |-> loop,
               pcm |-> pcm, left |-> n, pos |-> 0, gen |-> w.gen, play |-> voice_seq + 1]
    BY <1>2, <2>2, Zenon DEF Voice, w
  <2>4. w.active \in BOOLEAN /\ ~w.active /\ w.gen \in Nat /\ FadeSteps \in Int /\ voice_seq + 1 \in Nat
    BY <1>1, <1>2, MixerAssumption DEF Voice, w
  <2>5. new \in Voice
    BY <2>1, <2>3, <2>4, Zenon DEF Voice
  <2>6. ~new.active /\ ~new.fading /\ (new.tone <=> b) /\ new.pcm = pcm /\ new.play = voice_seq + 1
    BY <2>3, <2>4, Zenon
  <2>. QED BY <2>5, <2>6, Zenon DEF b
<1>. HIDE DEF new
<1>4. voices' = [voices EXCEPT ![FirstFree] = new]
  BY Zenon DEF new
<1>. QED BY <1>1, <1>3, <1>4, Zenon DEF TypeInv

\* audio_tone: the buffer it displaces is forgotten.
LEMMA ToneStep ==
  ASSUME IInv, NEW n \in Nat, NEW masked \in BOOLEAN, audio_tone(n, masked)
  PROVE  IInv'
<1>. DEFINE s == FirstFree
<1>1. s \in Slots /\ ~voices[s].active
  BY FirstFreeIsFree, Zenon DEF IInv, audio_tone
<1>2. /\ voices' \in [Slots -> Voice]
      /\ \A v \in Slots : v # s => voices'[v] = voices[v]
      /\ ~voices'[s].active /\ ~voices'[s].fading /\ voices'[s].tone /\ voices'[s].pcm = NoBuffer
      /\ voices'[s].play = voice_seq + 1
  <2>1. /\ TypeInv /\ Free # {} /\ NoBuffer \in Nat /\ FALSE \in BOOLEAN
        /\ voices' = [voices EXCEPT ![FirstFree] = Fill(n, FALSE, NoBuffer)]
    BY Zenon DEF IInv, audio_tone, NoBuffer
  <2>. QED BY <2>1, FillFacts, Zenon
<1>3. /\ call'.op = "start" /\ call'.slot = s /\ call.op = "none"
      /\ call' \in [op : Ops, slot : Nat, n : Nat, loop : BOOLEAN, masked : BOOLEAN]
  <2>1. call' = [op |-> "start", slot |-> s, n |-> 0, loop |-> FALSE, masked |-> masked] /\ call = NoCall
    BY Zenon DEF audio_tone, Begin, NoCall
  <2>. QED BY <1>1, <2>1 DEF Ops, Slots, NoCall
<1>4. /\ voice_seq' = voice_seq /\ buffers' = buffers /\ handles' = handles /\ stopped' = stopped
      /\ forgotten' = forgotten \cup ({voices[s].pcm} \ {NoBuffer})
  BY Zenon DEF audio_tone
<1>. HIDE DEF s
<1>5. voices[s] \in Voice /\ voices[s].pcm \in Nat
  BY <1>1, Zenon DEF IInv, TypeInv, Voice
<1>6. TypeInv'
  BY <1>1, <1>2, <1>3, <1>4, <1>5, Zenon DEF IInv, TypeInv
<1>7. CallInv'
  BY <1>1, <1>2, <1>3, Zenon DEF CallInv
<1>8. BufferInv'
  <2>1. HasBuffer'
    BY <1>1, <1>2, <1>3, <1>4, <1>5, Zenon DEF IInv, TypeInv, BufferInv, HasBuffer, NoBuffer
  <2>2. Owned'
    BY <1>1, <1>2, <1>3, <1>4, <1>5 DEF IInv, TypeInv, BufferInv, Owned, Numbered, OneOwner, NoBuffer
  <2>3. OneOwner'
    BY <1>1, <1>2, <1>3, <1>4, <1>5 DEF IInv, TypeInv, BufferInv, OneOwner, Owned, Numbered, NoBuffer
  <2>4. NoneLost'
    BY <1>1, <1>2, <1>3, <1>4, <1>5 DEF IInv, TypeInv, BufferInv, NoneLost, Owned, Numbered, NoBuffer
  <2>5. Numbered'
    <3>1. {voices[s].pcm} \ {NoBuffer} \subseteq buffers
      BY <1>1, Zenon DEF IInv, BufferInv, Owned
    <3>2. forgotten' \subseteq buffers' /\ NoBuffer \notin buffers'
      BY <3>1, <1>1, <1>4, Zenon DEF IInv, BufferInv, Numbered
    <3>3. \A x \in buffers' : x <= voice_seq' + 1
      BY <1>1, <1>4, Zenon DEF IInv, TypeInv, BufferInv, Numbered
    <3>. QED BY <3>2, <3>3, <1>3, Zenon DEF Numbered
  <2>. QED BY <2>1, <2>2, <2>3, <2>4, <2>5, Zenon DEF BufferInv
<1>9. HandleInv'
  BY <1>1, <1>2, <1>3, <1>4 DEF IInv, HandleInv, Pending
<1>. QED BY <1>6, <1>7, <1>8, <1>9, Zenon DEF IInv

\* audio_play_pcm, the second half: a new buffer in the slot.
LEMMA SlotStep == ASSUME IInv, TakeSlot PROVE IInv'
<1>1. CASE Free = {}
  <2>1. /\ call' = NoCall /\ call.op = "slot"
        /\ UNCHANGED <<voices, voice_seq, buffers, forgotten, handles, stopped>>
    BY <1>1, Zenon DEF TakeSlot
  <2>2. call' \in [op : Ops, slot : Nat, n : Nat, loop : BOOLEAN, masked : BOOLEAN] /\ call'.op = "none"
    BY <2>1, Zenon DEF NoCall, Ops
  <2>. QED BY <2>1, <2>2 DEF IInv, TypeInv, CallInv, BufferInv, HasBuffer, Owned, OneOwner, NoneLost, Numbered,
                             HandleInv, Pending
<1>2. CASE Free # {}
  <2>. DEFINE s == FirstFree  b == voice_seq + 1
  <2>1. s \in Slots /\ ~voices[s].active /\ b \in Nat /\ b # NoBuffer
    BY <1>2, FirstFreeIsFree DEF IInv, TypeInv, NoBuffer
  <2>2. /\ voices' \in [Slots -> Voice]
        /\ \A v \in Slots : v # s => voices'[v] = voices[v]
        /\ ~voices'[s].active /\ ~voices'[s].fading /\ ~voices'[s].tone /\ voices'[s].pcm = b
        /\ voices'[s].play = voice_seq + 1
    <3>1. /\ TypeInv /\ call.n \in Nat /\ call.loop \in BOOLEAN
      BY Zenon DEF IInv, TypeInv
    <3>2. voices' = [voices EXCEPT ![FirstFree] = Fill(call.n, call.loop, b)]
      BY <1>2, Zenon DEF TakeSlot
    <3>. QED BY <1>2, <2>1, <3>1, <3>2, FillFacts, ZenonT(60)
  <2>3. /\ call'.op = "start" /\ call'.slot = s /\ call.op = "slot"
        /\ call' \in [op : Ops, slot : Nat, n : Nat, loop : BOOLEAN, masked : BOOLEAN]
    <3>1. call.masked \in BOOLEAN
      BY Zenon DEF IInv, TypeInv
    <3>2. /\ call' = [op |-> "start", slot |-> s, n |-> 0, loop |-> FALSE, masked |-> call.masked]
          /\ call.op = "slot"
      BY <1>2, Zenon DEF TakeSlot, Begin, NoCall
    <3>. QED BY <2>1, <3>1, <3>2 DEF Ops, Slots
  <2>4. /\ voice_seq' = voice_seq /\ handles' = handles /\ stopped' = stopped
        /\ buffers' = buffers \cup {b}
        /\ forgotten' = forgotten \cup ({voices[s].pcm} \ {NoBuffer})
    BY <1>2, Zenon DEF TakeSlot
  <2>5. voices[s] \in Voice /\ voices[s].pcm \in Nat
    BY <2>1, Zenon DEF IInv, TypeInv, Voice
  <2>6. \A x \in buffers : x <= voice_seq /\ x # b
    BY <2>3 DEF IInv, TypeInv, BufferInv, Numbered
  <2>. HIDE DEF s
  <2>7. TypeInv'
    BY <2>1, <2>2, <2>3, <2>4, <2>5, ZenonT(60) DEF IInv, TypeInv
  <2>8. CallInv'
    BY <2>1, <2>2, <2>3, <2>4, Zenon DEF CallInv
  <2>9. BufferInv'
    <3>1. HasBuffer'
      BY <2>1, <2>2, <2>3, <2>4, <2>5, <2>6, Zenon DEF IInv, TypeInv, BufferInv, HasBuffer, NoBuffer
    <3>2. Owned'
      BY <2>1, <2>2, <2>3, <2>4, <2>5, <2>6 DEF IInv, TypeInv, BufferInv, Owned, Numbered, OneOwner, NoBuffer
    <3>3. OneOwner'
      BY <2>1, <2>2, <2>3, <2>4, <2>5, <2>6 DEF IInv, TypeInv, BufferInv, OneOwner, Owned, Numbered, NoBuffer
    <3>4. NoneLost'
      BY <2>1, <2>2, <2>3, <2>4, <2>5, <2>6 DEF IInv, TypeInv, BufferInv, NoneLost, Owned, Numbered, NoBuffer
    <3>5. Numbered'
      <4>1. {voices[s].pcm} \ {NoBuffer} \subseteq buffers
        BY <2>1, Zenon DEF IInv, BufferInv, Owned
      <4>2. forgotten' \subseteq buffers' /\ NoBuffer \notin buffers'
        BY <4>1, <2>1, <2>4, Zenon DEF IInv, BufferInv, Numbered
      <4>3. \A x \in buffers' : x <= voice_seq' + 1
        BY <2>1, <2>4 DEF IInv, TypeInv, BufferInv, Numbered
      <4>. QED BY <4>2, <4>3, <2>3, Zenon DEF Numbered
    <3>. QED BY <3>1, <3>2, <3>3, <3>4, <3>5, Zenon DEF BufferInv
  <2>10. HandleInv'
    BY <2>1, <2>2, <2>3, <2>4, Zenon DEF IInv, HandleInv, Pending
  <2>. QED BY <2>7, <2>8, <2>9, <2>10, Zenon DEF IInv
<1>. QED BY <1>1, <1>2, Zenon
\* reap_finished frees the buffers of the free slots, which no other slot holds.
LEMMA ReapStep ==
  ASSUME IInv, NEW n \in Nat, NEW loop \in BOOLEAN, NEW masked \in BOOLEAN, audio_play_pcm(n, loop, masked)
  PROVE  IInv'
<1>1. /\ call.op = "none" /\ call'.op = "slot"
      /\ call' \in [op : Ops, slot : Nat, n : Nat, loop : BOOLEAN, masked : BOOLEAN]
  <2>1. call' = [op |-> "slot", slot |-> 0, n |-> n, loop |-> loop, masked |-> masked] /\ call = NoCall
    BY Zenon DEF audio_play_pcm, NoCall
  <2>. QED BY <2>1, Zenon DEF Ops, NoCall
<1>2. /\ voice_seq' = voice_seq /\ forgotten' = forgotten /\ handles' = handles /\ stopped' = stopped
      /\ buffers' = buffers \ {voices[v].pcm : v \in Free}
  BY Zenon DEF audio_play_pcm
<1>3. /\ voices' \in [Slots -> Voice]
      /\ \A v \in Slots : v \notin Free => voices'[v] = voices[v]
      /\ \A v \in Free : voices'[v] = [voices[v] EXCEPT !.pcm = NoBuffer]
  <2>1. \A v \in Slots : voices[v] \in Voice /\ [voices[v] EXCEPT !.pcm = NoBuffer] \in Voice
    BY DEF IInv, TypeInv, Voice, NoBuffer
  <2>. QED BY <2>1, Zenon DEF audio_play_pcm, Free
<1>4. \A v \in Free : /\ ~voices'[v].active /\ voices'[v].pcm = NoBuffer
                      /\ voices'[v].gen = voices[v].gen /\ voices'[v].play = voices[v].play
  BY <1>3 DEF IInv, TypeInv, Free, Voice
<1>5. TypeInv'
  BY <1>1, <1>2, <1>3, Zenon DEF IInv, TypeInv
<1>6. CallInv'
  BY <1>1, Zenon DEF CallInv
<1>7. BufferInv'
  <2>1. HasBuffer'
    BY <1>3, <1>4, Zenon DEF IInv, BufferInv, HasBuffer
  <2>2. Owned'
    BY <1>2, <1>3, <1>4 DEF IInv, BufferInv, Owned, OneOwner, Free
  <2>3. OneOwner'
    BY <1>3, <1>4 DEF IInv, BufferInv, OneOwner
  <2>4. NoneLost'
    BY <1>2, <1>3 DEF IInv, BufferInv, NoneLost
  <2>5. Numbered'
    <3>1. forgotten' \subseteq buffers'
      BY <1>2, Zenon DEF IInv, BufferInv, Numbered, Owned, Free
    <3>. QED BY <3>1, <1>1, <1>2, Zenon DEF IInv, BufferInv, Numbered
  <2>. QED BY <2>1, <2>2, <2>3, <2>4, <2>5, Zenon DEF BufferInv
<1>8. HandleInv'
  BY <1>1, <1>2, <1>3, <1>4 DEF IInv, HandleInv, Pending, Free
<1>. QED BY <1>5, <1>6, <1>7, <1>8, Zenon DEF IInv

\* A step that leaves every slot its buffer keeps the owners.
LEMMA SameOwners ==
  ASSUME BufferInv, buffers' = buffers, forgotten' = forgotten,
         \A v \in Slots : voices'[v].pcm = voices[v].pcm,
         \A v \in Slots : voices'[v].active /\ ~voices'[v].tone => voices[v].pcm # NoBuffer
  PROVE  HasBuffer' /\ Owned' /\ OneOwner' /\ NoneLost'
<1>1. HasBuffer'
  BY Zenon DEF HasBuffer
<1>2. Owned'
  BY Zenon DEF BufferInv, Owned
<1>3. OneOwner'
  BY Zenon DEF BufferInv, OneOwner
<1>4. NoneLost'
  BY Zenon DEF BufferInv, NoneLost
<1>. QED BY <1>1, <1>2, <1>3, <1>4, Zenon

\* The slot of a call becomes active with the buffer it was given.
LEMMA ActivateStep == ASSUME IInv, Activate PROVE IInv'
<1>. DEFINE s == call.slot
<1>1. s \in Slots /\ voices[s] \in Voice /\ call.op = "start"
  BY Zenon DEF IInv, TypeInv, Activate
<1>2. /\ call'.op = "handle" /\ call'.slot = s
      /\ call' \in [op : Ops, slot : Nat, n : Nat, loop : BOOLEAN, masked : BOOLEAN]
  BY Zenon DEF IInv, TypeInv, Activate, Ops
<1>3. /\ voice_seq' = voice_seq /\ forgotten' = forgotten /\ handles' = handles /\ stopped' = stopped
      /\ buffers' = buffers
  BY Zenon DEF Activate
<1>4. /\ voices' \in [Slots -> Voice]
      /\ \A v \in Slots : v # s => voices'[v] = voices[v]
      /\ voices'[s] = [voices[s] EXCEPT !.active = TRUE]
  <2>1. [voices[s] EXCEPT !.active = TRUE] \in Voice
    BY <1>1, Zenon DEF Voice
  <2>2. voices' = [voices EXCEPT ![s] = [voices[s] EXCEPT !.active = TRUE]]
    BY <1>1, Zenon DEF IInv, TypeInv, Activate
  <2>. QED BY <1>1, <2>1, <2>2, Zenon DEF IInv, TypeInv
<1>5. /\ voices'[s].pcm = voices[s].pcm /\ (voices'[s].tone <=> voices[s].tone)
      /\ ~voices'[s].fading /\ voices'[s].play = voices[s].play
      /\ voices[s].tone \/ voices[s].pcm \in buffers
  BY <1>1, <1>4, Zenon DEF IInv, CallInv, Voice
<1>. HIDE DEF s
<1>6. TypeInv'
  BY <1>1, <1>2, <1>3, <1>4, Zenon DEF IInv, TypeInv
<1>7. CallInv'
  BY <1>2, Zenon DEF CallInv
<1>8. BufferInv'
  <2>1. \A v \in Slots : /\ voices'[v].pcm = voices[v].pcm
                         /\ voices'[v].active /\ ~voices'[v].tone => voices[v].pcm # NoBuffer
    BY <1>4, <1>5, Zenon DEF IInv, BufferInv, HasBuffer, Numbered
  <2>2. Numbered'
    BY <1>2, <1>3, Zenon DEF IInv, BufferInv, Numbered
  <2>. QED BY <1>3, <2>1, <2>2, SameOwners, Zenon DEF IInv, BufferInv
<1>9. HandleInv'
  <2>1. \A v \in Slots : /\ Pending(v)' <=> v = s
                         /\ Pending(v) <=> v = s
    BY <1>1, <1>2, Zenon DEF Pending, s
  <2>2. \A v \in Slots : voices'[v].play = voices[v].play
    BY <1>4, <1>5, Zenon
  <2>3. \A v \in Slots : v # s => voices'[v].gen = voices'[v].play /\ voices'[v].play <= voice_seq'
    BY <1>3, <1>4, <2>1, Zenon DEF IInv, HandleInv
  <2>4. voice_seq' < GenMod => \A v \in Slots : voices'[v].active /\ voices'[v].fading => voices'[v].play \in stopped'
    BY <1>3, <1>4, <1>5, Zenon DEF IInv, HandleInv
  <2>. QED BY <1>3, <2>1, <2>2, <2>3, <2>4, Zenon DEF IInv, HandleInv
<1>. QED BY <1>6, <1>7, <1>8, <1>9, Zenon DEF IInv

\* voice_handle gives the slot the next generation.
LEMMA HandleStep == ASSUME IInv, voice_handle PROVE IInv'
<1>. DEFINE s == call.slot  b == voice_seq + 1
<1>1. s \in Slots /\ voices[s] \in Voice /\ call.op = "handle" /\ b \in Nat
  BY DEF IInv, TypeInv, voice_handle
<1>2. call'.op = "none" /\ call' \in [op : Ops, slot : Nat, n : Nat, loop : BOOLEAN, masked : BOOLEAN]
  BY Zenon DEF voice_handle, NoCall, Ops
<1>3. /\ voice_seq' = b /\ forgotten' = forgotten /\ stopped' = stopped /\ buffers' = buffers
      /\ handles' = handles \cup {[gen |-> b % GenMod, slot |-> s, play |-> b]}
  BY Zenon DEF voice_handle
<1>4. /\ voices' \in [Slots -> Voice]
      /\ \A v \in Slots : v # s => voices'[v] = voices[v]
      /\ voices'[s] = [voices[s] EXCEPT !.gen = b]
  <2>1. [voices[s] EXCEPT !.gen = b] \in Voice
    BY <1>1, Zenon DEF Voice
  <2>2. voices' = [voices EXCEPT ![s] = [voices[s] EXCEPT !.gen = b]]
    BY <1>1, Zenon DEF IInv, TypeInv, voice_handle
  <2>. QED BY <1>1, <2>1, <2>2, Zenon DEF IInv, TypeInv
<1>5. /\ voices'[s].pcm = voices[s].pcm /\ (voices'[s].tone <=> voices[s].tone)
      /\ (voices'[s].fading <=> voices[s].fading) /\ (voices'[s].active <=> voices[s].active)
      /\ voices'[s].play = voices[s].play /\ voices'[s].gen = b /\ voices[s].play = b
  BY <1>1, <1>4 DEF IInv, HandleInv, Pending, Voice
<1>6. b % GenMod \in Nat
  BY <1>1, MixerAssumption
<1>7. TypeInv'
  BY <1>1, <1>2, <1>3, <1>4, <1>6 DEF IInv, TypeInv
<1>8. CallInv'
  BY <1>2, Zenon DEF CallInv
<1>9. BufferInv'
  <2>1. \A v \in Slots : /\ voices'[v].pcm = voices[v].pcm
                         /\ voices'[v].active /\ ~voices'[v].tone => voices[v].pcm # NoBuffer
    BY <1>4, <1>5, Zenon DEF IInv, BufferInv, HasBuffer
  <2>2. Numbered'
    BY <1>2, <1>3 DEF IInv, TypeInv, BufferInv, Numbered
  <2>. QED BY <1>3, <2>1, <2>2, SameOwners, Zenon DEF IInv, BufferInv
<1>10. HandleInv'
  <2>1. \A h \in handles' : h.play <= voice_seq' /\ h.gen = h.play % GenMod
    BY <1>1, <1>3 DEF IInv, TypeInv, HandleInv
  <2>2. ASSUME NEW v \in Slots
        PROVE  voices'[v].gen = voices'[v].play /\ voices'[v].play <= voice_seq'
    <3>1. CASE v = s
      BY <3>1, <1>1, <1>3, <1>5
    <3>2. CASE v # s
      <4>1. voices[v].gen = voices[v].play /\ voices[v].play <= voice_seq /\ voices[v].play \in Nat
        BY <3>2, Zenon DEF IInv, TypeInv, HandleInv, Pending, Voice
      <4>. QED BY <4>1, <3>2, <1>3, <1>4 DEF IInv, TypeInv
    <3>. QED BY <3>1, <3>2, Zenon
  <2>3. ASSUME voice_seq' < GenMod, NEW v \in Slots, voices'[v].active, voices'[v].fading
        PROVE  voices'[v].play \in stopped'
    <3>1. voice_seq < GenMod
      BY <2>3, <1>3, MixerAssumption DEF IInv, TypeInv
    <3>2. voices[v].active /\ voices[v].fading /\ voices'[v].play = voices[v].play
      BY <2>3, <1>4, <1>5, Zenon
    <3>. QED BY <3>1, <3>2, <1>3, Zenon DEF IInv, HandleInv
  <2>. QED BY <2>1, <2>2, <2>3, <1>2, Zenon DEF HandleInv, Pending
<1>. QED BY <1>7, <1>8, <1>9, <1>10, Zenon DEF IInv

\* audio_stop of one play finds the slot only while it is of that play.
LEMMA StopStep == ASSUME IInv, NEW h \in handles, audio_stop(h) PROVE IInv'
<1>. DEFINE s == h.slot
<1>1. s \in Slots /\ voices[s] \in Voice /\ h.play \in Nat /\ call.op = "none"
  BY Zenon DEF IInv, TypeInv, audio_stop, NoCall
<1>2. /\ UNCHANGED <<voice_seq, buffers, forgotten, handles, call>>
      /\ stopped' = stopped \cup {h.play}
  BY Zenon DEF audio_stop
<1>3. CASE ~voice_from_handle(h)
  <2>1. voices' = voices
    BY <1>3, Zenon DEF audio_stop
  <2>. QED BY <1>2, <2>1, Zenon DEF IInv, TypeInv, CallInv, BufferInv, HasBuffer, Owned, OneOwner, NoneLost, Numbered,
                             HandleInv, Pending
<1>4. CASE voice_from_handle(h)
  <2>1. /\ voices' \in [Slots -> Voice]
        /\ \A v \in Slots : v # s => voices'[v] = voices[v]
        /\ voices'[s] = [voices[s] EXCEPT !.fading = TRUE]
    <3>1. [voices[s] EXCEPT !.fading = TRUE] \in Voice
      BY <1>1, Zenon DEF Voice
    <3>2. voices' = [voices EXCEPT ![s] = [voices[s] EXCEPT !.fading = TRUE]]
      BY <1>1, <1>4, Zenon DEF IInv, TypeInv, audio_stop
    <3>. QED BY <1>1, <3>1, <3>2, Zenon DEF IInv, TypeInv
  <2>2. /\ voices'[s].pcm = voices[s].pcm /\ (voices'[s].tone <=> voices[s].tone)
        /\ (voices'[s].active <=> voices[s].active)
        /\ voices'[s].play = voices[s].play /\ voices'[s].gen = voices[s].gen
    BY <1>1, <2>1 DEF Voice
  <2>3. voice_seq < GenMod => voices[s].play = h.play
    <3>1. /\ voices[s].gen = voices[s].play /\ voices[s].play <= voice_seq /\ voices[s].play \in Nat
          /\ h.play <= voice_seq /\ h.gen = h.play % GenMod /\ voice_seq \in Nat
      BY <1>1, Zenon DEF IInv, TypeInv, HandleInv, Pending, Voice
    <3>2. voices[s].gen % GenMod = h.gen
      BY <1>4, Zenon DEF voice_from_handle
    <3>3. voice_seq < GenMod => voices[s].play < GenMod /\ h.play < GenMod
      BY <1>1, <3>1, MixerAssumption
    <3>. QED BY <1>1, <3>1, <3>2, <3>3, ModSmall, Zenon
  <2>. HIDE DEF s
  <2>4. TypeInv' /\ CallInv'
    BY <1>1, <1>2, <2>1, Zenon DEF IInv, TypeInv, CallInv
  <2>5. \A v \in Slots : /\ voices'[v].pcm = voices[v].pcm
                         /\ voices'[v].active /\ ~voices'[v].tone => voices[v].pcm # NoBuffer
    BY <2>1, <2>2, Zenon DEF IInv, BufferInv, HasBuffer
  <2>6. BufferInv'
    <3>1. Numbered'
      BY <1>2, Zenon DEF IInv, BufferInv, Numbered
    <3>. QED BY <1>2, <2>5, <3>1, SameOwners, Zenon DEF IInv, BufferInv
  <2>7. HandleInv'
    BY <1>1, <1>2, <2>1, <2>2, <2>3, ZenonT(60) DEF IInv, HandleInv, Pending
  <2>. QED BY <2>4, <2>6, <2>7, Zenon DEF IInv
<1>. QED BY <1>3, <1>4, Zenon
\* audio_stop of all plays begins with the first slot.
LEMMA StopAllStep == ASSUME IInv, NEW masked \in BOOLEAN, audio_stop_all(masked) PROVE IInv'
<1>1. /\ call' = [op |-> "stop", slot |-> 1, n |-> 0, loop |-> FALSE, masked |-> masked] /\ call = NoCall
      /\ UNCHANGED <<voices, voice_seq, buffers, forgotten, handles, stopped>>
  BY Zenon DEF audio_stop_all, NoCall
<1>2. /\ call' \in [op : Ops, slot : Nat, n : Nat, loop : BOOLEAN, masked : BOOLEAN]
      /\ call'.op = "stop" /\ call'.slot \in Slots /\ call.op = "none"
  BY <1>1, MixerAssumption DEF NoCall, Ops, Slots
<1>3. TypeInv' /\ CallInv'
  BY <1>1, <1>2, SMTT(60) DEF IInv, TypeInv, CallInv
<1>4. BufferInv'
  BY <1>1, <1>2, SMTT(60) DEF IInv, BufferInv, HasBuffer, Owned, OneOwner, NoneLost, Numbered
<1>5. HandleInv'
  BY <1>1, <1>2, Zenon DEF IInv, HandleInv, Pending
<1>. QED BY <1>3, <1>4, <1>5, Zenon DEF IInv

\* voice_free deactivates the slot, and frees the buffer only then.
LEMMA FreeStep == ASSUME IInv, voice_free PROVE IInv'
<1>. DEFINE s == call.slot
<1>1. s \in Slots /\ voices[s] \in Voice /\ call.op \in {"stop", "free"}
  BY Zenon DEF IInv, TypeInv, voice_free
<1>2. UNCHANGED <<voice_seq, forgotten, handles, stopped>>
  BY Zenon DEF voice_free
<1>3. CASE call.op = "stop"
  <2>1. /\ voices' \in [Slots -> Voice] /\ buffers' = buffers
        /\ \A v \in Slots : v # s => voices'[v] = voices[v]
        /\ voices'[s] = [voices[s] EXCEPT !.active = FALSE]
    <3>1. [voices[s] EXCEPT !.active = FALSE] \in Voice
      BY <1>1, Zenon DEF Voice
    <3>2. voices' = [voices EXCEPT ![s] = [voices[s] EXCEPT !.active = FALSE]]
      BY <1>1, <1>3, Zenon DEF IInv, TypeInv, voice_free
    <3>. QED BY <1>1, <1>3, <3>1, <3>2, Zenon DEF IInv, TypeInv, voice_free
  <2>2. /\ voices'[s].pcm = voices[s].pcm /\ ~voices'[s].active
        /\ voices'[s].play = voices[s].play /\ voices'[s].gen = voices[s].gen
    BY <1>1, <2>1, Zenon DEF Voice
  <2>3. /\ call'.op = "free" /\ call'.slot = s
        /\ call' \in [op : Ops, slot : Nat, n : Nat, loop : BOOLEAN, masked : BOOLEAN]
    BY <1>3, Zenon DEF IInv, TypeInv, voice_free, Ops
  <2>. HIDE DEF s
  <2>4. TypeInv' /\ CallInv'
    BY <1>1, <1>2, <2>1, <2>2, <2>3, Zenon DEF IInv, TypeInv, CallInv
  <2>5. BufferInv'
    <3>1. \A v \in Slots : /\ voices'[v].pcm = voices[v].pcm
                           /\ voices'[v].active /\ ~voices'[v].tone => voices[v].pcm # NoBuffer
      BY <2>1, <2>2, Zenon DEF IInv, BufferInv, HasBuffer
    <3>2. Numbered'
      BY <1>2, <1>3, <2>1, <2>3, Zenon DEF IInv, BufferInv, Numbered
    <3>. QED BY <1>2, <2>1, <3>1, <3>2, SameOwners, Zenon DEF IInv, BufferInv
  <2>6. HandleInv'
    <3>1. \A v \in Slots : /\ voices'[v].gen = voices[v].gen /\ voices'[v].play = voices[v].play
                           /\ voices'[v].active => voices'[v] = voices[v]
      BY <2>1, <2>2, Zenon
    <3>2. call.op \notin {"start", "handle"} /\ call'.op \notin {"start", "handle"}
      BY <1>3, <2>3, Zenon
    <3>. QED BY <1>2, <3>1, <3>2, Zenon DEF IInv, HandleInv, Pending
  <2>. QED BY <2>4, <2>5, <2>6, Zenon DEF IInv
<1>4. CASE call.op = "free"
  <2>1. /\ voices' \in [Slots -> Voice]
        /\ \A v \in Slots : v # s => voices'[v] = voices[v]
        /\ voices'[s] = [voices[s] EXCEPT !.pcm = NoBuffer]
    <3>1. [voices[s] EXCEPT !.pcm = NoBuffer] \in Voice
      BY <1>1, Zenon DEF Voice, NoBuffer
    <3>2. voices' = [voices EXCEPT ![s] = [voices[s] EXCEPT !.pcm = NoBuffer]]
      BY <1>1, <1>4, Zenon DEF IInv, TypeInv, voice_free
    <3>. QED BY <1>1, <3>1, <3>2, Zenon DEF IInv, TypeInv
  <2>2. /\ voices'[s].pcm = NoBuffer /\ ~voices'[s].active
        /\ voices'[s].play = voices[s].play /\ voices'[s].gen = voices[s].gen
        /\ buffers' = buffers \ {voices[s].pcm}
    BY <1>1, <1>4, <2>1, Zenon DEF IInv, CallInv, Voice, voice_free
  <2>3. /\ call'.op \in {"none", "stop"} /\ (call'.op = "stop" => call'.slot \in Slots)
        /\ call' \in [op : Ops, slot : Nat, n : Nat, loop : BOOLEAN, masked : BOOLEAN]
    <3>1. CASE s = MAX_VOICES
      <4>1. call' = NoCall
        BY <1>4, <3>1, Zenon DEF voice_free
      <4>. QED BY <4>1, Zenon DEF NoCall, Ops
    <3>2. CASE s # MAX_VOICES
      <4>1. s + 1 \in Slots /\ s + 1 \in Nat
        BY <1>1, <3>2, MixerAssumption DEF Slots
      <4>2. call' = [call EXCEPT !.op = "stop", !.slot = s + 1]
        BY <1>4, <3>2, Zenon DEF voice_free
      <4>3. call \in [op : Ops, slot : Nat, n : Nat, loop : BOOLEAN, masked : BOOLEAN]
        BY Zenon DEF IInv, TypeInv
      <4>4. call'.op = "stop" /\ call'.slot = s + 1
        BY <4>2, <4>3, Zenon
      <4>5. call' \in [op : Ops, slot : Nat, n : Nat, loop : BOOLEAN, masked : BOOLEAN]
        BY <4>1, <4>2, <4>3, Zenon DEF Ops
      <4>. QED BY <4>1, <4>4, <4>5, Zenon
    <3>. QED BY <3>1, <3>2, Zenon
  <2>. HIDE DEF s
  <2>4. TypeInv' /\ CallInv'
    BY <1>2, <2>1, <2>2, <2>3, Zenon DEF IInv, TypeInv, CallInv
  <2>5. HasBuffer' /\ OneOwner'
    <3>1. HasBuffer'
      BY <2>1, <2>2, Zenon DEF IInv, BufferInv, HasBuffer
    <3>2. OneOwner'
      <4>1. SUFFICES ASSUME NEW v \in Slots, NEW w \in Slots, voices'[v].pcm # NoBuffer, v # w
                     PROVE  voices'[v].pcm # voices'[w].pcm
        BY Zenon DEF OneOwner
      <4>2. v # s /\ voices'[v].pcm = voices[v].pcm
        BY <4>1, <2>1, <2>2, Zenon
      <4>3. CASE w = s
        BY <4>1, <4>3, <2>2, Zenon
      <4>4. CASE w # s
        BY <4>1, <4>2, <4>4, <2>1, Zenon DEF IInv, BufferInv, OneOwner
      <4>. QED BY <4>3, <4>4, Zenon
    <3>. QED BY <3>1, <3>2, Zenon
  <2>6. Owned'
    <3>1. SUFFICES ASSUME NEW v \in Slots, voices'[v].pcm # NoBuffer
                   PROVE  voices'[v].pcm \in buffers' /\ voices'[v].pcm \notin forgotten'
      BY Zenon DEF Owned
    <3>2. v # s /\ voices'[v].pcm = voices[v].pcm
      BY <3>1, <2>1, <2>2, Zenon
    <3>. QED BY <3>1, <3>2, <1>1, <1>2, <2>2, Zenon DEF IInv, BufferInv, Owned, OneOwner
  <2>7. NoneLost'
    <3>1. SUFFICES ASSUME NEW b \in buffers', b \notin forgotten' PROVE \E v \in Slots : voices'[v].pcm = b
      BY Zenon DEF NoneLost
    <3>2. PICK v \in Slots : voices[v].pcm = b
      BY <3>1, <1>2, <2>2, Zenon DEF IInv, BufferInv, NoneLost
    <3>3. v # s
      BY <3>1, <3>2, <2>2, Zenon
    <3>. QED BY <3>2, <3>3, <2>1, Zenon
  <2>8. Numbered'
    <3>1. forgotten' \subseteq buffers'
      BY <1>1, <1>2, <2>2, Zenon DEF IInv, BufferInv, Owned, Numbered
    <3>. QED BY <3>1, <1>2, <1>4, <2>2, <2>3, Zenon DEF IInv, BufferInv, Numbered
  <2>9. HandleInv'
    <3>1. \A v \in Slots : /\ voices'[v].gen = voices[v].gen /\ voices'[v].play = voices[v].play
                           /\ voices'[v].active => voices'[v] = voices[v]
      BY <2>1, <2>2, ZenonT(60)
    <3>2. call.op \notin {"start", "handle"} /\ call'.op \notin {"start", "handle"}
      BY <1>4, <2>3, Zenon
    <3>. QED BY <1>2, <3>1, <3>2, Zenon DEF IInv, HandleInv, Pending
  <2>. QED BY <2>4, <2>5, <2>6, <2>7, <2>8, <2>9, Zenon DEF IInv, BufferInv
<1>. QED BY <1>1, <1>3, <1>4, Zenon

\* The pump moves the voices on, also in the middle of a call.
LEMMA MixStep == ASSUME IInv, NEW c, commit_period(c) PROVE IInv'
<1>1. /\ voices' = [v \in Slots |-> IF voices[v].active THEN voice_mix(voices[v]) ELSE voices[v]]
      /\ UNCHANGED <<voice_seq, buffers, forgotten, handles, stopped, call>>
  BY Zenon DEF commit_period, mix_period
<1>2. \A v \in Slots :
        /\ voices'[v] \in Voice
        /\ voices'[v].pcm = voices[v].pcm /\ (voices'[v].tone <=> voices[v].tone)
        /\ (voices'[v].fading <=> voices[v].fading) /\ voices'[v].play = voices[v].play
        /\ voices'[v].gen = voices[v].gen /\ (voices'[v].active => voices[v].active)
  <2>1. \A v \in Slots : voices[v] \in Voice
    BY Zenon DEF IInv, TypeInv
  <2>. QED BY <1>1, <2>1, MixKeeps, Zenon
<1>3. TypeInv'
  BY <1>1, <1>2, Zenon DEF IInv, TypeInv
<1>4. CallInv'
  BY <1>1, <1>2, Zenon DEF IInv, TypeInv, CallInv
<1>5. BufferInv'
  <2>1. \A v \in Slots : /\ voices'[v].pcm = voices[v].pcm
                         /\ voices'[v].active /\ ~voices'[v].tone => voices[v].pcm # NoBuffer
    BY <1>2, Zenon DEF IInv, BufferInv, HasBuffer
  <2>2. Numbered'
    BY <1>1, SMTT(60) DEF IInv, BufferInv, Numbered
  <2>. QED BY <1>1, <2>1, <2>2, SameOwners, Zenon DEF IInv, BufferInv
<1>6. HandleInv'
  BY <1>1, <1>2, SMTT(60) DEF IInv, HandleInv, Pending
<1>. QED BY <1>3, <1>4, <1>5, <1>6, Zenon DEF IInv

\* Everything else leaves the voices alone.
LEMMA OtherStep == ASSUME IInv, UNCHANGED voiceVars PROVE IInv'
  BY Zenon DEF voiceVars, IInv, TypeInv, CallInv, BufferInv, HasBuffer, Owned, OneOwner, NoneLost, Numbered, HandleInv,
         Pending

----------------------------------------------------------------------------
LEMMA StepInv == ASSUME IInv, [AudioNext]_audioVars PROVE IInv'
<1>1. CASE TakeSlot
  BY <1>1, SlotStep, Zenon
<1>2. CASE Activate
  BY <1>2, ActivateStep, Zenon
<1>3. CASE voice_handle
  BY <1>3, HandleStep, Zenon
<1>4. CASE voice_free
  BY <1>4, FreeStep, Zenon
<1>5. ASSUME NEW c \in {"idle", "isr"}, audio_pump(c) \/ Again(c) PROVE IInv'
  BY <1>5, OtherStep, Zenon DEF audio_pump, Again
<1>6. ASSUME NEW c \in {"idle", "isr"}, commit_period(c) PROVE IInv'
  BY <1>6, MixStep, Zenon
<1>7. CASE Play
  BY <1>7, OtherStep, Zenon DEF Play
<1>8. ASSUME NEW n \in Nat, NEW masked \in BOOLEAN, audio_tone(n, masked) PROVE IInv'
  BY <1>8, ToneStep, Zenon
<1>9. ASSUME NEW n \in Nat, NEW loop \in BOOLEAN, NEW masked \in BOOLEAN, audio_play_pcm(n, loop, masked) PROVE IInv'
  BY <1>9, ReapStep, Zenon
<1>10. ASSUME NEW h \in handles, audio_stop(h) PROVE IInv'
  BY <1>10, StopStep, Zenon
<1>11. ASSUME NEW masked \in BOOLEAN, audio_stop_all(masked) PROVE IInv'
  BY <1>11, StopAllStep, Zenon
<1>12. CASE audio_music_start \/ audio_music_stop
  BY <1>12, OtherStep, Zenon DEF audio_music_start, audio_music_stop
<1>13. ASSUME NEW frames \in Seq(Nat), audio_music_write(frames) PROVE IInv'
  <2>1. UNCHANGED voiceVars
    BY <1>13, Zenon DEF audio_music_write
  <2>. QED BY <2>1, OtherStep, Zenon
<1>14. CASE UNCHANGED audioVars
  BY <1>14, OtherStep, SMTT(60) DEF audioVars
<1>. QED BY <1>1, <1>2, <1>3, <1>4, <1>5, <1>6, <1>7, <1>8, <1>9, <1>10, <1>11, <1>12, <1>13, <1>14, Zenon
         DEF AudioNext, AudioStep

\* The invariant says what is wanted of the voices.
LEMMA InvSound == ASSUME IInv PROVE VoicesSound
<1>1. \A v \in Slots : voices[v].active /\ ~voices[v].tone => voices[v].pcm \in buffers
  BY Zenon DEF IInv, BufferInv, HasBuffer, Owned
<1>2. \A v, w \in Slots : voices[v].pcm # NoBuffer /\ v # w => voices[v].pcm # voices[w].pcm
  BY Zenon DEF IInv, BufferInv, OneOwner
<1>3. buffers = {voices[v].pcm : v \in {w \in Slots : voices[w].pcm # NoBuffer}} \cup forgotten
  BY Zenon DEF IInv, BufferInv, Owned, NoneLost, Numbered
<1>4. \A v \in Slots : voice_seq < GenMod /\ voices[v].active /\ voices[v].fading => voices[v].play \in stopped
  BY Zenon DEF IInv, HandleInv
<1>. QED BY <1>1, <1>2, <1>3, <1>4, Zenon DEF VoicesSound

\* Whatever calls are made and whenever the completion interrupt and the idle
\* loop pump, a sounding voice has a buffer of its own, no buffer is freed twice
\* or lost but those that were forgotten, and until the generations wrap a
\* handle stops its own play only: for any number of voices and generations.
THEOREM VoicesTheorem == AudioSpec => []VoicesSound
<1>1. (\E kind \in {"ac97", "hda"} : AudioInit(kind)) => IInv
  BY InitInv, Zenon
<1>2. IInv /\ [AudioNext]_audioVars => IInv'
  BY StepInv, Zenon
<1>3. IInv => VoicesSound
  BY InvSound, Zenon
<1>. QED BY <1>1, <1>2, <1>3, PTL DEF AudioSpec

----------------------------------------------------------------------------
(* The music.                                                              *)

\* A remainder, from the quotient it goes with.
LEMMA Remainder ==
  ASSUME NEW m \in Nat \ {0}, NEW q \in Int, NEW r \in 0 .. m - 1
  PROVE  (q * m + r) % m = r
  BY SMTT(30)

\* What division says.
LEMMA Divides ==
  ASSUME NEW m \in Nat \ {0}, NEW a \in Nat
  PROVE  (a % m) \in 0 .. m - 1 /\ (a \div m) \in Int /\ a = (a \div m) * m + (a % m)
  OBVIOUS

\* Numbers less than m apart are different modulo m.
LEMMA Apart ==
  ASSUME NEW m \in Nat \ {0}, NEW a \in Nat, NEW b \in Nat, a < b, b < a + m
  PROVE  (a % m) # (b % m)
  <1>. DEFINE q == a \div m
              p == b \div m
  <1>1. /\ a = q * m + (a % m) /\ b = p * m + (b % m) /\ q \in Int /\ p \in Int
        /\ (a % m) \in Int /\ (b % m) \in Int
    BY Divides
  <1>. HIDE DEF q, p
  <1>2. CASE q >= p
    <2>1. p * m <= q * m
      BY <1>1, <1>2
    <2>. QED BY <1>1, <2>1
  <1>3. CASE q + 1 <= p
    <2>1. (q + 1) * m <= p * m
      BY <1>1, <1>3
    <2>. QED BY <1>1, <2>1
  <1> QED BY <1>1, <1>2, <1>3

\* A counter that wraps at a multiple of m points to the place modulo m where one that
\* does not wrap would.
LEMMA Wraps ==
  ASSUME NEW m \in Nat \ {0}, NEW c \in Nat \ {0}, (c % m) = 0, NEW a \in Nat, NEW b \in Nat
  PROVE  (((a % c) + b) % m) = ((a + b) % m)
  <1>. DEFINE q == a \div c
              k == c \div m
              x == (a % c) + b
              p == x \div m
  <1>1. a = q * c + (a % c) /\ q \in Int /\ (a % c) \in 0 .. c - 1
    BY Divides
  <1>2. c = k * m /\ k \in Int
    BY Divides
  <1>3. x \in Nat
    BY <1>1
  <1>4. x = p * m + (x % m) /\ p \in Int /\ (x % m) \in 0 .. m - 1
    BY <1>3, Divides
  <1>5. a + b = q * c + x
    BY <1>1
  <1>. HIDE DEF q, k, x, p
  <1>6. q * c = (q * k) * m
    BY <1>1, <1>2
  <1>7. a + b = (q * k + p) * m + (x % m)
    BY <1>1, <1>2, <1>4, <1>5, <1>6
  <1>8. q * k + p \in Int
    BY <1>1, <1>2, <1>4
  <1>. DEFINE z == q * k + p
              r == x % m
  <1>. HIDE DEF z, r
  <1>9. ((z * m + r) % m) = r
    BY <1>4, <1>8, Remainder, Zenon DEF z, r
  <1>10. ((a + b) % m) = (x % m)
    BY <1>7, <1>9, Zenon DEF z, r
  <1>. QED BY <1>10, Zenon DEF x

\* The music ring holds the stream from its tail on.
MusicInv ==
  /\ music \in [ring : [0 .. MUSIC_RING_FRAMES - 1 -> Nat], head : 0 .. CountMod - 1,
                tail : 0 .. CountMod - 1, on : BOOLEAN]
  /\ stream \in Seq(Nat) /\ Len(stream) <= MUSIC_RING_FRAMES
  /\ music.head = ((music.tail + Len(stream)) % CountMod)
  /\ \A i \in 1 .. Len(stream) : music.ring[(music.tail + (i - 1)) % MUSIC_RING_FRAMES] = stream[i]

\* The counters are apart by the length of the stream.
LEMMA CountIs ==
  ASSUME NEW t \in 0 .. CountMod - 1, NEW h, NEW n \in 0 .. MUSIC_RING_FRAMES, h = ((t + n) % CountMod)
  PROVE  /\ h \in 0 .. CountMod - 1 /\ h = (IF t + n < CountMod THEN t + n ELSE t + n - CountMod)
         /\ ((h + CountMod - t) % CountMod) = n
         /\ t = h <=> n = 0
  <1>1. CountMod \in Nat /\ n < CountMod
    BY MixerAssumption
  <1>2. h \in 0 .. CountMod - 1 /\ h = (IF t + n < CountMod THEN t + n ELSE t + n - CountMod)
    BY <1>1
  <1>3. h + CountMod - t = n + CountMod \/ h + CountMod - t = n
    BY <1>1, <1>2
  <1>4. ((n + CountMod) % CountMod) = n /\ (n % CountMod) = n
    BY <1>1
  <1>5. t = h <=> n = 0
    BY <1>1, <1>2
  <1>. QED BY <1>2, <1>3, <1>4, <1>5, Zenon

\* Count is the length of the stream.
LEMMA MusicCount ==
  ASSUME MusicInv
  PROVE  Count = Len(stream) /\ (music.tail = music.head <=> stream = << >>)
  <1>1. Len(stream) \in 0 .. MUSIC_RING_FRAMES /\ (stream = << >> <=> Len(stream) = 0)
    BY MixerAssumption DEF MusicInv
  <1>2. music.tail \in 0 .. CountMod - 1 /\ music.head = ((music.tail + Len(stream)) % CountMod)
    BY Zenon DEF MusicInv
  <1>. DEFINE t == music.tail
              h == music.head
              n == Len(stream)
  <1>. HIDE DEF t, h, n
  <1>3. t \in 0 .. CountMod - 1 /\ n \in 0 .. MUSIC_RING_FRAMES /\ h = ((t + n) % CountMod)
    BY <1>1, <1>2, Zenon DEF t, h, n
  <1>4. ((h + CountMod - t) % CountMod) = n /\ (t = h <=> n = 0)
    BY <1>3, CountIs
  <1>. QED BY <1>1, <1>4, Zenon DEF Count, t, h, n

\* Before the first start there is no music, and the counters are about to wrap.
LEMMA MusicInit == ASSUME NEW kind, AudioInit(kind) PROVE MusicInv
  <1>. DEFINE ring == [k \in 0 .. MUSIC_RING_FRAMES - 1 |-> 0]
              last == CountMod - 1
  <1>1. /\ stream = << >> /\ music = [ring |-> ring, head |-> last, tail |-> last, on |-> FALSE]
        /\ ring \in [0 .. MUSIC_RING_FRAMES - 1 -> Nat]
    BY MixerAssumption DEF AudioInit
  <1>. HIDE DEF ring
  <1>2. /\ last \in 0 .. CountMod - 1 /\ last = ((last + 0) % CountMod)
        /\ Len(<< >>) = 0 /\ << >> \in Seq(Nat) /\ 0 <= MUSIC_RING_FRAMES /\ 1 .. 0 = {}
    BY MixerAssumption
  <1>. HIDE DEF last
  <1>3. /\ music \in [ring : [0 .. MUSIC_RING_FRAMES - 1 -> Nat], head : 0 .. CountMod - 1,
                      tail : 0 .. CountMod - 1, on : BOOLEAN]
        /\ music.head = last /\ music.tail = last
    BY <1>1, <1>2, Zenon
  <1>. QED BY <1>1, <1>2, <1>3, Zenon DEF MusicInv

\* audio_music_start and audio_music_stop leave an empty ring.
LEMMA MusicEmpties ==
  ASSUME MusicInv, audio_music_start \/ audio_music_stop PROVE MusicInv'
  <1>1. PICK at \in {music.head, music.tail}, on \in BOOLEAN :
          music' = [music EXCEPT !.tail = at, !.head = at, !.on = on] /\ stream' = << >>
    <2>1. CASE audio_music_start
      <3>1. music' = [music EXCEPT !.tail = music.head, !.head = music.head, !.on = TRUE]
        BY <2>1 DEF audio_music_start, MusicInv
      <3>. QED BY <2>1, <3>1, Zenon DEF audio_music_start
    <2>2. CASE audio_music_stop
      <3>1. music' = [music EXCEPT !.tail = music.tail, !.head = music.tail, !.on = FALSE]
        BY <2>2 DEF audio_music_stop, MusicInv
      <3>. QED BY <2>2, <3>1, Zenon DEF audio_music_stop
    <2>. QED BY <2>1, <2>2, Zenon
  <1>2. at \in 0 .. CountMod - 1
    BY Zenon DEF MusicInv
  <1>3. /\ at = ((at + 0) % CountMod) /\ 1 .. 0 = {} /\ 0 <= MUSIC_RING_FRAMES
        /\ Len(<< >>) = 0 /\ << >> \in Seq(Nat)
    BY <1>2, MixerAssumption
  <1>4. /\ music' \in [ring : [0 .. MUSIC_RING_FRAMES - 1 -> Nat], head : 0 .. CountMod - 1,
                       tail : 0 .. CountMod - 1, on : BOOLEAN]
        /\ music'.head = at /\ music'.tail = at
    BY <1>1, <1>2, Zenon DEF MusicInv
  <1>. QED BY <1>1, <1>3, <1>4, Zenon DEF MusicInv

\* The same for the two moduli of the music, the counters' and the ring's.
LEMMA WrapsAt ==
  ASSUME NEW m \in {CountMod, MUSIC_RING_FRAMES}, NEW a \in Nat, NEW b \in Nat
  PROVE  (((a % CountMod) + b) % m) = ((a + b) % m)
  <1>1. m \in Nat \ {0} /\ CountMod \in Nat \ {0} /\ (CountMod % m) = 0
    BY MixerAssumption
  <1>2. \A x, y \in Nat : (((x % CountMod) + y) % m) = ((x + y) % m)
    BY <1>1, Wraps, Zenon
  <1>. QED BY <1>2, Zenon

\* One frame further on, the counters and the places in the ring are the same.
LEMMA OneOn ==
  ASSUME NEW t \in 0 .. CountMod - 1, NEW n \in 1 .. MUSIC_RING_FRAMES
  PROVE  /\ ((t + 1) % CountMod) \in 0 .. CountMod - 1 /\ n - 1 <= MUSIC_RING_FRAMES
         /\ ((t + n) % CountMod) = ((((t + 1) % CountMod) + (n - 1)) % CountMod)
         /\ \A i \in 1 .. n - 1 :
              /\ i + 1 \in 1 .. n
              /\ ((((t + 1) % CountMod) + (i - 1)) % MUSIC_RING_FRAMES) = ((t + ((i + 1) - 1)) % MUSIC_RING_FRAMES)
  <1>1. CountMod \in Nat \ {0} /\ MUSIC_RING_FRAMES \in Nat \ {0} /\ t \in Nat /\ t + 1 \in Nat
    BY MixerAssumption
  <1>2. /\ ((t + 1) % CountMod) \in 0 .. CountMod - 1 /\ (CountMod % CountMod) = 0 /\ n - 1 <= MUSIC_RING_FRAMES
    BY <1>1
  <1>3. n - 1 \in Nat /\ (t + 1) + (n - 1) = t + n
    BY <1>1
  <1>4. ((t + n) % CountMod) = ((((t + 1) % CountMod) + (n - 1)) % CountMod)
    <2>1. ((((t + 1) % CountMod) + (n - 1)) % CountMod) = (((t + 1) + (n - 1)) % CountMod)
      BY <1>1, <1>3, WrapsAt, Zenon
    <2>. QED BY <1>3, <2>1, Zenon
  <1>5. ASSUME NEW i \in 1 .. n - 1
        PROVE  /\ i + 1 \in 1 .. n
               /\ ((((t + 1) % CountMod) + (i - 1)) % MUSIC_RING_FRAMES) = ((t + ((i + 1) - 1)) % MUSIC_RING_FRAMES)
    <2>1. i + 1 \in 1 .. n /\ i - 1 \in Nat /\ (t + 1) + (i - 1) = t + ((i + 1) - 1)
      BY <1>1
    <2>2. (CountMod % MUSIC_RING_FRAMES) = 0
      BY MixerAssumption, Zenon
    <2>3. ((((t + 1) % CountMod) + (i - 1)) % MUSIC_RING_FRAMES) = (((t + 1) + (i - 1)) % MUSIC_RING_FRAMES)
      BY <1>1, <2>1, WrapsAt, Zenon
    <2>. QED BY <2>1, <2>3, Zenon
  <1>. QED BY <1>2, <1>4, <1>5, Zenon

\* mix_period pulls the frame at the tail.
LEMMA MusicPull == ASSUME MusicInv, mix_period PROVE MusicInv'
  <1>. DEFINE n == Len(stream)
              t == music.tail
              R == MUSIC_RING_FRAMES
  <1>1. CASE ~(music.on /\ music.tail # music.head)
    BY <1>1, Zenon DEF mix_period, MusicInv
  <1>2. CASE music.on /\ music.tail # music.head
    <2>1. /\ music' = [music EXCEPT !.tail = (@ + 1) % CountMod] /\ stream # << >> /\ stream' = Tail(stream)
      BY <1>2, MusicCount, Zenon DEF mix_period
    <2>2. /\ Tail(stream) \in Seq(Nat) /\ Len(Tail(stream)) = n - 1 /\ n \in Nat /\ n >= 1
          /\ \A i \in 1 .. n - 1 : Tail(stream)[i] = stream[i + 1]
      BY <2>1 DEF MusicInv
    <2>3. /\ t \in 0 .. CountMod - 1 /\ music.head = ((t + n) % CountMod) /\ n <= R
          /\ music.ring \in [0 .. R - 1 -> Nat] /\ music.head \in 0 .. CountMod - 1 /\ music.on \in BOOLEAN
          /\ \A i \in 1 .. n : music.ring[(t + (i - 1)) % R] = stream[i]
      BY Zenon DEF MusicInv
    <2>. DEFINE u == (t + 1) % CountMod
    <2>4. n \in 1 .. R /\ n - 1 >= 0
      BY <2>2, <2>3, MixerAssumption
    <2>41. /\ u \in 0 .. CountMod - 1 /\ music.head = ((u + (n - 1)) % CountMod) /\ n - 1 <= R
           /\ \A i \in 1 .. n - 1 : i + 1 \in 1 .. n /\ ((u + (i - 1)) % R) = ((t + ((i + 1) - 1)) % R)
      BY <2>3, <2>4, OneOn, Zenon
    <2>5. /\ music' \in [ring : [0 .. R - 1 -> Nat], head : 0 .. CountMod - 1, tail : 0 .. CountMod - 1, on : BOOLEAN]
          /\ music'.tail = u /\ music'.head = music.head /\ music'.ring = music.ring
      BY <2>1, <2>3, <2>41, Zenon DEF MusicInv
    <2>6. ASSUME NEW i \in 1 .. n - 1 PROVE music.ring[(u + (i - 1)) % R] = stream[i + 1]
      BY <2>3, <2>41, Zenon
    <2>. HIDE DEF n, t, R, u
    <2>7. \A i \in 1 .. n - 1 : music'.ring[(music'.tail + (i - 1)) % R] = stream'[i]
      BY <2>1, <2>2, <2>5, <2>6, Zenon
    <2>. QED BY <2>1, <2>2, <2>41, <2>5, <2>7, Zenon DEF MusicInv, R
  <1>. QED BY <1>1, <1>2, Zenon

\* The frames of a write go behind those of the stream, each in a place of its own.
Behind(t, h, L, n) ==
  /\ ((h + n) % CountMod) = ((t + (L + n)) % CountMod)
  /\ \A j \in 1 .. n : ((h + j - 1) % MUSIC_RING_FRAMES) = ((t + ((L + j) - 1)) % MUSIC_RING_FRAMES)
  /\ \A i, k \in 1 .. L + n : i # k =>
       ((t + (i - 1)) % MUSIC_RING_FRAMES) # ((t + (k - 1)) % MUSIC_RING_FRAMES)

\* So they are when the counters are apart by the length of the stream and they fit.
LEMMA Places ==
  ASSUME NEW t \in 0 .. CountMod - 1, NEW L \in Nat, NEW n \in Nat, L + n <= MUSIC_RING_FRAMES
  PROVE  Behind(t, (t + L) % CountMod, L, n)
  <1>. DEFINE h == (t + L) % CountMod
  <1>1. t \in Nat /\ t + L \in Nat /\ (t + L) + n = t + (L + n) /\ h \in Nat
    BY MixerAssumption
  <1>2. (((t + L) % CountMod) + n) % CountMod = (((t + L) + n) % CountMod)
    BY <1>1, WrapsAt, Zenon
  <1>3. ((h + n) % CountMod) = ((t + (L + n)) % CountMod)
    BY <1>1, <1>2, Zenon
  <1>4. ASSUME NEW j \in 1 .. n
        PROVE  ((h + j - 1) % MUSIC_RING_FRAMES) = ((t + ((L + j) - 1)) % MUSIC_RING_FRAMES)
    <2>1. j - 1 \in Nat /\ h + j - 1 = h + (j - 1) /\ (t + L) + (j - 1) = t + ((L + j) - 1)
      BY <1>1
    <2>2. (((t + L) % CountMod) + (j - 1)) % MUSIC_RING_FRAMES = (((t + L) + (j - 1)) % MUSIC_RING_FRAMES)
      BY <1>1, <2>1, WrapsAt, Zenon
    <2>. QED BY <2>1, <2>2, Zenon
  <1>5. ASSUME NEW i \in 1 .. L + n, NEW k \in 1 .. L + n, i < k
        PROVE  ((t + (i - 1)) % MUSIC_RING_FRAMES) # ((t + (k - 1)) % MUSIC_RING_FRAMES)
    <2>. DEFINE a == t + (i - 1)
                b == t + (k - 1)
    <2>1. /\ a \in Nat /\ b \in Nat /\ a < b /\ b < a + MUSIC_RING_FRAMES /\ MUSIC_RING_FRAMES \in Nat \ {0}
      BY <1>1, <1>5, MixerAssumption
    <2>. HIDE DEF a, b
    <2>2. (a % MUSIC_RING_FRAMES) # (b % MUSIC_RING_FRAMES)
      BY <2>1, Apart, Zenon
    <2>. QED BY <2>2, Zenon DEF a, b
  <1>6. \A i, k \in 1 .. L + n : i # k => i < k \/ k < i
    BY <1>1
  <1>7. \A i, k \in 1 .. L + n : i # k =>
              ((t + (i - 1)) % MUSIC_RING_FRAMES) # ((t + (k - 1)) % MUSIC_RING_FRAMES)
    BY <1>5, <1>6, Zenon
  <1>. QED BY <1>3, <1>4, <1>7, Zenon DEF Behind

\* audio_music_write puts as many frames as fit behind the stream.
LEMMA MusicWrite == ASSUME MusicInv, NEW frames \in Seq(Nat), audio_music_write(frames) PROVE MusicInv'
  <1>. DEFINE L == Len(stream)
              t == music.tail
              h == music.head
              R == MUSIC_RING_FRAMES
              n == IF Len(frames) > audio_music_space THEN audio_music_space ELSE Len(frames)
              At(k) == {i \in 1 .. n : (h + i - 1) % R = k}
              ring == [k \in DOMAIN music.ring |->
                         IF At(k) = {} THEN music.ring[k] ELSE frames[CHOOSE i \in At(k) : TRUE]]
  <1>1. /\ t \in 0 .. CountMod - 1 /\ h = ((t + L) % CountMod) /\ L <= R /\ L \in Nat /\ R \in Nat \ {0}
        /\ music.ring \in [0 .. R - 1 -> Nat] /\ h \in 0 .. CountMod - 1
        /\ \A i \in 1 .. L : music.ring[(t + (i - 1)) % R] = stream[i]
    BY MixerAssumption DEF MusicInv
  <1>2. n \in 0 .. Len(frames) /\ n \in Nat /\ Len(frames) \in Nat /\ L + n <= R
    <2>1. audio_music_space = R - L
      BY MusicCount, Zenon DEF audio_music_space
    <2>. QED BY <1>1, <2>1
  <1>3. music' = [music EXCEPT !.ring = ring, !.head = (@ + n) % CountMod] /\ stream' = stream \o SubSeq(frames, 1, n)
    BY Zenon DEF audio_music_write
  <1>. HIDE DEF n
  <1>4. /\ stream' \in Seq(Nat) /\ Len(stream') = L + n
        /\ \A i \in 1 .. L : stream'[i] = stream[i]
        /\ \A j \in 1 .. n : stream'[L + j] = frames[j]
    <2>. DEFINE part == SubSeq(frames, 1, n)
    <2>1. part \in Seq(Nat) /\ Len(part) = n /\ \A j \in 1 .. n : part[j] = frames[j]
      BY <1>2
    <2>. HIDE DEF part
    <2>2. stream \in Seq(Nat) /\ stream' = stream \o part
      BY <1>3, Zenon DEF MusicInv, part
    <2>. QED BY <2>1, <2>2
  <1>. HIDE DEF L, t, h, R
  <1>5. /\ ((h + n) % CountMod) = ((t + (L + n)) % CountMod)
        /\ \A j \in 1 .. n : ((h + j - 1) % R) = ((t + ((L + j) - 1)) % R)
        /\ \A i, k \in 1 .. L + n : i # k => ((t + (i - 1)) % R) # ((t + (k - 1)) % R)
    <2>1. Behind(t, (t + L) % CountMod, L, n)
      BY <1>1, <1>2, Places, Zenon DEF R
    <2>. QED BY <1>1, <2>1, Zenon DEF Behind, R
  <1>6. /\ \A j \in 1 .. n : L + j \in 1 .. L + n
        /\ \A i \in 1 .. L : i \in 1 .. L + n /\ \A j \in 1 .. n : i # L + j
        /\ \A i, j \in 1 .. n : L + i = L + j => i = j
        /\ \A i \in 1 .. L + n : i \in 1 .. L \/ \E j \in 1 .. n : i = L + j
    <2>1. ASSUME NEW i \in 1 .. L + n, i > L PROVE i - L \in 1 .. n /\ i = L + (i - L)
      BY <1>1, <1>2, <2>1
    <2>2. \A i \in 1 .. L + n : i \in 1 .. L \/ i > L
      BY <1>1, <1>2
    <2>3. \A i \in 1 .. L + n : i \in 1 .. L \/ \E j \in 1 .. n : i = L + j
      BY <2>1, <2>2, Zenon
    <2>4. /\ \A j \in 1 .. n : L + j \in 1 .. L + n
          /\ \A i \in 1 .. L : i \in 1 .. L + n /\ \A j \in 1 .. n : i # L + j
          /\ \A i, j \in 1 .. n : L + i = L + j => i = j
      BY <1>1, <1>2
    <2>. QED BY <2>3, <2>4, Zenon
  <1>7. \A i \in 1 .. L + n : ((t + (i - 1)) % R) \in 0 .. R - 1
    <2>1. \A i \in 1 .. L + n : t + (i - 1) \in Nat
      BY <1>1, <1>2, MixerAssumption
    <2>2. \A x \in Nat : (x % R) \in 0 .. R - 1
      BY <1>1
    <2>. QED BY <2>1, <2>2, Zenon
  <1>8. ring \in [0 .. R - 1 -> Nat]
    <2>1. \A k : At(k) # {} => (CHOOSE i \in At(k) : TRUE) \in 1 .. n
      BY Zenon
    <2>2. \A i \in 1 .. n : frames[i] \in Nat
      BY <1>2
    <2>. QED BY <1>1, <2>1, <2>2, Zenon
  <1>9. ASSUME NEW i \in 1 .. L PROVE ring[(t + (i - 1)) % R] = stream'[i]
    <2>1. ASSUME NEW j \in 1 .. n PROVE ((h + j - 1) % R) # ((t + (i - 1)) % R)
      <3>1. /\ i \in 1 .. L + n /\ L + j \in 1 .. L + n /\ i # L + j
            /\ ((h + j - 1) % R) = ((t + ((L + j) - 1)) % R)
        BY <1>5, <1>6, Zenon
      <3>2. ((t + (i - 1)) % R) # ((t + ((L + j) - 1)) % R)
        BY <1>5, <3>1, Zenon
      <3>. QED BY <3>1, <3>2, Zenon
    <2>2. At((t + (i - 1)) % R) = {}
      BY <2>1, Zenon
    <2>. QED BY <1>1, <1>4, <1>6, <1>7, <2>2, Zenon
  <1>10. ASSUME NEW j \in 1 .. n PROVE ring[(t + ((L + j) - 1)) % R] = stream'[L + j]
    <2>0. ASSUME NEW i \in 1 .. n, ((h + i - 1) % R) = ((t + ((L + j) - 1)) % R) PROVE i = j
      <3>1. L + i \in 1 .. L + n /\ L + j \in 1 .. L + n /\ ((h + i - 1) % R) = ((t + ((L + i) - 1)) % R)
        BY <1>5, <1>6, Zenon
      <3>2. ((t + ((L + i) - 1)) % R) = ((t + ((L + j) - 1)) % R)
        BY <2>0, <3>1, Zenon
      <3>3. L + i = L + j
        BY <1>5, <3>1, <3>2, Zenon
      <3>. QED BY <1>6, <3>3, Zenon
    <2>1. At((t + ((L + j) - 1)) % R) = {j}
      BY <1>5, <2>0, Zenon
    <2>2. (CHOOSE i \in {j} : TRUE) = j
      BY Zenon
    <2>. QED BY <1>1, <1>4, <1>6, <1>7, <2>1, <2>2, Zenon
  <1>11. \A i \in 1 .. L + n : ring[(t + (i - 1)) % R] = stream'[i]
    <2>. SUFFICES ASSUME NEW i \in 1 .. L + n PROVE ring[(t + (i - 1)) % R] = stream'[i]
      BY Zenon
    <2>1. CASE i \in 1 .. L
      BY <1>9, <2>1, Zenon
    <2>2. CASE \E j \in 1 .. n : i = L + j
      BY <1>10, <2>2, Zenon
    <2>. QED BY <1>6, <2>1, <2>2, Zenon
  <1>12. ((h + n) % CountMod) \in 0 .. CountMod - 1
    BY <1>1, <1>2, MixerAssumption
  <1>. HIDE DEF ring
  <1>13. /\ music' \in [ring : [0 .. R - 1 -> Nat], head : 0 .. CountMod - 1, tail : 0 .. CountMod - 1, on : BOOLEAN]
         /\ music'.ring = ring /\ music'.head = ((h + n) % CountMod) /\ music'.tail = t
    BY <1>3, <1>8, <1>12, Zenon DEF MusicInv, R, h, t
  <1>14. \A i \in 1 .. Len(stream') : music'.ring[(music'.tail + (i - 1)) % R] = stream'[i]
    BY <1>4, <1>11, <1>13, Zenon
  <1>. QED BY <1>2, <1>4, <1>5, <1>13, <1>14, Zenon DEF MusicInv, R

----------------------------------------------------------------------------
(* The periods.                                                            *)

\* k periods on from p.
On(p, k) == (p + k) % BDL_ENTRIES
Periods == 0 .. BDL_ENTRIES - 1

\* How many periods are queued and not yet begun, when the cursor is behind.
Waiting == IF dev.kind = "ac97" THEN Ahead ELSE Ahead - 1

\* The last of them are the ones that were mixed, in order, and the one handed out
\* comes next.
QueueInv ==
  /\ Ahead <= QUEUE /\ (dev.kind = "hda" => Ahead >= 1)
  /\ Len(filled) <= Waiting
  /\ \A i \in 1 .. Len(filled) : filled[i] = On(dev.play, Waiting - Len(filled) + i)
  /\ \A c \in pumps : hand[c] # NoPeriod => hand[c] = Target /\ Ahead < QUEUE

\* One pump at a time, and an idle one has nothing in hand; the queue as long as the
\* card has not caught up with it.
RingInv ==
  /\ dev \in [kind : {"ac97", "hda"}, wr : Periods, play : Periods] /\ late \in BOOLEAN
  /\ filled \in Seq(Periods) /\ pumps \subseteq {"idle", "isr"}
  /\ hand \in [{"idle", "isr"} -> Periods \cup {NoPeriod}]
  /\ \A c, d \in pumps : c = d
  /\ \A c \in {"idle", "isr"} : c \notin pumps => hand[c] = NoPeriod
  /\ ~late => QueueInv

\* The period k on from p, without the remainder.
LEMMA OnIs ==
  \A p \in Periods, k \in Periods :
    /\ On(p, k) \in Periods /\ On(p, k) = (IF p + k < BDL_ENTRIES THEN p + k ELSE p + k - BDL_ENTRIES)
    /\ k # 0 => On(p, k) # p
  BY MixerAssumption DEF On, Periods

\* k on from the next one is k + 1 on.
LEMMA OnNext ==
  \A p \in Periods, k \in Periods : k + 1 \in Periods => On(On(p, 1), k) = On(p, k + 1)
  <1>. SUFFICES ASSUME NEW p \in Periods, NEW k \in Periods, k + 1 \in Periods
                PROVE  On(On(p, 1), k) = On(p, k + 1)
    BY Zenon
  <1>1. 1 \in Periods
    BY MixerAssumption DEF Periods
  <1>. DEFINE q == On(p, 1)
  <1>2. q \in Periods /\ q = (IF p + 1 < BDL_ENTRIES THEN p + 1 ELSE p + 1 - BDL_ENTRIES)
    BY <1>1, OnIs, Zenon
  <1>. HIDE DEF q
  <1>3. On(q, k) = (IF q + k < BDL_ENTRIES THEN q + k ELSE q + k - BDL_ENTRIES)
    BY <1>2, OnIs, Zenon
  <1>4. On(p, k + 1) = (IF p + (k + 1) < BDL_ENTRIES THEN p + (k + 1) ELSE p + (k + 1) - BDL_ENTRIES)
    BY OnIs, Zenon
  <1>5. On(q, k) = On(p, k + 1)
    BY <1>2, <1>3, <1>4, MixerAssumption DEF Periods
  <1>. QED BY <1>5, Zenon DEF q

\* How far the producer is ahead of the cursor, before and after each moves on.
Gap(w, p) == (w + BDL_ENTRIES - p) % BDL_ENTRIES

\* The gap, without the remainder.
LEMMA GapIs ==
  \A w, p \in Periods :
    /\ Gap(w, p) \in Periods /\ Gap(w, p) = (IF w >= p THEN w - p ELSE w - p + BDL_ENTRIES)
    /\ w = On(p, Gap(w, p))
  <1>. SUFFICES ASSUME NEW w \in Periods, NEW p \in Periods
                PROVE  /\ Gap(w, p) \in Periods /\ Gap(w, p) = (IF w >= p THEN w - p ELSE w - p + BDL_ENTRIES)
                       /\ w = On(p, Gap(w, p))
    BY Zenon
  <1>1. Gap(w, p) \in Periods /\ Gap(w, p) = (IF w >= p THEN w - p ELSE w - p + BDL_ENTRIES)
    BY MixerAssumption DEF Gap, Periods
  <1>. DEFINE g == Gap(w, p)
  <1>. HIDE DEF g
  <1>2. g \in Periods /\ g = (IF w >= p THEN w - p ELSE w - p + BDL_ENTRIES)
    BY <1>1, Zenon DEF g
  <1>3. On(p, g) = (IF p + g < BDL_ENTRIES THEN p + g ELSE p + g - BDL_ENTRIES)
    BY <1>2, OnIs, Zenon
  <1>4. w = On(p, g)
    BY <1>2, <1>3, MixerAssumption DEF Periods
  <1>. QED BY <1>1, <1>4, Zenon DEF g

\* The gap when the producer or the cursor has moved on by one.
LEMMA GapNext ==
  \A w, p \in Periods :
    /\ Gap(w, p) + 1 \in Periods => Gap(On(w, 1), p) = Gap(w, p) + 1
    /\ Gap(w, p) # 0 => Gap(w, On(p, 1)) = Gap(w, p) - 1
    /\ Gap(w, p) = 0 <=> w = p
    /\ Gap(w, p) = 1 => On(p, 1) = w
  <1>. SUFFICES ASSUME NEW w \in Periods, NEW p \in Periods
                PROVE  /\ Gap(w, p) + 1 \in Periods => Gap(On(w, 1), p) = Gap(w, p) + 1
                       /\ Gap(w, p) # 0 => Gap(w, On(p, 1)) = Gap(w, p) - 1
                       /\ Gap(w, p) = 0 <=> w = p
                       /\ Gap(w, p) = 1 => On(p, 1) = w
    BY Zenon
  <1>1. 1 \in Periods
    BY MixerAssumption DEF Periods
  <1>2. \A x \in Periods : On(x, 1) \in Periods /\ On(x, 1) = (IF x + 1 < BDL_ENTRIES THEN x + 1 ELSE x + 1 - BDL_ENTRIES)
    BY <1>1, OnIs, Zenon
  <1>3. \A x, y \in Periods : Gap(x, y) = (IF x >= y THEN x - y ELSE x - y + BDL_ENTRIES)
    BY GapIs, Zenon
  <1>. DEFINE a == On(w, 1)
              b == On(p, 1)
  <1>4. /\ a \in Periods /\ a = (IF w + 1 < BDL_ENTRIES THEN w + 1 ELSE w + 1 - BDL_ENTRIES)
        /\ b \in Periods /\ b = (IF p + 1 < BDL_ENTRIES THEN p + 1 ELSE p + 1 - BDL_ENTRIES)
    BY <1>2, Zenon
  <1>. HIDE DEF a, b
  <1>5. /\ Gap(w, p) = (IF w >= p THEN w - p ELSE w - p + BDL_ENTRIES)
        /\ Gap(a, p) = (IF a >= p THEN a - p ELSE a - p + BDL_ENTRIES)
        /\ Gap(w, b) = (IF w >= b THEN w - b ELSE w - b + BDL_ENTRIES)
    BY <1>3, <1>4, Zenon
  <1>6. /\ Gap(w, p) + 1 \in Periods => Gap(a, p) = Gap(w, p) + 1
        /\ Gap(w, p) # 0 => Gap(w, b) = Gap(w, p) - 1
        /\ Gap(w, p) = 0 <=> w = p
        /\ Gap(w, p) = 1 => b = w
    <2>. DEFINE g == Gap(w, p)
                g1 == Gap(a, p)
                g2 == Gap(w, b)
    <2>. HIDE DEF g, g1, g2
    <2>1. /\ g = (IF w >= p THEN w - p ELSE w - p + BDL_ENTRIES)
          /\ g1 = (IF a >= p THEN a - p ELSE a - p + BDL_ENTRIES)
          /\ g2 = (IF w >= b THEN w - b ELSE w - b + BDL_ENTRIES)
      BY <1>5, Zenon DEF g, g1, g2
    <2>2. (g + 1 \in Periods => g1 = g + 1) /\ (g # 0 => g2 = g - 1) /\ (g = 0 <=> w = p) /\ (g = 1 => b = w)
      BY <1>4, <2>1, MixerAssumption DEF Periods
    <2>. QED BY <2>2, Zenon DEF g, g1, g2
  <1>. QED BY <1>6, Zenon DEF a, b

\* The silence the card starts with fills the queue.
LEMMA RingInit == ASSUME NEW kind \in {"ac97", "hda"}, AudioInit(kind) PROVE RingInv
  <1>1. /\ dev = [kind |-> kind, wr |-> QUEUE, play |-> 0] /\ filled = << >> /\ pumps = {}
        /\ hand = [c \in {"idle", "isr"} |-> NoPeriod] /\ late = FALSE
    BY Zenon DEF AudioInit
  <1>2. /\ QUEUE \in Periods /\ 0 \in Periods /\ QUEUE >= 1 /\ QUEUE <= QUEUE /\ 0 <= QUEUE /\ 0 <= QUEUE - 1
        /\ QUEUE >= 0 /\ QUEUE - 0 = QUEUE
    BY MixerAssumption DEF Periods
  <1>3. /\ dev \in [kind : {"ac97", "hda"}, wr : Periods, play : Periods]
        /\ dev.wr = QUEUE /\ dev.play = 0
    BY <1>1, <1>2, Zenon
  <1>4. Gap(QUEUE, 0) = QUEUE
    BY <1>2, GapIs, Zenon
  <1>5. Ahead = QUEUE
    BY <1>3, <1>4, Zenon DEF Ahead, Gap
  <1>6. << >> \in Seq(Periods) /\ Len(<< >>) = 0 /\ 1 .. 0 = {}
    OBVIOUS
  <1>7. QueueInv
    <2>1. Waiting = QUEUE \/ Waiting = QUEUE - 1
      BY <1>5, Zenon DEF Waiting
    <2>2. Len(filled) <= Waiting /\ Ahead <= QUEUE /\ Ahead >= 1
      BY <1>1, <1>2, <1>5, <1>6, <2>1, Zenon
    <2>3. \A i \in 1 .. Len(filled) : filled[i] = On(dev.play, Waiting - Len(filled) + i)
      BY <1>1, <1>6, Zenon
    <2>. QED BY <1>1, <2>2, <2>3, Zenon DEF QueueInv
  <1>. QED BY <1>1, <1>3, <1>6, <1>7, Zenon DEF RingInv

\* What both kinds of card have in common: the next period to mix is the one behind
\* those that wait.
LEMMA TargetIs ==
  ASSUME RingInv, QueueInv
  PROVE  /\ Ahead \in Nat /\ Waiting \in Nat /\ Waiting + 1 \in Periods /\ Ahead = Gap(dev.wr, dev.play)
         /\ Target \in Periods /\ Target = On(dev.play, Waiting + 1)
  <1>1. dev.wr \in Periods /\ dev.play \in Periods /\ dev.kind \in {"ac97", "hda"}
    BY Zenon DEF RingInv
  <1>2. Ahead = Gap(dev.wr, dev.play) /\ Ahead <= QUEUE /\ (dev.kind = "hda" => Ahead >= 1)
    BY Zenon DEF Ahead, Gap, QueueInv
  <1>3. Ahead \in Periods /\ dev.wr = On(dev.play, Ahead)
    BY <1>1, <1>2, GapIs, Zenon
  <1>. DEFINE A == Ahead
              W == IF dev.kind = "ac97" THEN A ELSE A - 1
  <1>. HIDE DEF A
  <1>4. A \in Nat /\ W \in Nat /\ W + 1 \in Periods /\ A + 1 \in Periods /\ 1 \in Periods
    <2>1. A \in Periods /\ A <= QUEUE /\ (dev.kind = "hda" => A >= 1)
      BY <1>2, <1>3, Zenon DEF A
    <2>2. A \in Nat /\ A + 1 \in Periods /\ 1 \in Periods
      BY <2>1, MixerAssumption DEF Periods
    <2>3. A >= 1 => A - 1 \in Nat /\ (A - 1) + 1 \in Periods
      BY <2>1, MixerAssumption DEF Periods
    <2>. QED BY <1>1, <2>1, <2>2, <2>3, Zenon
  <1>5. CASE dev.kind = "ac97"
    <2>1. Target = On(dev.wr, 1) /\ Waiting = Ahead
      BY <1>5, Zenon DEF Target, On, Waiting
    <2>2. dev.wr = On(dev.play, Ahead) /\ On(dev.wr, 1) \in Periods
      BY <1>1, <1>3, <1>4, OnIs, Zenon
    <2>3. On(On(dev.play, A), 1) = On(dev.play, A + 1)
      <3>. DEFINE p == dev.play
                  q == On(p, A)
      <3>. HIDE DEF p, q
      <3>0. p \in Periods /\ A \in Periods
        BY <1>1, <1>3, Zenon DEF p, A
      <3>1. q \in Periods /\ q = (IF p + A < BDL_ENTRIES THEN p + A ELSE p + A - BDL_ENTRIES)
        BY <3>0, OnIs, Zenon DEF q
      <3>2. On(q, 1) = (IF q + 1 < BDL_ENTRIES THEN q + 1 ELSE q + 1 - BDL_ENTRIES)
        BY <1>4, <3>1, OnIs, Zenon
      <3>3. On(p, A + 1) = (IF p + (A + 1) < BDL_ENTRIES THEN p + (A + 1) ELSE p + (A + 1) - BDL_ENTRIES)
        BY <1>4, <3>0, OnIs, Zenon
      <3>4. On(q, 1) = On(p, A + 1)
        BY <1>4, <3>0, <3>1, <3>2, <3>3, MixerAssumption DEF Periods
      <3>. QED BY <3>4, Zenon DEF p, q
    <2>. QED BY <1>2, <1>4, <1>5, <2>1, <2>2, <2>3, Zenon DEF A
  <1>6. CASE dev.kind = "hda"
    <2>1. Target = dev.wr /\ Waiting = A - 1 /\ W = A - 1
      BY <1>6, Zenon DEF Target, Waiting, A
    <2>2. (A - 1) + 1 = A
      BY <1>4
    <2>. QED BY <1>1, <1>2, <1>3, <1>4, <2>1, <2>2, Zenon DEF A
  <1>. QED BY <1>1, <1>5, <1>6, Zenon

\* audio_pump and its loop take what next_period hands out.
LEMMA RingPump ==
  ASSUME RingInv, NEW c \in {"idle", "isr"}, audio_pump(c) \/ Again(c) PROVE RingInv'
  <1>1. UNCHANGED <<dev, filled, late>>
    BY Zenon DEF audio_pump, Again
  <1>2. /\ pumps' \subseteq {"idle", "isr"} /\ \A x, y \in pumps' : x = y
        /\ \/ hand' = hand /\ pumps' = pumps \ {c} /\ hand[c] = NoPeriod
           \/ hand' = [hand EXCEPT ![c] = next_period] /\ pumps' = {c}
    <2>1. CASE audio_pump(c)
      BY <2>1, Zenon DEF audio_pump
    <2>2. CASE Again(c)
      <3>1. pumps = {c}
        BY <2>2, Zenon DEF Again, RingInv
      <3>. QED BY <2>2, <3>1, Zenon DEF Again
    <2>. QED BY <2>1, <2>2, Zenon
  <1>3. next_period \in Periods \cup {NoPeriod}
    <2>1. dev.wr \in Periods /\ 1 \in Periods
      BY MixerAssumption DEF RingInv, Periods
    <2>2. Target \in Periods
      BY <2>1, OnIs, Zenon DEF Target, On
    <2>. QED BY <2>2, Zenon DEF next_period
  <1>4. hand' \in [{"idle", "isr"} -> Periods \cup {NoPeriod}]
    BY <1>2, <1>3, Zenon DEF RingInv
  <1>5. \A d \in {"idle", "isr"} : d \notin pumps' => hand'[d] = NoPeriod
    <2>1. c \in pumps \/ pumps = {}
      BY Zenon DEF audio_pump, Again
    <2>. QED BY <1>2, <2>1, Zenon DEF RingInv, audio_pump, Again
  <1>6. ASSUME ~late PROVE QueueInv'
    <2>1. QueueInv
      BY <1>6, Zenon DEF RingInv
    <2>2. Ahead \in Nat /\ QUEUE \in Nat
      BY <2>1, TargetIs, MixerAssumption, Zenon
    <2>3. next_period # NoPeriod => next_period = Target /\ ~(Ahead >= QUEUE)
      BY Zenon DEF next_period
    <2>4. ~(Ahead >= QUEUE) => Ahead < QUEUE
      BY <2>2
    <2>5. Ahead' = Ahead /\ Target' = Target /\ Waiting' = Waiting
      BY <1>1, Zenon DEF Ahead, Target, Waiting
    <2>6. \A d \in pumps' : hand'[d] # NoPeriod => hand'[d] = Target /\ Ahead < QUEUE
      <3>1. CASE hand' = hand /\ pumps' = pumps \ {c}
        BY <2>1, <3>1, Zenon DEF QueueInv
      <3>2. CASE hand' = [hand EXCEPT ![c] = next_period] /\ pumps' = {c}
        <4>1. hand'[c] = next_period
          BY <3>2, Zenon DEF RingInv
        <4>. QED BY <2>3, <2>4, <3>2, <4>1, Zenon
      <3>. QED BY <1>2, <3>1, <3>2, Zenon
    <2>. QED BY <1>1, <2>1, <2>5, <2>6, Zenon DEF QueueInv, NoPeriod
  <1>. QED BY <1>1, <1>2, <1>4, <1>5, <1>6, Zenon DEF RingInv, NoPeriod

\* commit_period queues the period it was handed out, wherever the cursor is by now.
LEMMA RingCommit ==
  ASSUME RingInv, NEW c \in {"idle", "isr"}, commit_period(c) PROVE RingInv'
  <1>1. /\ c \in pumps /\ hand[c] # NoPeriod /\ dev' = [dev EXCEPT !.wr = (@ + 1) % BDL_ENTRIES]
        /\ filled' = Append(filled, hand[c]) /\ hand' = [hand EXCEPT ![c] = NoPeriod]
        /\ pumps' = pumps /\ late' = late
    BY Zenon DEF commit_period
  <1>2. /\ dev.wr \in Periods /\ dev.play \in Periods /\ dev.kind \in {"ac97", "hda"} /\ 1 \in Periods
        /\ hand[c] \in Periods /\ filled \in Seq(Periods)
    <2>1. 1 \in Periods
      BY MixerAssumption DEF Periods
    <2>. QED BY <1>1, <2>1, Zenon DEF RingInv
  <1>3. On(dev.wr, 1) \in Periods
    BY <1>2, OnIs, Zenon
  <1>4. /\ dev' \in [kind : {"ac97", "hda"}, wr : Periods, play : Periods]
        /\ dev'.kind = dev.kind /\ dev'.play = dev.play /\ dev'.wr = On(dev.wr, 1)
    BY <1>1, <1>3, Zenon DEF RingInv, On
  <1>. DEFINE n == Len(filled)
  <1>5. /\ filled' \in Seq(Periods) /\ Len(filled') = n + 1 /\ filled'[n + 1] = hand[c] /\ n \in Nat
        /\ \A i \in 1 .. n : filled'[i] = filled[i]
    BY <1>1, <1>2
  <1>6. /\ hand' \in [{"idle", "isr"} -> Periods \cup {NoPeriod}] /\ hand'[c] = NoPeriod
        /\ \A d \in {"idle", "isr"} : d \notin pumps' => hand'[d] = NoPeriod
        /\ \A d \in pumps' : hand'[d] = NoPeriod
    BY <1>1, Zenon DEF RingInv
  <1>7. ASSUME ~late PROVE QueueInv'
    <2>1. QueueInv
      BY <1>7, Zenon DEF RingInv
    <2>2. /\ Ahead \in Nat /\ Waiting \in Nat /\ Waiting + 1 \in Periods /\ Ahead = Gap(dev.wr, dev.play)
          /\ Target = On(dev.play, Waiting + 1)
      BY <2>1, TargetIs, Zenon
    <2>3. /\ hand[c] = Target /\ Ahead < QUEUE /\ n <= Waiting
          /\ \A i \in 1 .. n : filled[i] = On(dev.play, Waiting - n + i)
      BY <1>1, <2>1, Zenon DEF QueueInv
    <2>4. Ahead' = Gap(On(dev.wr, 1), dev.play)
      BY <1>4, Zenon DEF Ahead, Gap
    <2>. DEFINE A == Ahead
                W == Waiting
                A1 == Ahead'
                W1 == Waiting'
    <2>5. W = (IF dev.kind = "ac97" THEN A ELSE A - 1) /\ W1 = (IF dev.kind = "ac97" THEN A1 ELSE A1 - 1)
      BY <1>4, Zenon DEF Waiting
    <2>. HIDE DEF A, W, n, A1, W1
    <2>6. A + 1 \in Periods
      BY <2>2, <2>3, MixerAssumption DEF Periods, A
    <2>7. A1 = A + 1
      BY <1>2, <2>2, <2>4, <2>6, GapNext, Zenon DEF A, A1
    <2>8. A \in Nat /\ W \in Nat /\ A < QUEUE /\ n \in Nat /\ n <= W
      BY <1>5, <2>2, <2>3, Zenon DEF A, W, n
    <2>9. W1 = W + 1
      BY <2>5, <2>7, <2>8
    <2>10. /\ A1 <= QUEUE /\ A1 >= 1 /\ n + 1 <= W1 /\ W1 - (n + 1) + (n + 1) = W + 1
           /\ \A i \in 1 .. n : W1 - (n + 1) + i = W - n + i
           /\ \A i \in 1 .. n + 1 : i \in 1 .. n \/ i = n + 1
      BY <2>7, <2>8, <2>9, MixerAssumption
    <2>11. \A i \in 1 .. n + 1 : filled'[i] = On(dev.play, W1 - (n + 1) + i)
      <3>1. filled'[n + 1] = On(dev.play, W1 - (n + 1) + (n + 1))
        BY <1>5, <2>2, <2>3, <2>10, Zenon DEF W, n
      <3>2. \A i \in 1 .. n : filled'[i] = On(dev.play, W1 - (n + 1) + i)
        BY <1>5, <2>3, <2>10, Zenon DEF W, n
      <3>. QED BY <2>10, <3>1, <3>2, Zenon
    <2>12. \A i \in 1 .. Len(filled') : filled'[i] = On(dev'.play, Waiting' - Len(filled') + i)
      BY <1>4, <1>5, <2>11, Zenon DEF W1, n
    <2>13. Ahead' <= QUEUE /\ Ahead' >= 1 /\ Len(filled') <= Waiting'
      BY <1>5, <2>10, Zenon DEF A1, W1, n
    <2>. QED BY <1>6, <2>12, <2>13, Zenon DEF QueueInv, NoPeriod, On
  <1>. QED BY <1>1, <1>4, <1>5, <1>6, <1>7, Zenon DEF RingInv, NoPeriod

\* The card begins a period: the first of those that were mixed, when nothing older
\* waits.
LEMMA RingPlay == ASSUME RingInv, Play PROVE RingInv'
  <1>. DEFINE q == On(dev.play, 1)
              n == Len(filled)
  <1>1. /\ dev.kind = "ac97" => dev.play # dev.wr
        /\ dev' = [dev EXCEPT !.play = q]
        /\ late' = (late \/ (dev.kind = "hda" /\ q = dev.wr))
        /\ filled' = IF filled # << >> /\ Head(filled) = q THEN Tail(filled) ELSE filled
        /\ UNCHANGED <<pumps, hand>>
    BY Zenon DEF Play, On
  <1>2. /\ dev.wr \in Periods /\ dev.play \in Periods /\ dev.kind \in {"ac97", "hda"} /\ 1 \in Periods
        /\ filled \in Seq(Periods)
    <2>1. 1 \in Periods
      BY MixerAssumption DEF Periods
    <2>. QED BY <2>1, Zenon DEF RingInv
  <1>3. q \in Periods
    BY <1>2, OnIs, Zenon
  <1>. HIDE DEF q
  <1>4. /\ dev' \in [kind : {"ac97", "hda"}, wr : Periods, play : Periods]
        /\ dev'.kind = dev.kind /\ dev'.play = q /\ dev'.wr = dev.wr
    BY <1>1, <1>3, Zenon DEF RingInv
  <1>5. /\ n \in Nat /\ (filled # << >> <=> n > 0)
        /\ n > 0 => /\ Tail(filled) \in Seq(Periods) /\ Len(Tail(filled)) = n - 1 /\ Head(filled) = filled[1]
                    /\ \A i \in 1 .. n - 1 : Tail(filled)[i] = filled[i + 1]
    BY <1>2
  <1>6. filled' \in Seq(Periods) /\ late' \in BOOLEAN
    BY <1>1, <1>2, <1>5, Zenon DEF RingInv
  <1>7. ASSUME ~late' PROVE QueueInv'
    <2>1. ~late /\ QueueInv /\ (dev.kind = "hda" => q # dev.wr)
      BY <1>1, <1>7, Zenon DEF RingInv
    <2>2. /\ Ahead \in Nat /\ Waiting \in Nat /\ Waiting + 1 \in Periods /\ Ahead = Gap(dev.wr, dev.play)
          /\ Target = On(dev.play, Waiting + 1)
      BY <2>1, TargetIs, Zenon
    <2>3. /\ n <= Waiting /\ Ahead <= QUEUE /\ (dev.kind = "hda" => Ahead >= 1)
          /\ \A i \in 1 .. n : filled[i] = On(dev.play, Waiting - n + i)
          /\ \A c \in pumps : hand[c] # NoPeriod => hand[c] = Target /\ Ahead < QUEUE
      BY <2>1, Zenon DEF QueueInv
    <2>4. Ahead' = Gap(dev.wr, q) /\ Target' = Target
      BY <1>4, Zenon DEF Ahead, Gap, Target
    <2>. DEFINE A == Ahead
                W == Waiting
                A1 == Ahead'
                W1 == Waiting'
    <2>5. W = (IF dev.kind = "ac97" THEN A ELSE A - 1) /\ W1 = (IF dev.kind = "ac97" THEN A1 ELSE A1 - 1)
      BY <1>4, Zenon DEF Waiting
    <2>. HIDE DEF A, W, n, A1, W1
    <2>6. A # 0 /\ (dev.kind = "hda" => A # 1)
      BY <1>1, <1>2, <2>1, <2>2, <2>3, GapNext DEF A, q
    <2>7. A1 = A - 1
      BY <1>2, <2>2, <2>4, <2>6, GapNext, Zenon DEF A, A1, q
    <2>8. A \in Nat /\ W \in Nat /\ A <= QUEUE /\ n \in Nat /\ n <= W /\ W + 1 \in Periods
      BY <1>5, <2>2, <2>3, Zenon DEF A, W, n
    <2>9. W1 = W - 1 /\ W >= 1 /\ A1 \in Nat /\ W1 \in Nat /\ (dev.kind = "hda" => A1 >= 1) /\ A1 < A /\ A1 <= QUEUE
      <3>1. CASE dev.kind = "ac97"
        BY <2>5, <2>6, <2>7, <2>8, <3>1, MixerAssumption
      <3>2. CASE dev.kind = "hda"
        BY <2>5, <2>6, <2>7, <2>8, <3>2, MixerAssumption
      <3>. QED BY <1>2, <3>1, <3>2, Zenon
    <2>10. ASSUME NEW k \in Nat, k + 1 <= W PROVE On(q, k) = On(dev.play, k + 1)
      <3>1. k \in Periods /\ k + 1 \in Periods
        BY <2>8, <2>10, MixerAssumption DEF Periods
      <3>. QED BY <1>2, <3>1, OnNext, Zenon DEF q
    <2>11. /\ Len(filled') <= W1
           /\ \A i \in 1 .. Len(filled') : filled'[i] = On(q, W1 - Len(filled') + i)
      <3>1. CASE n = W
        <4>1. /\ n > 0 /\ W - n + 1 = 1 /\ 1 \in 1 .. n /\ n - 1 = W1 /\ n - 1 <= W1
              /\ \A i \in 1 .. n - 1 : /\ W1 - (n - 1) + i = i /\ i + 1 \in 1 .. n /\ W - n + (i + 1) = i + 1
                                       /\ i \in Nat /\ i + 1 <= W
          BY <2>8, <2>9, <3>1
        <4>2. filled[1] = q
          BY <2>3, <4>1, Zenon DEF q, W, n
        <4>3. filled' = Tail(filled) /\ Len(filled') = n - 1 /\ \A i \in 1 .. n - 1 : filled'[i] = filled[i + 1]
          BY <1>1, <1>5, <4>1, <4>2, Zenon DEF n
        <4>4. ASSUME NEW i \in 1 .. n - 1 PROVE filled'[i] = On(q, W1 - (n - 1) + i)
          <5>1. filled[i + 1] = On(dev.play, W - n + (i + 1))
            BY <2>3, <4>1, Zenon DEF W, n
          <5>. QED BY <2>10, <4>1, <4>3, <5>1, Zenon
        <4>. QED BY <4>1, <4>3, <4>4, Zenon
      <3>2. CASE n < W
        <4>1. /\ n <= W1
              /\ \A i \in 1 .. n : /\ W1 - n + i \in Nat /\ (W1 - n + i) + 1 = W - n + i /\ (W1 - n + i) + 1 <= W
          BY <2>8, <2>9, <3>2
        <4>2. filled' = filled
          <5>1. CASE n > 0
            <6>. DEFINE k == W - n + 1
            <6>1. 1 \in 1 .. n /\ k \in Periods /\ k # 1 /\ 1 \in Periods
              BY <1>2, <2>8, <3>2, <5>1, MixerAssumption DEF Periods
            <6>2. filled[1] = On(dev.play, k)
              BY <2>3, <6>1, Zenon DEF W, n
            <6>. HIDE DEF k
            <6>3. On(dev.play, k) # On(dev.play, 1)
              <7>. DEFINE p == dev.play
              <7>. HIDE DEF p
              <7>1. /\ On(p, k) = (IF p + k < BDL_ENTRIES THEN p + k ELSE p + k - BDL_ENTRIES)
                    /\ On(p, 1) = (IF p + 1 < BDL_ENTRIES THEN p + 1 ELSE p + 1 - BDL_ENTRIES) /\ p \in Periods
                BY <1>2, <6>1, OnIs, Zenon DEF p
              <7>2. On(p, k) # On(p, 1)
                BY <6>1, <7>1, MixerAssumption DEF Periods
              <7>. QED BY <7>2, Zenon DEF p
            <6>. QED BY <1>1, <1>5, <5>1, <6>2, <6>3, Zenon DEF q, n
          <5>2. CASE ~(n > 0)
            BY <1>1, <1>5, <5>2, Zenon DEF n
          <5>. QED BY <5>1, <5>2, Zenon
        <4>3. ASSUME NEW i \in 1 .. n PROVE filled[i] = On(q, W1 - n + i)
          <5>1. filled[i] = On(dev.play, W - n + i)
            BY <2>3, Zenon DEF W, n
          <5>. QED BY <2>10, <4>1, <5>1, Zenon
        <4>. QED BY <4>1, <4>2, <4>3, Zenon DEF n
      <3>3. n = W \/ n < W
        BY <2>8
      <3>. QED BY <3>1, <3>2, <3>3, Zenon
    <2>12. \A c \in pumps' : hand'[c] # NoPeriod => hand'[c] = Target' /\ Ahead' < QUEUE
      <3>1. A < QUEUE => A1 < QUEUE
        BY <2>8, <2>9, MixerAssumption
      <3>. QED BY <1>1, <2>3, <2>4, <3>1, Zenon DEF A, A1
    <2>. QED BY <1>4, <2>9, <2>11, <2>12, Zenon DEF QueueInv, NoPeriod, On, A1, W1
  <1>. QED BY <1>1, <1>4, <1>6, <1>7, Zenon DEF RingInv, NoPeriod

\* The ring and the queue as they are wanted.
LEMMA MusicSound == ASSUME MusicInv, RingInv PROVE MusicExact
  <1>1. /\ Len(stream) \in Nat /\ DOMAIN stream = 1 .. Len(stream)
        /\ filled \in Seq(Periods) /\ DOMAIN filled = 1 .. Len(filled) /\ Len(filled) \in Nat
    BY DEF MusicInv, RingInv
  <1>2. Count = Len(stream) /\ Count <= MUSIC_RING_FRAMES
    BY MusicCount, Zenon DEF MusicInv
  <1>3. ASSUME NEW i \in DOMAIN stream PROVE music.ring[(music.tail + i - 1) % MUSIC_RING_FRAMES] = stream[i]
    <2>1. music.tail \in Nat /\ i \in Nat
      BY <1>1, MixerAssumption DEF MusicInv
    <2>2. music.tail + i - 1 = music.tail + (i - 1)
      BY <2>1
    <2>. QED BY <1>1, <2>2, Zenon DEF MusicInv
  <1>4. ASSUME ~late
        PROVE  /\ \A i \in DOMAIN filled : /\ filled[i] # dev.play
                                           /\ i > 1 => filled[i] = (filled[i - 1] + 1) % BDL_ENTRIES
               /\ \A c \in pumps : hand[c] \notin {filled[i] : i \in DOMAIN filled} \cup {dev.play}
    <2>1. QueueInv /\ dev.play \in Periods
      BY <1>4, Zenon DEF RingInv
    <2>2. /\ Waiting \in Nat /\ Waiting + 1 \in Periods /\ Target = On(dev.play, Waiting + 1)
      BY <2>1, TargetIs, Zenon
    <2>3. /\ Len(filled) <= Waiting
          /\ \A i \in 1 .. Len(filled) : filled[i] = On(dev.play, Waiting - Len(filled) + i)
          /\ \A c \in pumps : hand[c] # NoPeriod => hand[c] = Target
      BY <2>1, Zenon DEF QueueInv
    <2>. DEFINE W == Waiting
                n == Len(filled)
                p == dev.play
    <2>. HIDE DEF W, n, p
    <2>4. W \in Nat /\ n \in Nat /\ n <= W /\ W + 1 \in Periods /\ p \in Periods
      BY <1>1, <2>1, <2>2, <2>3, Zenon DEF W, n, p
    <2>5. \A i \in 1 .. n : W - n + i \in Periods /\ W - n + i # 0 /\ W - n + i # W + 1
      BY <2>4, MixerAssumption DEF Periods
    <2>6. W + 1 # 0
      BY <2>4
    <2>7. \A i \in 1 .. n : filled[i] = On(p, W - n + i)
      BY <2>3, Zenon DEF W, n, p
    <2>8. \A k \in Periods : k # 0 => On(p, k) # p
      <3>. SUFFICES ASSUME NEW k \in Periods, k # 0 PROVE On(p, k) # p
        BY Zenon
      <3>1. On(p, k) = IF p + k < BDL_ENTRIES THEN p + k ELSE p + k - BDL_ENTRIES
        BY <2>4, OnIs, Zenon
      <3>. QED BY <2>4, <3>1, MixerAssumption DEF Periods
    <2>9. \A j, k \in Periods : j # k => On(p, j) # On(p, k)
      <3>. SUFFICES ASSUME NEW j \in Periods, NEW k \in Periods, j # k PROVE On(p, j) # On(p, k)
        BY Zenon
      <3>1. /\ On(p, j) = IF p + j < BDL_ENTRIES THEN p + j ELSE p + j - BDL_ENTRIES
            /\ On(p, k) = IF p + k < BDL_ENTRIES THEN p + k ELSE p + k - BDL_ENTRIES
        BY <2>4, OnIs, Zenon
      <3>. QED BY <2>4, <3>1, MixerAssumption DEF Periods
    <2>10. On(p, W + 1) # p /\ \A i \in 1 .. n : filled[i] # p /\ On(p, W + 1) # filled[i]
      <3>1. \A i \in 1 .. n : On(p, W - n + i) # On(p, W + 1) /\ On(p, W - n + i) # p
        BY <2>4, <2>5, <2>8, <2>9, Zenon
      <3>2. On(p, W + 1) # p
        BY <2>4, <2>6, <2>8, Zenon
      <3>. QED BY <2>7, <3>1, <3>2, Zenon
    <2>11. ASSUME NEW i \in 1 .. n, i > 1 PROVE filled[i] = On(filled[i - 1], 1)
      <3>. DEFINE k == W - n + (i - 1)
      <3>1. i - 1 \in 1 .. n /\ k \in Periods /\ k + 1 \in Periods /\ W - n + i = k + 1 /\ 1 \in Periods
        BY <2>4, <2>11, MixerAssumption DEF Periods
      <3>2. filled[i - 1] = On(p, k) /\ filled[i] = On(p, k + 1)
        BY <2>7, <3>1, Zenon
      <3>. HIDE DEF k
      <3>. DEFINE q == On(p, k)
      <3>. HIDE DEF q
      <3>3. q \in Periods /\ q = (IF p + k < BDL_ENTRIES THEN p + k ELSE p + k - BDL_ENTRIES)
        BY <2>4, <3>1, OnIs, Zenon DEF q
      <3>4. On(q, 1) = (IF q + 1 < BDL_ENTRIES THEN q + 1 ELSE q + 1 - BDL_ENTRIES)
        BY <3>1, <3>3, OnIs, Zenon
      <3>5. On(p, k + 1) = (IF p + (k + 1) < BDL_ENTRIES THEN p + (k + 1) ELSE p + (k + 1) - BDL_ENTRIES)
        BY <2>4, <3>1, OnIs, Zenon
      <3>6. On(q, 1) = On(p, k + 1)
        BY <2>4, <3>1, <3>3, <3>4, <3>5, MixerAssumption DEF Periods
      <3>. QED BY <3>2, <3>6, Zenon DEF q
    <2>12. NoPeriod \notin Periods
      BY MixerAssumption DEF NoPeriod, Periods
    <2>13. ASSUME NEW c \in pumps PROVE hand[c] \notin {filled[i] : i \in DOMAIN filled} \cup {p}
      <3>1. CASE hand[c] = NoPeriod
        <4>1. \A i \in 1 .. n : filled[i] \in Periods
          BY <1>1 DEF n
        <4>. QED BY <1>1, <2>4, <2>12, <3>1, <4>1, Zenon DEF n
      <3>2. CASE hand[c] # NoPeriod
        <4>1. hand[c] = On(p, W + 1)
          BY <2>2, <2>3, <3>2, Zenon DEF p, W
        <4>. QED BY <1>1, <2>10, <4>1, Zenon DEF n
      <3>. QED BY <3>1, <3>2, Zenon
    <2>. QED BY <1>1, <2>10, <2>11, <2>13, Zenon DEF n, p, On
  <1>. QED BY <1>2, <1>3, <1>4, Zenon DEF MusicExact

\* Every step preserves them: only the calls of the music and mix_period change the
\* music, and only the pump and the card the periods.
LEMMA MusicStep == ASSUME MusicInv, RingInv, [AudioNext]_audioVars PROVE MusicInv' /\ RingInv'
  <1>1. UNCHANGED musicVars => MusicInv'
    BY Zenon DEF musicVars, MusicInv
  <1>2. UNCHANGED ringVars => RingInv'
    <2>. SUFFICES ASSUME UNCHANGED ringVars PROVE RingInv'
      BY Zenon
    <2>1. UNCHANGED <<dev, filled, pumps, hand, late>>
      BY Zenon DEF ringVars
    <2>2. Ahead' = Ahead /\ Target' = Target /\ Waiting' = Waiting
      BY <2>1, Zenon DEF Ahead, Target, Waiting
    <2>3. QueueInv => QueueInv'
      BY <2>1, <2>2, Zenon DEF QueueInv, On, NoPeriod
    <2>. QED BY <2>1, <2>3, Zenon DEF RingInv, NoPeriod, Periods
  <1>3. CASE TakeSlot \/ Activate \/ voice_handle \/ voice_free
    BY <1>1, <1>2, <1>3, Zenon DEF TakeSlot, Activate, voice_handle, voice_free
  <1>4. ASSUME NEW c \in {"idle", "isr"}, audio_pump(c) \/ Again(c) PROVE MusicInv' /\ RingInv'
    BY <1>1, <1>4, RingPump, Zenon DEF audio_pump, Again
  <1>5. ASSUME NEW c \in {"idle", "isr"}, commit_period(c) PROVE MusicInv' /\ RingInv'
    BY <1>5, RingCommit, MusicPull, Zenon DEF commit_period
  <1>6. CASE Play
    BY <1>1, <1>6, RingPlay, Zenon DEF Play
  <1>7. ASSUME NEW n \in Nat, NEW masked \in BOOLEAN, audio_tone(n, masked) PROVE MusicInv' /\ RingInv'
    BY <1>1, <1>2, <1>7, Zenon DEF audio_tone
  <1>8. ASSUME NEW n \in Nat, NEW loop \in BOOLEAN, NEW masked \in BOOLEAN, audio_play_pcm(n, loop, masked)
        PROVE  MusicInv' /\ RingInv'
    BY <1>1, <1>2, <1>8, Zenon DEF audio_play_pcm
  <1>9. ASSUME NEW h \in handles, audio_stop(h) PROVE MusicInv' /\ RingInv'
    BY <1>1, <1>2, <1>9, Zenon DEF audio_stop
  <1>10. ASSUME NEW masked \in BOOLEAN, audio_stop_all(masked) PROVE MusicInv' /\ RingInv'
    BY <1>1, <1>2, <1>10, Zenon DEF audio_stop_all
  <1>11. CASE audio_music_start \/ audio_music_stop
    BY <1>2, <1>11, MusicEmpties, Zenon DEF audio_music_start, audio_music_stop
  <1>12. ASSUME NEW frames \in Seq(Nat), audio_music_write(frames) PROVE MusicInv' /\ RingInv'
    <2>1. UNCHANGED ringVars
      BY <1>12, Zenon DEF audio_music_write
    <2>. QED BY <1>2, <1>12, <2>1, MusicWrite, Zenon
  <1>13. CASE UNCHANGED audioVars
    <2>1. UNCHANGED musicVars /\ UNCHANGED ringVars
      BY <1>13, Zenon DEF audioVars
    <2>. QED BY <1>1, <1>2, <2>1, Zenon
  <1>. QED BY <1>3, <1>4, <1>5, <1>6, <1>7, <1>8, <1>9, <1>10, <1>11, <1>12, <1>13, Zenon
           DEF AudioNext, AudioStep

\* With any calls at any time and the completion interrupt and the idle loop pumping
\* in turns, the voices are sound, the music comes out of the ring frame by frame as
\* audio_music_write accepted it, and a period that waits or plays is never mixed
\* again: for rings of any size and counters that wrap at any multiple of it.
THEOREM MixerTheorem == AudioSpec => []MixerSound
<1>1. (\E kind \in {"ac97", "hda"} : AudioInit(kind)) => MusicInv /\ RingInv
  BY MusicInit, RingInit, Zenon
<1>2. MusicInv /\ RingInv /\ [AudioNext]_audioVars => MusicInv' /\ RingInv'
  BY MusicStep, Zenon
<1>3. MusicInv /\ RingInv => MusicExact
  BY MusicSound, Zenon
<1>4. AudioSpec => []MusicExact
  BY <1>1, <1>2, <1>3, PTL DEF AudioSpec
<1>5. VoicesSound /\ MusicExact => MixerSound
  BY Zenon DEF MixerSound
<1>. QED BY <1>4, <1>5, VoicesTheorem, PTL
=============================================================================
