----------------------------- MODULE SmpProofs -----------------------------
(***************************************************************************)
(* SMP for every set of cores and jobs.  The mailbox is safe for a client  *)
(* that keeps to smp.h.  Boot and Lua's thread library keep to it, add up  *)
(* every slice exactly once and never lose or share a bytecode buffer.     *)
(* As in the run, APs come up while smp_init waits for them or not at all, *)
(* and thread.parallel is called with no spawn in flight.                  *)
(***************************************************************************)
EXTENDS ThreadPool, TLAPS

\* What has to be added to make the checked invariants inductive: a pending
\* mailbox belongs to a core that is up and holds a real argument.
PendingIsPosted ==
  \A c \in APs : /\ mbox[c] = "pending" => c \in ready /\ arg[c] # NoArg
                 /\ c \in ready <=> ap[c] # "off"

MboxInv == MboxTypeOK /\ JobIsOutstanding /\ DoneMeansRan /\ PendingIsPosted

\* Every step of the APs and of a client that keeps to smp.h preserves it.
LEMMA MboxStep == MboxInv /\ [MboxNext]_mboxVars => MboxInv'
  <1>. SUFFICES ASSUME MboxInv, [MboxNext]_mboxVars PROVE MboxInv'
    BY Zenon
  <1>. USE CoreAssumption DEF MboxInv, MboxTypeOK, JobIsOutstanding, DoneMeansRan,
                              PendingIsPosted, APs
  <1>1. ASSUME NEW c \in APs, ApReady(c) PROVE MboxInv'
    BY <1>1, Zenon DEF ApReady
  <1>2. ASSUME NEW c \in APs, ApTake(c) PROVE MboxInv'
    BY <1>2, Zenon DEF ApTake
  <1>3. ASSUME NEW c \in APs, ApReturn(c) PROVE MboxInv'
    BY <1>3, Zenon DEF ApReturn
  <1>4. ASSUME NEW c \in APs, ApDone(c) PROVE MboxInv'
    BY <1>4, Zenon DEF ApDone
  <1>5. ASSUME NEW c \in APs, smp_join(c) PROVE MboxInv'
    BY <1>5, Zenon DEF smp_join
  <1>6. ASSUME NEW c \in APs, NEW a \in Args, ContractPost(c, a) PROVE MboxInv'
    BY <1>6, Zenon DEF ContractPost, smp_run_on, smp_online
  <1>7. CASE UNCHANGED mboxVars
    BY <1>7, Zenon DEF mboxVars
  <1>. QED BY <1>1, <1>2, <1>3, <1>4, <1>5, <1>6, <1>7, Zenon DEF MboxNext, ApStep

\* The invariant of the mailbox, for every number of cores and every job.
THEOREM MboxInvariant == MboxSpec => []MboxInv
  <1>1. MboxInit => MboxInv
    BY CoreAssumption, Zenon DEF MboxInit, MboxInv, MboxTypeOK, JobIsOutstanding, DoneMeansRan,
                          PendingIsPosted, APs
  <1>. QED BY <1>1, MboxStep, PTL DEF MboxSpec

\* A core in a job works on the one outstanding job of its mailbox, and a
\* mailbox says "done" only of a job that was called with what was posted.
THEOREM MboxSafe == MboxSpec => []MailboxSound
  <1>1. MboxInv => MailboxSound
    BY Zenon DEF MboxInv, MailboxSound
  <1>. QED BY <1>1, MboxInvariant, PTL

----------------------------------------------------------------------------

Used == ~LateStart /\ Careful

\* The cores with an outstanding job during boot, and with which job.
BootOut ==
  {c \in APs \cap ready : \/ pc \in {"post", "luapost"} /\ c < i
                          \/ pc = "own"
                          \/ pc \in {"join", "luajoin"} /\ i <= c
                          \/ pc = "fsjoin" /\ c = i}
BootJob == IF pc \in {"post", "own", "join"} THEN "sum"
           ELSE IF pc = "fsjoin" THEN "fsread" ELSE "lua"

\* The cores that own a bytecode buffer, and the function it holds.
Prepared(c) == call.phase = "post" /\ c = Core
Left == {c \in APs : Core <= c /\ c <= call.last}
Held ==
  {c \in APs : \/ c \in busy \/ Prepared(c) \/ call.phase = "inline"
               \/ /\ call.name = "parallel"
                  /\ IF call.phase = "collect" THEN c \in Left ELSE c \notin Left}
Want(c) == IF call.name = "parallel" \/ Prepared(c) THEN call.fn ELSE spawned[c]

Out == IF pc = "end" THEN {c \in Held : ~Prepared(c)} ELSE BootOut
Job == IF pc = "end" THEN "job" ELSE BootJob

BootTypes ==
  /\ pc \in {"wait", "post", "own", "join", "fsread", "fsjoin", "luapost", "luajoin", "end"}
  /\ i \in Cores /\ slices \in [Cores -> Nat]
  /\ pc \in {"own", "fsread"} => i = 0
  /\ pc = "fsjoin" => i \in APs \cap ready

PoolTypes ==
  /\ heap \in [Bufs -> Funs \cup {Free}] /\ code \in [Cores -> Bufs \cup {NoBuf}]
  /\ busy \subseteq APs
  /\ result \in [Cores -> Funs \cup {NoFun}] /\ got \in [Cores -> Funs \cup {NoFun}]
  /\ spawned \in [Cores -> Funs \cup {NoFun}]

\* A mailbox is in use exactly for the outstanding jobs.
MailInv ==
  \A c \in APs : (mbox[c] # "idle" <=> c \in Out) /\ (c \in Out => arg[c] = Job)

\* A slice has been added up when its job returned, or the loop is past its core.
SliceInv ==
  \A c \in Cores :
    slices[c] = IF pc \in {"wait", "post", "own", "join"}
                THEN IF c \in BootOut
                     THEN IF mbox[c] = "done" \/ ap[c] = "returned" THEN 1 ELSE 0
                     ELSE IF pc = "join" /\ (c < i \/ c = Bsp) THEN 1 ELSE 0
                ELSE 1

\* Where a call of the library can be.
CallInv ==
  /\ pc # "end" => call = NoCall /\ busy = {}
  /\ call # NoCall => APs \subseteq ready
  /\ \/ call = NoCall
     \/ \E c \in APs \ busy, f \in Funs, p \in {"prepare", "post"} : call = Call("spawn", p, c, c, f)
     \/ \E c \in busy : call = Call("join", "collect", c, c, spawned[c])
     \/ /\ busy = {}
        /\ \E n \in Nat, f \in Funs, p \in {"prepare", "post", "inline", "collect"} :
             /\ call = Call("parallel", p, n, LastCore, f)
             /\ IF p = "inline" THEN n > LastCore ELSE n \in APs

\* A buffer belongs to one core, holds its function, and is freed with its job.
CodeInv ==
  /\ \A c \in Cores : code[c] # NoBuf <=> c \in Held
  /\ \A c, d \in Held : code[c] = code[d] => c = d
  /\ \A c \in Held : heap[code[c]] = Want(c) /\ Want(c) \in Funs
  /\ \A b \in Bufs : heap[b] # Free => \E c \in Held : code[c] = b

\* What a worker has loaded, and what it leaves behind.
WorkInv ==
  /\ \A c \in APs : got[c] # NoFun => pc = "end" /\ ap[c] = "run" /\ got[c] = Want(c)
  /\ \A c \in Out : pc = "end" /\ (ap[c] = "returned" \/ mbox[c] = "done") => result[c] = Want(c)
  /\ returned.want = returned.got

PoolInv == BootTypes /\ PoolTypes /\ MailInv /\ SliceInv /\ CallInv /\ CodeInv /\ WorkInv

----------------------------------------------------------------------------
\* The core after the last one, in the loops over the cores.
LEMMA Order ==
  /\ LastCore \in Nat /\ 0 \in Cores /\ Cores \subseteq Nat
  /\ \A c \in Cores : c <= LastCore /\ (c # LastCore => c + 1 \in Cores)
  BY LateAssumption

\* The loops of thread.parallel start at the first AP and go on to the next one.
LEMMA Loops ==
  /\ Skip(0) \in APs /\ \A c \in APs : Skip(0) <= c
  /\ \A n \in APs : /\ Skip(n + 1) \in Nat
                    /\ Skip(n + 1) \in APs \/ Skip(n + 1) > LastCore
                    /\ \A c \in APs : Skip(n + 1) <= c <=> n < c
  BY LateAssumption, CoreAssumption, PoolAssumption DEF Skip, APs

\* What a call in progress works on.
LEMMA CallFacts ==
  ASSUME CallInv, call # NoCall, busy \subseteq APs
  PROVE  /\ pc = "end" /\ APs \subseteq ready
         /\ call.phase \in {"prepare", "post", "inline", "collect"}
         /\ call.name = "spawn" => /\ Left = {Core} /\ Core \notin busy
                                   /\ call.phase \in {"prepare", "post"}
         /\ call.name = "join" => /\ Left = {Core} /\ Core \in busy /\ call.phase = "collect"
                                  /\ call.fn = spawned[Core]
         /\ call.name \in {"spawn", "join", "parallel"}
         /\ call.name = "parallel" => busy = {} /\ call.last = LastCore
         /\ call.phase # "inline" => Core \in Left
         /\ call.phase = "inline" => Left = {} /\ call.name = "parallel"
         /\ call.name # "join" => call.fn \in Funs
  <1>1. /\ pc = "end" /\ APs \subseteq ready
        /\ call.phase \in {"prepare", "post", "inline", "collect"}
        /\ call.name = "spawn" => /\ call.last = Core /\ Core \in APs \ busy
                                  /\ call.phase \in {"prepare", "post"}
        /\ call.name = "join" => /\ call.last = Core /\ Core \in busy /\ call.phase = "collect"
                                 /\ call.fn = spawned[Core]
        /\ call.name \in {"spawn", "join", "parallel"}
        /\ call.name = "parallel" => /\ busy = {} /\ call.last = LastCore
                                     /\ IF call.phase = "inline" THEN Core \in Nat /\ Core > LastCore
                                                                ELSE Core \in APs
        /\ call.name # "join" => call.fn \in Funs
    BY DEF CallInv, Call, Core
  <1>2. \A c \in APs : c \in Nat /\ c <= LastCore
    BY LateAssumption DEF APs
  <1>3. \A c \in APs : Core = c /\ call.last = c => Left = {Core}
    BY <1>2 DEF Left
  <1>4. Core \in APs /\ call.last \in {Core, LastCore} => Core \in Left
    BY <1>2 DEF Left
  <1>5. Core \in Nat /\ Core > LastCore => Left = {}
    BY <1>2, LateAssumption DEF Left
  <1>. QED BY <1>1, <1>3, <1>4, <1>5, Zenon

\* A call goes on with the core after the one it has dealt with, if there is one.
LEMMA CallGoesOn ==
  ASSUME CallInv, call # NoCall, busy \subseteq APs, call.phase # "inline"
  PROVE  /\ Following > call.last <=> Left = {Core}
         /\ call.name = "parallel" =>
              /\ Following \in Nat
              /\ IF Left = {Core} THEN Following > LastCore ELSE Following \in APs
              /\ Left \ {Core} = {c \in APs : Following <= c /\ c <= LastCore}
  <1>1. Core \in APs /\ Core \in Left /\ call.last \in APs \cup {LastCore}
        /\ (call.name # "parallel" => call.last = Core /\ Left = {Core})
        /\ (call.name = "parallel" => call.last = LastCore)
    <2>1. call.name # "parallel" => call.last = Core
      BY DEF CallInv, Call, Core
    <2>. QED BY <2>1, CallFacts, Zenon DEF Left
  <1>2. CASE call.name # "parallel"
    BY <1>1, <1>2, LateAssumption DEF Following, Skip, APs
  <1>3. CASE call.name = "parallel"
    <2>1. /\ Following \in Nat
          /\ Following \in APs \/ Following > LastCore
          /\ \A c \in APs : Following <= c <=> Core < c
      BY <1>1, Loops, Zenon DEF Following
    <2>2. \A c \in APs : c \in Nat /\ c <= LastCore
      BY LateAssumption DEF APs
    <2>3. Left \ {Core} = {c \in APs : Following <= c /\ c <= LastCore}
      BY <1>1, <1>3, <2>1, <2>2 DEF Left
    <2>4. Following > LastCore <=> Left = {Core}
      BY <1>1, <1>3, <2>1, <2>2, <2>3, LateAssumption
    <2>. QED BY <1>1, <1>3, <2>1, <2>2, <2>3, <2>4, LateAssumption, Zenon
  <1>. QED BY <1>2, <1>3, Zenon

\* Nothing of the library is in use during boot.
LEMMA BootFacts ==
  ASSUME PoolInv, pc # "end"
  PROVE  /\ Held = {} /\ call = NoCall /\ busy = {} /\ Out = BootOut /\ Job = BootJob
         /\ \A c \in APs : got[c] = NoFun
  BY DEF PoolInv, CallInv, WorkInv, Held, Prepared, NoCall, Out, Job

\* The library's buffers depend on its own variables only.
LEMMA PoolSame ==
  ASSUME UNCHANGED poolVars
  PROVE  /\ Held' = Held /\ \A c : (Want(c)' = Want(c)) /\ (Prepared(c)' <=> Prepared(c))
  BY Zenon DEF poolVars, Held, Want, Prepared, Left, Core

----------------------------------------------------------------------------
\* A step of the boot sequence or of the library is a step its mailbox allows.
LEMMA Posts ==
  ASSUME PoolInv, NEW c \in APs, c \in ready, c \notin Out, NEW a \in BootJobs \cup {"job"},
         smp_run_on(c, a)
  PROVE  MboxNext
  <1>1. mbox[c] = "idle"
    BY Zenon DEF PoolInv, MailInv
  <1>. QED BY <1>1, PoolAssumption, Zenon DEF MboxNext, ContractPost, smp_online

\* Every step of smp_init and of the boot-time sum is a step the mailbox allows.
LEMMA BootMaps ==
  ASSUME PoolInv, BspStep \/ Deadline
  PROVE  [MboxNext]_mboxVars
  <1>. USE DEF PoolInv
  <1>0. pc # "end" => Out = BootOut
    BY BootFacts, Zenon
  <1>1. CASE Wait \/ Deadline \/ SumOwn
    BY <1>1, Zenon DEF Wait, Deadline, SumOwn
  <1>2. CASE SumPost
    BY <1>0, <1>2, Posts, LateAssumption
       DEF SumPost, BootOut, BootJobs, BootTypes, smp_online, APs
  <1>3. CASE SumJoin
    BY <1>3, Zenon DEF SumJoin, BootTypes, MboxNext, APs
  <1>4. CASE FsReadPost
    <2>1. Out = {}
      BY <1>0, <1>4, Zenon DEF BootOut, FsReadPost
    <2>2. ASSUME NEW c \in APs, smp_online(c), smp_run_on(c, "fsread") PROVE MboxNext
      BY <2>1, <2>2, Posts, Zenon DEF BootJobs, smp_online
    <2>. QED BY <2>2, <1>4, Zenon DEF FsReadPost
  <1>5. CASE FsReadJoin
    BY <1>5, Zenon DEF FsReadJoin, BootTypes, MboxNext
  <1>6. CASE LuaPost
    BY <1>0, <1>6, Posts, LateAssumption
       DEF LuaPost, BootOut, BootJobs, BootTypes, smp_online, APs
  <1>7. CASE LuaJoin
    BY <1>7, Zenon DEF LuaJoin, BootTypes, MboxNext, APs
  <1>. QED BY <1>1, <1>2, <1>3, <1>4, <1>5, <1>6, <1>7, Zenon DEF BspStep

\* Every step of the thread library is a step the mailbox allows.
LEMMA PoolMaps ==
  ASSUME PoolInv, [Next]_vars
  PROVE  [MboxNext]_mboxVars
  <1>. USE DEF PoolInv
  <1>1. CASE BootStep /\ UNCHANGED poolVars
    BY <1>1, BootMaps, Zenon DEF BootStep, ApComesUp, MboxNext
  <1>2. ASSUME NEW c \in APs, Worker(c) PROVE [MboxNext]_mboxVars
    BY <1>2, Zenon DEF Worker, RunJobLoad, RunJobEnd, ApLoop, JobEnds, MboxNext, ApStep, sysVars
  <1>3. CASE \/ \E c \in APs : l_join(c) \/ \E f \in Funs : l_spawn(c, f)
             \/ \E f \in Funs : l_parallel(f)
    BY <1>3, Zenon DEF l_join, l_spawn, l_parallel, sysVars
  <1>4. CASE start_worker \/ RunInline
    BY <1>4, Zenon DEF start_worker, RunInline, sysVars
  <1>5. CASE Dispatch
    <2>1. call # NoCall /\ call.phase = "post" /\ smp_run_on(Core, "job")
      BY <1>5 DEF Dispatch, NoCall
    <2>2. Core \in APs /\ Core \in ready /\ pc = "end"
      BY <2>1, CallFacts, Zenon DEF PoolTypes, Left
    <2>3. Core \notin Out
      BY <2>1, <2>2, Zenon DEF Out, Prepared
    <2>. QED BY <2>1, <2>2, <2>3, Posts, Zenon
  <1>6. CASE finish_worker
    <2>1. call # NoCall /\ call.phase = "collect" /\ smp_join(Core)
      BY <1>6 DEF finish_worker, NoCall
    <2>2. Core \in APs
      BY <2>1, CallFacts, Zenon DEF PoolTypes, Left
    <2>. QED BY <2>1, <2>2, Zenon DEF MboxNext
  <1>7. CASE UNCHANGED vars
    BY <1>7, Zenon DEF vars, sysVars
  <1>. QED BY <1>1, <1>2, <1>3, <1>4, <1>5, <1>6, <1>7, Zenon DEF Next, Library

----------------------------------------------------------------------------
(* The steps of the boot sequence.                                         *)

BootInv == BootTypes /\ MailInv /\ SliceInv
LibInv == PoolTypes /\ CallInv /\ CodeInv /\ WorkInv

\* Before the library is opened no job of it exists: boot leaves its part alone.
LEMMA BootLib ==
  ASSUME PoolInv, pc # "end", UNCHANGED poolVars
  PROVE  /\ LibInv'
         /\ Out' = IF pc' = "end" THEN {} ELSE BootOut'
         /\ Job' = IF pc' = "end" THEN "job" ELSE BootJob'
  <1>1. /\ Held = {} /\ call = NoCall /\ busy = {}
        /\ \A c \in APs : got[c] = NoFun
    BY BootFacts, Zenon
  <1>2. /\ Held' = Held /\ \A c : (Want(c)' = Want(c)) /\ (Prepared(c)' <=> Prepared(c))
    BY PoolSame, Zenon
  <1>3. Out' = (IF pc' = "end" THEN {} ELSE BootOut') /\ Job' = IF pc' = "end" THEN "job" ELSE BootJob'
    BY <1>1, <1>2, Zenon DEF Out, Job
  <1>4. PoolTypes'
    BY Zenon DEF PoolInv, PoolTypes, poolVars
  <1>5. CallInv'
    BY <1>1, Zenon DEF CallInv, poolVars
  <1>6. CodeInv'
    BY <1>1, <1>2, Zenon DEF PoolInv, CodeInv, poolVars
  <1>7. WorkInv'
    BY <1>1, <1>3, Zenon DEF PoolInv, WorkInv, poolVars
  <1>. QED BY <1>3, <1>4, <1>5, <1>6, <1>7, Zenon DEF LibInv

\* smp_init and the boot-time sum preserve the invariant.
LEMMA BootKeeps ==
  ASSUME MboxInv, PoolInv, BspStep \/ Deadline, UNCHANGED poolVars
  PROVE  BootInv'
  <1>. USE DEF PoolInv
  <1>0. pc # "end"
    BY Zenon DEF BspStep, Deadline, Wait, SumPost, SumOwn, SumJoin, FsReadPost, FsReadJoin, LuaPost,
           LuaJoin
  <1>. DEFINE Out1 == IF pc' = "end" THEN {} ELSE BootOut'
  <1>a. Out = BootOut /\ Job = BootJob /\ Out' = Out1 /\ Job' = IF pc' = "end" THEN "job" ELSE BootJob'
    BY <1>0, BootFacts, BootLib, Zenon
  <1>b. /\ \A c \in APs : (mbox[c] # "idle" <=> c \in BootOut) /\ (c \in BootOut => arg[c] = BootJob)
        /\ \A c \in APs : ap[c] = "returned" => mbox[c] = "pending"
        /\ APs \subseteq Cores /\ Bsp \in Cores /\ Bsp \notin APs
        /\ \A c \in APs : c \in ready <=> ap[c] # "off"
    BY <1>a, CoreAssumption, Zenon DEF MailInv, MboxInv, JobIsOutstanding, PendingIsPosted, APs
  <1>c. ASSUME \A c \in APs : (mbox'[c] # "idle" <=> c \in Out1)
                             /\ (c \in Out1 => arg'[c] = IF pc' = "end" THEN "job" ELSE BootJob')
        PROVE  MailInv'
    BY <1>a, <1>c, Zenon DEF MailInv, APs
  <1>1. CASE Wait
    <2>. USE <1>1, Order DEF Wait, Advance, mboxVars
    <2>1. BootTypes'
      BY Zenon DEF BootTypes
    <2>2. pc' # "end" /\ \A c \in Cores : c \notin BootOut /\ c \notin BootOut'
      BY DEF BootOut, BootTypes
    <2>3. MailInv'
      BY <1>b, <1>c, <2>2, Zenon
    <2>4. SliceInv'
      BY <2>2, Zenon DEF SliceInv
    <2>. QED BY <2>1, <2>3, <2>4, Zenon DEF BootInv
  <1>2. CASE Deadline
    <2>. USE <1>2 DEF Deadline, mboxVars
    <2>1. BootTypes'
      BY Zenon DEF BootTypes
    <2>2. BootOut' = BootOut /\ BootJob' = BootJob
      BY Zenon DEF BootOut, BootJob
    <2>3. MailInv'
      BY <1>b, <1>c, <2>2, Zenon
    <2>4. SliceInv'
      BY <2>2, Zenon DEF SliceInv
    <2>. QED BY <2>1, <2>3, <2>4, Zenon DEF BootInv
  <1>3. CASE SumPost
    <2>. USE <1>3, Order DEF SumPost, Advance
    <2>0. ready' = ready /\ ap' = ap /\ slices' = slices
      BY Zenon DEF smp_run_on, mboxVars
    <2>1. BootTypes'
      BY <2>0, Zenon DEF BootTypes
    <2>2. /\ pc' # "end" /\ BootJob = "sum" /\ BootJob' = "sum"
          /\ \A c \in Cores : c \in BootOut <=> c \in APs \cap ready /\ c < i
          /\ \A c \in Cores : c \in BootOut' <=> c \in APs \cap ready /\ c <= i
      BY <2>0 DEF BootOut, BootTypes, BootJob
    <2>3. \A c \in APs : /\ c # i => mbox'[c] = mbox[c] /\ arg'[c] = arg[c]
                         /\ c = i /\ c \in ready => mbox'[c] = "pending" /\ arg'[c] = "sum"
                         /\ c \notin ready => mbox'[c] = mbox[c]
      BY <1>b, Zenon DEF smp_run_on, smp_online, MboxInv, MboxTypeOK, mboxVars
    <2>4. MailInv'
      BY <1>b, <1>c, <2>2, <2>3 DEF BootTypes
    <2>5. SliceInv'
      BY <1>b, <2>0, <2>2, <2>3 DEF SliceInv, BootTypes
    <2>. QED BY <2>1, <2>4, <2>5, Zenon DEF BootInv
  <1>4. CASE SumOwn
    <2>. USE <1>4, Order DEF SumOwn, mboxVars
    <2>1. BootTypes'
      BY <1>b DEF BootTypes
    <2>2. /\ pc' # "end" /\ BootJob = "sum" /\ BootJob' = "sum"
          /\ \A c \in Cores : c \in BootOut <=> c \in APs \cap ready
          /\ \A c \in Cores : c \in BootOut' <=> c \in APs \cap ready
      BY DEF BootOut, BootTypes, BootJob
    <2>3. MailInv'
      BY <1>b, <1>c, <2>2, Zenon
    <2>4. SliceInv'
      BY <1>b, <2>2 DEF SliceInv, BootTypes
    <2>. QED BY <2>1, <2>3, <2>4, Zenon DEF BootInv
  <1>5. CASE SumJoin
    <2>. USE <1>5, Order DEF SumJoin, Advance
    <2>0. ready' = ready /\ ap' = ap /\ arg' = arg
      BY Zenon DEF smp_join, mboxVars
    <2>1. BootTypes'
      BY <2>0 DEF BootTypes
    <2>2. /\ pc' # "end" /\ BootJob = "sum" /\ (pc' = "join" => BootJob' = "sum")
          /\ \A c \in Cores : c \in BootOut <=> c \in APs \cap ready /\ i <= c
          /\ \A c \in Cores : c \in BootOut' <=> c \in APs \cap ready /\ i < c
      BY <2>0 DEF BootOut, BootTypes, BootJob
    <2>3. \A c \in APs : /\ c # i => mbox'[c] = mbox[c]
                         /\ c = i /\ c \in ready => mbox[c] = "done" /\ mbox'[c] = "idle"
                         /\ c \notin ready => mbox'[c] = mbox[c]
      BY <1>b, Zenon DEF smp_join, smp_online, MboxInv, MboxTypeOK, mboxVars
    <2>4. MailInv'
      BY <1>b, <1>c, <2>0, <2>2, <2>3 DEF BootTypes
    <2>5. \A c \in Cores : slices'[c] = IF c = i /\ c # Bsp /\ c \notin ready THEN slices[c] + 1 ELSE slices[c]
      BY Zenon DEF BootTypes, smp_online
    <2>6. SliceInv'
      BY <1>b, <2>0, <2>2, <2>3, <2>5 DEF SliceInv, BootTypes, APs
    <2>. QED BY <2>1, <2>4, <2>6, Zenon DEF BootInv
  <1>6. CASE FsReadPost
    <2>. USE <1>6, Order DEF FsReadPost
    <2>. DEFINE S == {c \in APs : smp_online(c)}
    <2>0. ready' = ready /\ ap' = ap /\ slices' = slices
      BY Zenon DEF smp_run_on, mboxVars
    <2>2. S # {} => /\ pc' = "fsjoin" /\ i' \in APs \cap ready
                    /\ smp_run_on(i', "fsread")
      BY Zenon DEF smp_online
    <2>3. S = {} => /\ pc' = "luapost" /\ i' = i /\ UNCHANGED mboxVars
      BY Zenon
    <2>. HIDE DEF FsReadPost, S
    <2>4. pc = "fsread" /\ i = 0
      BY Zenon DEF FsReadPost, BootTypes
    <2>5. BootTypes'
      BY <2>0, <2>2, <2>3, Zenon DEF BootTypes, APs
    <2>6. \A c \in Cores : /\ c \notin BootOut
                           /\ c \in BootOut' <=> S # {} /\ c = i'
      BY <1>b, <2>0, <2>2, <2>3, <2>4 DEF BootOut
    <2>7. S # {} => \A c \in APs : IF c = i' THEN mbox'[c] = "pending" /\ arg'[c] = "fsread"
                                             ELSE mbox'[c] = mbox[c]
      BY <1>b, <2>2, Zenon DEF smp_run_on, MboxInv, MboxTypeOK
    <2>8. MailInv'
      BY <1>b, <1>c, <2>2, <2>3, <2>6, <2>7, Zenon DEF BootJob, mboxVars
    <2>9. SliceInv'
      BY <2>0, <2>2, <2>3, <2>4, Zenon DEF SliceInv
    <2>. QED BY <2>5, <2>8, <2>9, Zenon DEF BootInv
  <1>7. CASE FsReadJoin
    <2>. USE <1>7, Order DEF FsReadJoin, smp_join
    <2>1. BootTypes'
      BY Zenon DEF BootTypes
    <2>2. /\ pc' # "end"
          /\ \A c \in Cores : c \in BootOut <=> c = i
          /\ \A c \in Cores : c \notin BootOut'
      BY DEF BootOut, BootTypes
    <2>3. \A c \in APs : mbox'[c] = IF c = i THEN "idle" ELSE mbox[c]
      BY <1>b, Zenon DEF MboxInv, MboxTypeOK
    <2>4. MailInv'
      BY <1>b, <1>c, <2>2, <2>3, Zenon
    <2>5. SliceInv'
      BY Zenon DEF SliceInv
    <2>. QED BY <2>1, <2>4, <2>5, Zenon DEF BootInv
  <1>8. CASE LuaPost
    <2>. USE <1>8, Order DEF LuaPost, Advance
    <2>0. ready' = ready /\ ap' = ap /\ slices' = slices
      BY Zenon DEF smp_run_on, mboxVars
    <2>1. BootTypes'
      BY <2>0, Zenon DEF BootTypes
    <2>2. /\ pc' # "end" /\ BootJob = "lua" /\ BootJob' = "lua"
          /\ \A c \in Cores : c \in BootOut <=> c \in APs \cap ready /\ c < i
          /\ \A c \in Cores : c \in BootOut' <=> c \in APs \cap ready /\ c <= i
      BY <2>0 DEF BootOut, BootTypes, BootJob
    <2>3. \A c \in APs : /\ c # i => mbox'[c] = mbox[c] /\ arg'[c] = arg[c]
                         /\ c = i /\ c \in ready => mbox'[c] = "pending" /\ arg'[c] = "lua"
                         /\ c \notin ready => mbox'[c] = mbox[c]
      BY <1>b, Zenon DEF smp_run_on, smp_online, MboxInv, MboxTypeOK, mboxVars
    <2>4. MailInv'
      BY <1>b, <1>c, <2>2, <2>3 DEF BootTypes
    <2>5. SliceInv'
      BY <2>0 DEF SliceInv
    <2>. QED BY <2>1, <2>4, <2>5, Zenon DEF BootInv
  <1>9. CASE LuaJoin
    <2>. USE <1>9, Order DEF LuaJoin, Advance
    <2>0. ready' = ready /\ ap' = ap /\ arg' = arg /\ slices' = slices
      BY Zenon DEF smp_join, mboxVars
    <2>1. BootTypes'
      BY <2>0, Zenon DEF BootTypes
    <2>2. /\ BootJob = "lua" /\ (pc' # "end" => BootJob' = "lua")
          /\ \A c \in Cores : c \in BootOut <=> c \in APs \cap ready /\ i <= c
          /\ \A c \in Cores : c \in Out1 <=> c \in APs \cap ready /\ i < c
      BY <2>0 DEF BootOut, BootTypes, BootJob
    <2>3. \A c \in APs : /\ c # i => mbox'[c] = mbox[c]
                         /\ c = i /\ c \in ready => mbox'[c] = "idle"
                         /\ c \notin ready => mbox'[c] = mbox[c]
      BY <1>b, Zenon DEF smp_join, smp_online, MboxInv, MboxTypeOK, mboxVars
    <2>4. pc' = "end" => \A c \in Cores : c \notin Out1
      BY Zenon
    <2>5. MailInv'
      BY <1>b, <1>c, <2>0, <2>2, <2>3, <2>4 DEF BootTypes
    <2>6. SliceInv'
      BY <2>0 DEF SliceInv
    <2>. QED BY <2>1, <2>5, <2>6, Zenon DEF BootInv
  <1>. QED BY <1>1, <1>2, <1>3, <1>4, <1>5, <1>6, <1>7, <1>8, <1>9, Zenon DEF BspStep

----------------------------------------------------------------------------
(* The steps of an AP.                                                     *)

\* What is outstanding depends only on what the calls hold.
LEMMA OutSame ==
  ASSUME UNCHANGED <<ready, pc, i, call, busy>>
  PROVE  /\ BootOut' = BootOut /\ Out' = Out /\ Job' = Job /\ BootJob' = BootJob /\ Held' = Held
  BY Zenon DEF BootOut, Out, Job, BootJob, Held, Prepared, Left, Core

\* ap_main preserves the invariant: taking, returning from and marking a job.
LEMMA ApKeeps ==
  ASSUME Used, MboxInv, PoolInv, NEW c \in APs, ApComesUp(c) \/ ApLoop(c), UNCHANGED poolVars
  PROVE  BootInv' /\ LibInv'
  <1>. USE DEF PoolInv
  <1>0. /\ \A d \in APs : (mbox[d] # "idle" <=> d \in Out) /\ (d \in Out => arg[d] = Job)
        /\ \A d \in APs : ap[d] \in {"run", "returned"} => mbox[d] = "pending" /\ running[d] = arg[d]
        /\ APs \subseteq Cores /\ Bsp \in Cores /\ Bsp \notin APs
    BY CoreAssumption, Zenon DEF MailInv, MboxInv, JobIsOutstanding, APs
  <1>1. CASE ApComesUp(c)
    <2>. USE <1>1 DEF ApComesUp, ApReady, bootVars
    <2>1. pc = "wait" /\ pc' = "wait"
      BY Zenon DEF Used
    <2>2. Out' = BootOut' /\ LibInv'
      BY <2>1, BootLib, Zenon
    <2>3. Out = BootOut
      BY <2>1, BootFacts, Zenon
    <2>4. \A d : d \notin BootOut /\ d \notin BootOut'
      BY <2>1, Zenon DEF BootOut
    <2>5. BootTypes'
      BY <2>1, Zenon DEF BootTypes
    <2>6. MailInv'
      BY <1>0, <2>2, <2>3, <2>4, Zenon DEF MailInv, APs
    <2>7. SliceInv'
      BY <2>1, <2>4, Zenon DEF SliceInv
    <2>. QED BY <2>2, <2>5, <2>6, <2>7, Zenon DEF BootInv
  <1>2. CASE JobEnds(c)
    <2>. USE <1>2 DEF JobEnds, ApReturn
    <2>1. c \in Out /\ running[c] = Job /\ Job # "job" /\ mbox[c] = "pending"
      BY <1>0, Zenon DEF BootJobs
    <2>2. pc # "end" /\ pc' = pc
      BY <2>1, Zenon DEF Job
    <2>3. LibInv' /\ Out = BootOut /\ Job = BootJob
      BY <2>2, BootLib, BootFacts, Zenon
    <2>4. BootOut' = BootOut /\ Out' = Out /\ Job' = Job
      BY OutSame, Zenon DEF poolVars
    <2>5. /\ running[c] = "sum" <=> pc \in {"post", "own", "join"}
          /\ pc # "wait"
      BY <2>1, <2>2, <2>3, Zenon DEF BootJob, BootOut
    <2>6. BootTypes'
      <3>1. slices \in [Cores -> Nat] /\ (slices' = slices \/ slices' = [slices EXCEPT ![c] = @ + 1])
        BY Zenon DEF BootTypes
      <3>. HIDE <1>2 DEF JobEnds, ApReturn, PoolInv
      <3>2. slices' \in [Cores -> Nat]
        BY <1>0, <3>1
      <3>. USE <1>2 DEF JobEnds, ApReturn, PoolInv
      <3>. QED BY <3>2, Zenon DEF BootTypes
    <2>7. MailInv'
      BY <1>0, <2>4, Zenon DEF MailInv, APs
    <2>8. \A d \in Cores : /\ slices'[d] = IF d = c /\ running[c] = "sum" THEN slices[d] + 1 ELSE slices[d]
                           /\ ap'[d] = IF d = c THEN "returned" ELSE ap[d]
      BY Zenon DEF BootTypes, MboxInv, MboxTypeOK
    <2>9. SliceInv'
      <3>. SUFFICES ASSUME NEW d \in Cores
                    PROVE  slices'[d] = IF pc \in {"wait", "post", "own", "join"}
                             THEN IF d \in BootOut
                                  THEN IF mbox[d] = "done" \/ ap'[d] = "returned" THEN 1 ELSE 0
                                  ELSE IF pc = "join" /\ (d < i \/ d = Bsp) THEN 1 ELSE 0
                             ELSE 1
        BY <2>4 DEF SliceInv
      <3>. QED BY <2>1, <2>2, <2>3, <2>5, <2>8 DEF SliceInv
    <2>. QED BY <2>3, <2>6, <2>7, <2>9, Zenon DEF BootInv
  <1>3. CASE (ApTake(c) \/ ApDone(c)) /\ UNCHANGED bootVars
    <2>. USE <1>3 DEF ApTake, ApDone, bootVars
    <2>0. BootOut' = BootOut /\ Out' = Out /\ Job' = Job /\ Held' = Held
      BY OutSame, Zenon DEF poolVars
    <2>1. \A d : Want(d)' = Want(d)
      BY PoolSame, Zenon
    <2>2. BootTypes'
      BY Zenon DEF BootTypes
    <2>3. /\ \A d \in APs : d # c => mbox'[d] = mbox[d] /\ ap'[d] = ap[d]
          /\ \A d \in Cores : d # c => mbox'[d] = mbox[d] /\ ap'[d] = ap[d]
          /\ mbox[c] = "pending" /\ mbox'[c] # "idle"
          /\ mbox'[c] = "done" <=> ap[c] = "returned"
          /\ ap'[c] # "returned" /\ ap[c] # "run"
      BY <1>0, Zenon DEF MboxInv, MboxTypeOK
    <2>4. MailInv'
      BY <1>0, <2>0, <2>3 DEF MailInv, APs
    <2>5. SliceInv'
      BY <2>0, <2>3, Zenon DEF SliceInv
    <2>6. PoolTypes' /\ CallInv'
      BY Zenon DEF PoolTypes, CallInv, poolVars
    <2>7. CodeInv'
      BY <2>0, <2>1, Zenon DEF CodeInv, poolVars
    <2>8. WorkInv'
      <3>1. \A d \in Out : d \in APs
        BY Zenon DEF Out, BootOut, Held
      <3>2. /\ pc' = pc /\ got' = got /\ result' = result /\ returned' = returned
            /\ Out' = Out /\ \A d : Want(d)' = Want(d)
        BY <2>0, <2>1, Zenon DEF poolVars
      <3>. HIDE <1>3 DEF ApTake, ApDone, bootVars
      <3>3. ASSUME NEW d \in APs, got[d] # NoFun PROVE pc = "end" /\ ap'[d] = "run" /\ got[d] = Want(d)
        BY <2>3, <3>3, Zenon DEF WorkInv
      <3>4. ASSUME NEW d \in Out, pc = "end", ap'[d] = "returned" \/ mbox'[d] = "done"
            PROVE  result[d] = Want(d)
        BY <2>3, <3>1, <3>4, Zenon DEF WorkInv
      <3>. QED BY <3>2, <3>3, <3>4, Zenon DEF WorkInv
    <2>. QED BY <2>2, <2>4, <2>5, <2>6, <2>7, <2>8, Zenon DEF BootInv, LibInv
  <1>. QED BY <1>1, <1>2, <1>3, Zenon DEF ApLoop

----------------------------------------------------------------------------
(* The steps of the library and of its workers, after boot.                *)

\* Which cores have an outstanding job, in the terms of the library.
LEMMA EndFacts ==
  ASSUME MboxInv, PoolInv, pc = "end"
  PROVE  /\ \A d \in APs : mbox[d] # "idle" <=> d \in Held /\ ~Prepared(d)
         /\ \A d \in APs : mbox[d] # "idle" => arg[d] = "job"
         /\ \A d \in APs : got[d] # NoFun => d \in Held /\ ~Prepared(d) /\ mbox[d] = "pending"
         /\ \A d \in APs : ap[d] \in {"run", "returned"} => mbox[d] = "pending"
         /\ Held \subseteq APs /\ APs \subseteq Cores /\ Bsp \notin APs
  <1>1. \A d \in APs : mbox[d] # "idle" <=> d \in Held /\ ~Prepared(d)
    BY Zenon DEF PoolInv, MailInv, Out
  <1>2. \A d \in APs : mbox[d] # "idle" => arg[d] = "job"
    BY Zenon DEF PoolInv, MailInv, Job
  <1>3. \A d \in APs : ap[d] \in {"run", "returned"} => mbox[d] = "pending"
    BY Zenon DEF MboxInv, JobIsOutstanding
  <1>4. Held \subseteq APs /\ APs \subseteq Cores /\ Bsp \notin APs
    BY Zenon DEF Held, APs
  <1>. QED BY <1>1, <1>2, <1>3, <1>4, Zenon DEF PoolInv, WorkInv

\* What remains to be shown of a step that leaves the boot variables alone.
LEMMA EndSuffices ==
  ASSUME PoolInv, pc = "end", UNCHANGED <<ready, bootVars>>,
         PoolTypes', CallInv', CodeInv',
         \A d \in APs : (mbox'[d] # "idle" <=> d \in Held' /\ ~Prepared(d)')
                        /\ (mbox'[d] # "idle" => arg'[d] = "job"),
         \A d \in APs : got'[d] # NoFun => ap'[d] = "run" /\ got'[d] = Want(d)',
         \A d \in APs : d \in Held' /\ ~Prepared(d)' /\ (ap'[d] = "returned" \/ mbox'[d] = "done")
                          => result'[d] = Want(d)',
         returned'.want = returned'.got
  PROVE  BootInv' /\ LibInv'
  <1>1. BootTypes'
    BY Zenon DEF PoolInv, BootTypes, bootVars
  <1>2. SliceInv'
    BY Zenon DEF PoolInv, SliceInv, bootVars
  <1>3. pc' = "end" /\ Job' = "job" /\ \A d : d \in Out' <=> d \in Held' /\ ~Prepared(d)'
    BY Zenon DEF Out, Job, bootVars
  <1>4. MailInv'
    BY <1>3, Zenon DEF MailInv, APs
  <1>5. WorkInv'
    BY <1>3, Zenon DEF WorkInv, Held, APs
  <1>. QED BY <1>1, <1>2, <1>4, <1>5, Zenon DEF BootInv, LibInv

\* thread_worker preserves the invariant.
LEMMA WorkerKeeps ==
  ASSUME MboxInv, PoolInv, NEW c \in APs, RunJobLoad(c) \/ RunJobEnd(c)
  PROVE  BootInv' /\ LibInv'
  <1>. USE DEF PoolInv
  <1>0. pc = "end"
    <2>1. CASE RunJobLoad(c)
      <3>1. c \in Out /\ arg[c] = "job"
        BY <2>1, Zenon DEF RunJobLoad, MboxInv, JobIsOutstanding, MailInv
      <3>. QED BY <3>1, Zenon DEF MailInv, Job, BootJob
    <2>. QED BY <2>1, Zenon DEF RunJobEnd, WorkInv
  <1>a. /\ \A d \in APs : mbox[d] # "idle" <=> d \in Held /\ ~Prepared(d)
        /\ \A d \in APs : mbox[d] # "idle" => arg[d] = "job"
        /\ \A d \in APs : ap[d] \in {"run", "returned"} => mbox[d] = "pending"
        /\ Held \subseteq APs /\ APs \subseteq Cores
    BY <1>0, EndFacts, Zenon
  <1>b. \A d \in APs : got[d] # NoFun => ap[d] = "run" /\ got[d] = Want(d)
    BY Zenon DEF WorkInv
  <1>c. \A d \in APs : d \in Held /\ ~Prepared(d) /\ (ap[d] = "returned" \/ mbox[d] = "done")
                          => result[d] = Want(d)
    BY <1>0, Zenon DEF WorkInv, Out
  <1>1. UNCHANGED <<ready, bootVars, heap, code, busy, spawned, call, returned, mbox, arg>>
    BY Zenon DEF RunJobLoad, RunJobEnd, sysVars, mboxVars, ApReturn
  <1>2. Held' = Held /\ \A d : (Want(d)' = Want(d)) /\ (Prepared(d)' <=> Prepared(d))
    BY <1>1, Zenon DEF Held, Want, Prepared, Left, Core
  <1>3. CallInv' /\ CodeInv'
    BY <1>1, <1>2, Zenon DEF CallInv, CodeInv, bootVars
  <1>4. CASE RunJobLoad(c)
    <2>1. c \in Held /\ code[c] # NoBuf /\ heap[code[c]] = Want(c) /\ Want(c) \in Funs
      BY <1>4, <1>a, Zenon DEF RunJobLoad, CodeInv
    <2>2. \A d \in Cores : got'[d] = IF d = c THEN Want(c) ELSE got[d]
      BY <1>4, <2>1, Zenon DEF RunJobLoad, PoolTypes
    <2>3. PoolTypes'
      BY <1>1, <1>4, <2>1, Zenon DEF RunJobLoad, PoolTypes
    <2>4. ap' = ap /\ result' = result /\ ap[c] = "run"
      BY <1>4, Zenon DEF RunJobLoad, sysVars, mboxVars
    <2>. QED BY <1>0, <1>1, <1>2, <1>3, <1>a, <1>b, <1>c, <2>2, <2>3, <2>4, EndSuffices, Zenon DEF WorkInv
  <1>5. CASE RunJobEnd(c)
    <2>1. \A d \in Cores : /\ got'[d] = IF d = c THEN NoFun ELSE got[d]
                           /\ result'[d] = IF d = c THEN got[c] ELSE result[d]
                           /\ ap'[d] = IF d = c THEN "returned" ELSE ap[d]
      BY <1>5, Zenon DEF RunJobEnd, ApReturn, PoolTypes, MboxInv, MboxTypeOK
    <2>2. PoolTypes'
      BY <1>1, <1>5, <1>a, Zenon DEF RunJobEnd, PoolTypes
    <2>3. got[c] = Want(c)
      BY <1>5, <1>b, Zenon DEF RunJobEnd
    <2>. QED BY <1>0, <1>1, <1>2, <1>3, <1>a, <1>b, <1>c, <2>1, <2>2, <2>3, EndSuffices DEF WorkInv
  <1>. QED BY <1>4, <1>5, Zenon

\* thread.spawn, thread.parallel and join preserve the invariant up to their workers.
LEMMA CallsKeep ==
  ASSUME Used, MboxInv, PoolInv,
         \/ \E c \in APs : l_join(c) \/ \E f \in Funs : l_spawn(c, f)
         \/ \E f \in Funs : l_parallel(f)
  PROVE  BootInv' /\ LibInv'
  <1>. USE DEF PoolInv
  <1>0. /\ call = NoCall /\ pc = "end" /\ APs \subseteq ready
        /\ UNCHANGED <<sysVars, heap, code, busy, result, got, spawned, returned>>
        /\ \/ \E c \in APs \ busy, f \in Funs : call' = Call("spawn", "prepare", c, c, f)
           \/ \E c \in busy : call' = Call("join", "collect", c, c, spawned[c])
           \/ busy = {} /\ \E f \in Funs : call' = Call("parallel", "prepare", Skip(0), LastCore, f)
    BY Zenon DEF l_join, l_spawn, l_parallel, CanCall, Used
  <1>1. UNCHANGED <<ready, bootVars, mbox, arg, ap, running>>
    BY <1>0, Zenon DEF sysVars, mboxVars
  <1>a. /\ \A d \in APs : mbox[d] # "idle" <=> d \in Held /\ ~Prepared(d)
        /\ \A d \in APs : mbox[d] # "idle" => arg[d] = "job"
        /\ \A d \in APs : got[d] # NoFun => d \in Held /\ ~Prepared(d)
        /\ Held \subseteq APs
    BY <1>0, EndFacts, Zenon
  <1>b. \A d \in APs : got[d] # NoFun => ap[d] = "run" /\ got[d] = Want(d)
    BY Zenon DEF WorkInv
  <1>c. \A d \in APs : d \in Held /\ ~Prepared(d) /\ (ap[d] = "returned" \/ mbox[d] = "done")
                          => result[d] = Want(d)
    BY <1>0, Zenon DEF WorkInv, Out
  <1>2. /\ call.phase = "none" /\ call.name = "none"
        /\ call'.phase \in {"prepare", "collect"} /\ call'.name \in {"spawn", "join", "parallel"}
        /\ call'.name = "parallel" => /\ busy = {} /\ call'.phase = "prepare"
                                      /\ call'.core = Skip(0) /\ call'.last = LastCore
    BY <1>0 DEF NoCall, Call
  <1>d. call'.name = "parallel" => Left' = APs
    BY <1>2, Loops, LateAssumption DEF Left, Core, APs
  <1>3. \A d : ~Prepared(d) /\ ~Prepared(d)'
    BY <1>2, Zenon DEF Prepared
  <1>4. Held = busy
    BY <1>2, <1>3, Zenon DEF Held, PoolTypes
  <1>5. Held' = busy
    BY <1>0, <1>2, <1>d, <1>3, Zenon DEF Held, PoolTypes
  <1>6. \A d \in busy : Want(d) = spawned[d] /\ Want(d)' = spawned[d]
    BY <1>0, <1>2, <1>3, Zenon DEF Want
  <1>7. PoolTypes'
    BY <1>0, Zenon DEF PoolTypes
  <1>8. CallInv'
    BY <1>0, <1>1, Loops, Order, Zenon DEF CallInv, bootVars, APs
  <1>9. CodeInv'
    BY <1>0, <1>4, <1>5, <1>6 DEF CodeInv
  <1>. HIDE DEF PoolInv
  <1>10. \A d \in APs : got'[d] # NoFun => ap'[d] = "run" /\ got'[d] = Want(d)'
    BY <1>0, <1>1, <1>a, <1>b, <1>4, <1>6, Zenon
  <1>11. \A d \in APs : d \in Held' /\ ~Prepared(d)' /\ (ap'[d] = "returned" \/ mbox'[d] = "done")
                          => result'[d] = Want(d)'
    BY <1>0, <1>1, <1>3, <1>c, <1>4, <1>5, <1>6, Zenon
  <1>12. \A d \in APs : (mbox'[d] # "idle" <=> d \in Held' /\ ~Prepared(d)')
                        /\ (mbox'[d] # "idle" => arg'[d] = "job")
    BY <1>1, <1>3, <1>a, <1>4, <1>5, Zenon
  <1>13. returned'.want = returned'.got
    BY <1>0, Zenon DEF PoolInv, WorkInv
  <1>. QED BY <1>0, <1>1, <1>7, <1>8, <1>9, <1>10, <1>11, <1>12, <1>13, EndSuffices, Zenon

\* What the steps of a call start from.
LEMMA StepFacts ==
  ASSUME MboxInv, PoolInv, call # NoCall
  PROVE  /\ pc = "end"
         /\ \A d \in APs : mbox[d] # "idle" <=> d \in Held /\ ~Prepared(d)
         /\ \A d \in APs : mbox[d] # "idle" => arg[d] = "job"
         /\ \A d \in APs : got[d] # NoFun => /\ d \in Held /\ ~Prepared(d) /\ mbox[d] = "pending"
                                             /\ ap[d] = "run" /\ got[d] = Want(d)
         /\ \A d \in APs : d \in Held /\ ~Prepared(d) /\ (ap[d] = "returned" \/ mbox[d] = "done")
                             => result[d] = Want(d)
         /\ \A d \in APs : ap[d] \in {"run", "returned"} => mbox[d] = "pending"
         /\ Held \subseteq APs /\ APs \subseteq Cores /\ Bsp \notin APs
         /\ returned.want = returned.got
  <1>1. pc = "end"
    BY CallFacts, Zenon DEF PoolInv, PoolTypes
  <1>2. \A d \in APs : d \in Held /\ ~Prepared(d) /\ (ap[d] = "returned" \/ mbox[d] = "done")
                             => result[d] = Want(d)
    BY <1>1, Zenon DEF PoolInv, WorkInv, Out
  <1>. QED BY <1>1, <1>2, EndFacts, Zenon DEF PoolInv, WorkInv

\* start_worker preserves the invariant, also when malloc fails.
LEMMA StartKeeps == ASSUME MboxInv, PoolInv, start_worker PROVE BootInv' /\ LibInv'
  <1>0. /\ call # NoCall /\ call.phase = "prepare" /\ call' = [call EXCEPT !.phase = "post"]
        /\ UNCHANGED <<ready, bootVars, mbox, arg, ap, running, busy, result, got, spawned, returned>>
    BY DEF start_worker, NoCall, sysVars, mboxVars
  <1>1. PICK b \in Bufs : /\ heap[b] = Free
                          /\ heap' = [heap EXCEPT ![b] = call.fn]
                          /\ code' = [code EXCEPT ![Core] = b]
    BY Zenon DEF start_worker
  <1>2. /\ pc = "end" /\ APs \subseteq ready
        /\ call.name = "spawn" => Core \notin busy
        /\ call.name \in {"spawn", "parallel"}
        /\ call.name = "parallel" => busy = {}
        /\ Core \in Left /\ Core \in APs /\ call.fn \in Funs
    BY <1>0, CallFacts, Zenon DEF PoolInv, PoolTypes, Left
  <1>3. /\ call'.name = call.name /\ call'.phase = "post" /\ call'.last = call.last
        /\ call'.fn = call.fn /\ Core' = Core
    BY <1>0, Zenon DEF PoolInv, CallInv, Call, NoCall, Core
  <1>b. Left' = Left
    BY <1>3, Zenon DEF Left
  <1>4. \A d : ~Prepared(d) /\ (Prepared(d)' <=> d = Core)
    BY <1>0, <1>3, Zenon DEF Prepared
  <1>5. \A d : d \in Held' <=> d \in Held \/ d = Core
    BY <1>0, <1>2, <1>3, <1>4, <1>b, Zenon DEF Held
  <1>6. Core \notin Held
    BY <1>0, <1>2, <1>4, Zenon DEF Held
  <1>7. \A d : (d \in Held => Want(d)' = Want(d)) /\ (d = Core => Want(d)' = call.fn)
    BY <1>0, <1>3, <1>4, <1>6, Zenon DEF Want
  <1>8. PoolTypes'
    BY <1>0, <1>1, <1>2, Zenon DEF PoolInv, PoolTypes, APs
  <1>9. CallInv'
    <2>1. CASE call.name = "spawn"
      <3>1. call = Call("spawn", "prepare", Core, Core, call.fn)
        BY <1>0, <1>2, <2>1 DEF PoolInv, CallInv, Call, NoCall, Core
      <3>2. call' = Call("spawn", "post", Core, Core, call.fn)
        BY <1>0, <3>1 DEF Call
      <3>. QED BY <1>0, <1>2, <3>2, Zenon DEF CallInv, bootVars
    <2>2. CASE call.name = "parallel"
      <3>1. call = Call("parallel", "prepare", Core, LastCore, call.fn)
        BY <1>0, <1>2, <2>2 DEF PoolInv, CallInv, Call, NoCall, Core
      <3>2. call' = Call("parallel", "post", Core, LastCore, call.fn)
        BY <1>0, <3>1 DEF Call
      <3>. QED BY <1>0, <1>2, <2>2, <3>2, Order, Zenon DEF CallInv, bootVars, APs
    <2>. QED BY <1>2, <2>1, <2>2, Zenon
  <1>10. /\ \A d \in Cores : code'[d] = IF d = Core THEN b ELSE code[d]
         /\ \A x \in Bufs : heap'[x] = IF x = b THEN call.fn ELSE heap[x]
    BY <1>1, <1>2, Zenon DEF PoolInv, PoolTypes
  <1>a. /\ \A d \in APs : mbox[d] # "idle" <=> d \in Held /\ ~Prepared(d)
        /\ \A d \in APs : mbox[d] # "idle" => arg[d] = "job"
        /\ \A d \in APs : got[d] # NoFun => d \in Held /\ ap[d] = "run" /\ got[d] = Want(d)
        /\ \A d \in APs : d \in Held /\ ~Prepared(d) /\ (ap[d] = "returned" \/ mbox[d] = "done")
                             => result[d] = Want(d)
        /\ Held \subseteq APs /\ APs \subseteq Cores /\ returned.want = returned.got
    BY <1>0, StepFacts, Zenon
  <1>11. CodeInv'
    <2>1. \A d \in Held : code[d] \in Bufs /\ code[d] # b
      BY <1>1, <1>a, PoolAssumption DEF PoolInv, CodeInv, PoolTypes
    <2>2. \A d \in Cores : code'[d] # NoBuf <=> d \in Held'
      BY <1>5, <1>10, PoolAssumption, Zenon DEF PoolInv, CodeInv
    <2>3. \A d \in Held' : d \in Cores /\ (d # Core => d \in Held)
      BY <1>2, <1>5, <1>a, Zenon
    <2>4. ASSUME NEW d \in Held', NEW e \in Held', code'[d] = code'[e] PROVE d = e
      BY <1>10, <2>1, <2>3, <2>4 DEF PoolInv, CodeInv
    <2>5. ASSUME NEW d \in Held' PROVE heap'[code'[d]] = Want(d)' /\ Want(d)' \in Funs
      <3>1. CASE d = Core
        BY <3>1, <1>2, <1>7, <1>10, <2>3, Zenon
      <3>2. CASE d \in Held /\ d # Core
        <4>1. code'[d] = code[d] /\ heap'[code[d]] = heap[code[d]]
          BY <3>2, <1>10, <2>1, <2>3, Zenon
        <4>. QED BY <3>2, <4>1, <1>7 DEF PoolInv, CodeInv
      <3>. QED BY <2>3, <3>1, <3>2, Zenon
    <2>6. \A x \in Bufs : heap'[x] # Free => \E d \in Held' : code'[d] = x
      BY <1>5, <1>6, <1>10, <1>a, <1>2 DEF PoolInv, CodeInv
    <2>. QED BY <2>2, <2>4, <2>5, <2>6, Zenon DEF CodeInv
  <1>12. \A d \in APs : (mbox'[d] # "idle" <=> d \in Held' /\ ~Prepared(d)')
                        /\ (mbox'[d] # "idle" => arg'[d] = "job")
    BY <1>0, <1>4, <1>5, <1>6, <1>a, Zenon
  <1>13. \A d \in APs : got'[d] # NoFun => ap'[d] = "run" /\ got'[d] = Want(d)'
    BY <1>0, <1>7, <1>a, Zenon
  <1>14. \A d \in APs : d \in Held' /\ ~Prepared(d)' /\ (ap'[d] = "returned" \/ mbox'[d] = "done")
                          => result'[d] = Want(d)'
    BY <1>0, <1>4, <1>5, <1>7, <1>a, Zenon
  <1>. QED BY <1>0, <1>2, <1>8, <1>9, <1>11, <1>12, <1>13, <1>14, <1>a, EndSuffices, Zenon

\* smp_run_on in the dispatch of a worker preserves the invariant.
LEMMA DispatchKeeps == ASSUME MboxInv, PoolInv, Dispatch PROVE BootInv' /\ LibInv'
  <1>0. /\ call # NoCall /\ call.phase = "post" /\ smp_run_on(Core, "job")
        /\ UNCHANGED <<ready, bootVars, heap, code, result, got, ap, running, returned>>
    BY DEF Dispatch, NoCall, smp_run_on
  <1>2. /\ pc = "end" /\ APs \subseteq ready
        /\ call.name = "spawn" => Core \notin busy
        /\ call.name \in {"spawn", "parallel"}
        /\ call.name = "parallel" => busy = {}
        /\ Core \in Left /\ Core \in APs /\ call.fn \in Funs
    BY <1>0, CallFacts, Zenon DEF PoolInv, PoolTypes, Left
  <1>a. /\ \A d \in APs : mbox[d] # "idle" <=> d \in Held /\ ~Prepared(d)
        /\ \A d \in APs : mbox[d] # "idle" => arg[d] = "job"
        /\ \A d \in APs : got[d] # NoFun => /\ d \in Held /\ ~Prepared(d)
                                            /\ ap[d] = "run" /\ got[d] = Want(d)
        /\ \A d \in APs : d \in Held /\ ~Prepared(d) /\ (ap[d] = "returned" \/ mbox[d] = "done")
                             => result[d] = Want(d)
        /\ \A d \in APs : ap[d] \in {"run", "returned"} => mbox[d] = "pending"
        /\ Held \subseteq APs /\ APs \subseteq Cores /\ returned.want = returned.got
    BY <1>0, StepFacts, Zenon
  <1>3. \A d : Prepared(d) <=> d = Core
    BY <1>0, Zenon DEF Prepared
  <1>4. \A d \in APs : /\ mbox'[d] = IF d = Core THEN "pending" ELSE mbox[d]
                       /\ arg'[d] = IF d = Core THEN "job" ELSE arg[d]
    BY <1>0, <1>2, <1>a DEF smp_run_on, MboxInv, MboxTypeOK
  <1>5. /\ Held' = Held /\ \A d : ~Prepared(d)'
        /\ \A d \in Held : Want(d)' = Want(d)
        /\ PoolTypes' /\ CallInv'
    <2>1. CASE call.name = "spawn"
      <3>1. /\ busy' = busy \cup {Core} /\ spawned' = [spawned EXCEPT ![Core] = call.fn]
            /\ call' = NoCall
        BY <2>1, Zenon DEF Dispatch
      <3>2. \A d : ~Prepared(d)'
        BY <3>1, Zenon DEF Prepared, NoCall
      <3>3. \A d : d \in Held <=> d \in APs /\ (d \in busy \/ d = Core)
        BY <1>0, <1>3, <2>1, Zenon DEF Held
      <3>4. \A d : d \in Held' <=> d \in APs /\ (d \in busy \/ d = Core)
        BY <3>1, <3>2, Zenon DEF Held, NoCall
      <3>5. Held' = Held
        BY <3>3, <3>4, Zenon
      <3>6. \A d \in Cores : spawned'[d] = IF d = Core THEN call.fn ELSE spawned[d]
        BY <3>1, Zenon DEF PoolInv, PoolTypes
      <3>7. \A d \in Held : Want(d)' = Want(d)
        BY <1>3, <1>a, <2>1, <3>1, <3>2, <3>6 DEF Want, NoCall
      <3>8. PoolTypes'
        BY <1>0, <1>2, <1>a, <3>1, Zenon DEF PoolInv, PoolTypes
      <3>9. CallInv'
        BY <1>0, <1>2, <3>1, Zenon DEF CallInv, bootVars
      <3>. QED BY <3>2, <3>5, <3>7, <3>8, <3>9, Zenon
    <2>2. CASE call.name = "parallel"
      <3>. DEFINE p == IF Left = {Core} THEN "inline" ELSE "prepare"
      <3>0. /\ Following > call.last <=> Left = {Core}
            /\ Following \in Nat
            /\ IF Left = {Core} THEN Following > LastCore ELSE Following \in APs
            /\ Left \ {Core} = {c \in APs : Following <= c /\ c <= LastCore}
            /\ call.last = LastCore
        BY <1>0, <2>2, CallFacts, CallGoesOn, Zenon DEF PoolInv, PoolTypes
      <3>1. /\ UNCHANGED <<busy, spawned>>
            /\ call' = Call("parallel", p, Following, LastCore, call.fn)
        BY <2>2, <3>0, Zenon DEF Dispatch
      <3>2. /\ call'.name = "parallel" /\ call'.phase = p /\ call'.core = Following
            /\ call'.last = LastCore /\ call'.fn = call.fn
        BY <3>1, Zenon DEF Call
      <3>a. Left' = Left \ {Core}
        BY <3>0, <3>2, Zenon DEF Left, Core, APs
      <3>3. \A d : ~Prepared(d)'
        BY <3>2, Zenon DEF Prepared
      <3>4. \A d : d \in Held <=> d \in APs /\ (d \notin Left \/ d = Core)
        BY <1>0, <1>2, <1>3, <2>2, Zenon DEF Held
      <3>5. \A d : d \in Held' <=> d \in APs /\ (d \notin Left \/ d = Core)
        BY <1>2, <2>2, <3>1, <3>2, <3>3, <3>a, Zenon DEF Held
      <3>6. Held' = Held
        BY <3>4, <3>5, Zenon
      <3>7. \A d : Want(d)' = Want(d)
        BY <2>2, <3>2, Zenon DEF Want
      <3>8. PoolTypes'
        BY <1>0, <3>1, Zenon DEF PoolInv, PoolTypes
      <3>9. CallInv'
        <4>1. /\ p \in {"prepare", "inline"}
              /\ IF p = "inline" THEN Following > LastCore ELSE Following \in APs
          BY <3>0, Zenon
        <4>. HIDE DEF p
        <4>. QED BY <1>0, <1>2, <2>2, <3>0, <3>1, <4>1, Zenon DEF CallInv, bootVars
      <3>. QED BY <3>3, <3>6, <3>7, <3>8, <3>9, Zenon
    <2>. QED BY <1>2, <2>1, <2>2, Zenon
  <1>6. CodeInv'
    BY <1>0, <1>5 DEF PoolInv, CodeInv
  <1>7. Core \in Held /\ Core \in APs
    BY <1>2, <1>3, Zenon DEF Held
  <1>8. \A d \in APs : (mbox'[d] # "idle" <=> d \in Held' /\ ~Prepared(d)')
                        /\ (mbox'[d] # "idle" => arg'[d] = "job")
    BY <1>3, <1>4, <1>5, <1>7, <1>a
  <1>9. \A d \in APs : got'[d] # NoFun => ap'[d] = "run" /\ got'[d] = Want(d)'
    BY <1>0, <1>5, <1>a, Zenon
  <1>10. \A d \in APs : d \in Held' /\ ~Prepared(d)' /\ (ap'[d] = "returned" \/ mbox'[d] = "done")
                          => result'[d] = Want(d)'
    BY <1>0, <1>3, <1>4, <1>5, <1>a
  <1>. QED BY <1>0, <1>2, <1>5, <1>6, <1>8, <1>9, <1>10, <1>a, EndSuffices, Zenon

\* A worker that no core could take and that runs inline preserves the invariant.
LEMMA InlineKeeps == ASSUME MboxInv, PoolInv, RunInline PROVE BootInv' /\ LibInv'
  <1>0. /\ call # NoCall /\ call.phase = "inline" /\ call' = Call(call.name, "collect", Skip(0), LastCore, call.fn)
        /\ result' = [result EXCEPT ![Bsp] = call.fn]
        /\ UNCHANGED <<ready, bootVars, mbox, arg, ap, heap, code, busy, got, spawned, returned>>
    BY DEF RunInline, NoCall, sysVars, mboxVars
  <1>1. /\ pc = "end" /\ APs \subseteq ready /\ call.name = "parallel" /\ busy = {}
        /\ call.fn \in Funs
    BY <1>0, CallFacts, Zenon DEF PoolInv, PoolTypes
  <1>2. /\ call'.name = "parallel" /\ call'.phase = "collect" /\ call'.core = Skip(0)
        /\ call'.last = LastCore /\ call'.fn = call.fn
    BY <1>0, <1>1, Zenon DEF Call
  <1>a. Left' = APs
    BY <1>2, Loops, LateAssumption DEF Left, Core, APs
  <1>3. \A d : ~Prepared(d) /\ ~Prepared(d)'
    BY <1>0, <1>2, Zenon DEF Prepared
  <1>4. Held = APs /\ Held' = APs
    BY <1>0, <1>2, <1>3, <1>a, Zenon DEF Held
  <1>5. \A d : Want(d)' = Want(d)
    BY <1>1, <1>2, Zenon DEF Want
  <1>6. PoolTypes'
    BY <1>0, <1>1, Zenon DEF PoolInv, PoolTypes
  <1>7. CallInv'
    BY <1>0, <1>1, Loops, Order, Zenon DEF CallInv, bootVars, APs
  <1>8. CodeInv'
    BY <1>0, <1>4, <1>5, Zenon DEF PoolInv, CodeInv
  <1>9. \A d \in APs : result'[d] = result[d]
    BY <1>0, Zenon DEF PoolInv, PoolTypes, APs
  <1>. QED BY <1>0, <1>1, <1>3, <1>4, <1>5, <1>6, <1>7, <1>8, <1>9, StepFacts, EndSuffices

\* finish_worker preserves the invariant: the buffer is freed after its job is done.
LEMMA FinishKeeps == ASSUME MboxInv, PoolInv, finish_worker PROVE BootInv' /\ LibInv'
  <1>z. call # NoCall /\ call.phase = "collect"
    BY DEF finish_worker, NoCall
  <1>y. /\ Following > call.last <=> Left = {Core}
        /\ call.name = "parallel" =>
             /\ Following \in Nat /\ call.last = LastCore
             /\ IF Left = {Core} THEN Following > LastCore ELSE Following \in APs
             /\ Left \ {Core} = {c \in APs : Following <= c /\ c <= LastCore}
    BY <1>z, CallFacts, CallGoesOn, Zenon DEF PoolInv, PoolTypes
  <1>x. UNCHANGED <<ready, arg, ap, running>>
    BY Zenon DEF finish_worker, smp_join
  <1>0. /\ call # NoCall /\ call.phase = "collect" /\ smp_join(Core)
        /\ heap' = [b \in Bufs |-> IF b = code[Core] THEN Free ELSE heap[b]]
        /\ code' = [code EXCEPT ![Core] = NoBuf]
        /\ returned' = [want |-> call.fn, got |-> result[Core]]
        /\ busy' = IF call.name = "join" THEN busy \ {Core} ELSE busy
        /\ call' = IF Left = {Core} THEN NoCall
                   ELSE Call(call.name, "collect", Following, call.last, call.fn)
        /\ UNCHANGED <<ready, bootVars, arg, ap, running, result, got, spawned>>
    BY <1>x, <1>y, <1>z, Zenon DEF finish_worker
  <1>1. /\ pc = "end" /\ APs \subseteq ready
        /\ call.name \in {"join", "parallel"}
        /\ call.name = "join" => Left = {Core} /\ Core \in busy /\ call.fn = spawned[Core]
        /\ call.name = "parallel" => busy = {} /\ call.fn \in Funs
        /\ Core \in Left /\ Core \in APs
    BY <1>0, CallFacts, Zenon DEF PoolInv, PoolTypes, Left
  <1>a. /\ \A d \in APs : mbox[d] # "idle" <=> d \in Held /\ ~Prepared(d)
        /\ \A d \in APs : mbox[d] # "idle" => arg[d] = "job"
        /\ \A d \in APs : got[d] # NoFun => /\ d \in Held /\ mbox[d] = "pending"
                                            /\ ap[d] = "run" /\ got[d] = Want(d)
        /\ \A d \in APs : d \in Held /\ ~Prepared(d) /\ (ap[d] = "returned" \/ mbox[d] = "done")
                             => result[d] = Want(d)
        /\ Held \subseteq APs /\ APs \subseteq Cores
    BY <1>0, StepFacts, Zenon
  <1>2. \A d \in APs : mbox'[d] = IF d = Core THEN "idle" ELSE mbox[d]
    BY <1>0, <1>1, <1>a, Zenon DEF smp_join, MboxInv, MboxTypeOK
  <1>3. mbox[Core] = "done" /\ Core \in APs
    BY <1>0, <1>1, Zenon DEF smp_join
  <1>4. \A d : ~Prepared(d) /\ ~Prepared(d)'
    BY <1>0, Zenon DEF Prepared, NoCall, Call
  <1>5. \A d : (d \in Held' <=> d \in Held /\ d # Core) /\ (d \in Held' => Want(d)' = Want(d))
    <2>1. CASE call.name = "join"
      <3>1. call' = NoCall /\ busy' = busy \ {Core}
        BY <1>0, <1>1, <2>1, Zenon
      <3>2. \A d : d \in Held <=> d \in APs /\ d \in busy
        BY <1>0, <1>4, <2>1, Zenon DEF Held
      <3>3. \A d : d \in Held' <=> d \in APs /\ d \in busy /\ d # Core
        BY <1>4, <3>1, Zenon DEF Held, NoCall
      <3>4. \A d : Want(d)' = Want(d)
        BY <1>0, <1>4, <2>1, <3>1 DEF Want, NoCall
      <3>. QED BY <3>2, <3>3, <3>4, Zenon
    <2>2. CASE call.name = "parallel"
      <3>1. \A d : d \in Held <=> d \in Left
        BY <1>0, <1>1, <1>4, <2>2, Zenon DEF Held, Left
      <3>2. CASE Left = {Core}
        <4>1. call' = NoCall /\ busy' = {}
          BY <1>0, <1>1, <2>2, <3>2, Zenon
        <4>2. \A d : d \notin Held'
          BY <1>4, <4>1, Zenon DEF Held, NoCall
        <4>. QED BY <3>1, <3>2, <4>2, Zenon
      <3>3. CASE Left # {Core}
        <4>1. /\ call'.name = "parallel" /\ call'.phase = "collect" /\ call'.core = Following
              /\ call'.last = LastCore /\ call'.fn = call.fn /\ busy' = {}
          BY <1>0, <1>1, <1>y, <2>2, <3>3, Zenon DEF Call
        <4>a. Left' = Left \ {Core}
          BY <1>y, <2>2, <4>1, Zenon DEF Left, Core, APs
        <4>2. \A d : d \in Held' <=> d \in Left \ {Core}
          BY <1>4, <4>1, <4>a, Zenon DEF Held, Left
        <4>3. \A d : Want(d)' = Want(d)
          BY <2>2, <4>1, Zenon DEF Want
        <4>. QED BY <3>1, <4>2, <4>3, Zenon
      <3>. QED BY <3>2, <3>3, Zenon
    <2>. QED BY <1>1, <2>1, <2>2, Zenon
  <1>6. PoolTypes'
    <2>1. heap' \in [Bufs -> Funs \cup {Free}] /\ code' \in [Cores -> Bufs \cup {NoBuf}]
      BY <1>0, Zenon DEF PoolInv, PoolTypes
    <2>. QED BY <1>0, <2>1, Zenon DEF PoolInv, PoolTypes
  <1>7. CallInv'
    <2>1. CASE Left = {Core}
      BY <1>0, <1>1, <2>1, Zenon DEF CallInv, bootVars
    <2>2. CASE Left # {Core}
      <3>1. /\ call' = Call("parallel", "collect", Following, LastCore, call.fn)
            /\ busy' = {} /\ call.fn \in Funs /\ Following \in APs /\ Following \in Nat
        BY <1>0, <1>1, <1>y, <2>2, Zenon
      <3>. QED BY <1>0, <1>1, <3>1, Zenon DEF CallInv, bootVars
    <2>. QED BY <2>1, <2>2, Zenon
  <1>8. Core \in Held /\ code[Core] \in Bufs
    BY <1>3, <1>4, <1>a, PoolAssumption, Zenon DEF PoolInv, CodeInv, PoolTypes
  <1>9. /\ \A d \in Cores : code'[d] = IF d = Core THEN NoBuf ELSE code[d]
        /\ \A b \in Bufs : heap'[b] = IF b = code[Core] THEN Free ELSE heap[b]
    BY <1>0, Zenon DEF PoolInv, PoolTypes
  <1>10. CodeInv'
    <2>1. \A d \in Held' : /\ d \in Cores /\ d # Core /\ d \in Held /\ code'[d] = code[d]
                           /\ code[d] \in Bufs /\ code[d] # code[Core]
      BY <1>5, <1>8, <1>9, <1>a, PoolAssumption DEF PoolInv, CodeInv, PoolTypes
    <2>2. \A d \in Cores : code'[d] # NoBuf <=> d \in Held'
      BY <1>5, <1>9, Zenon DEF PoolInv, CodeInv
    <2>3. \A d, e \in Held' : code'[d] = code'[e] => d = e
      BY <2>1, Zenon DEF PoolInv, CodeInv
    <2>4. \A d \in Held' : heap'[code'[d]] = Want(d)' /\ Want(d)' \in Funs
      BY <1>5, <1>9, <2>1 DEF PoolInv, CodeInv
    <2>5. ASSUME NEW b \in Bufs, heap'[b] # Free PROVE \E d \in Held' : code'[d] = b
      <3>1. heap[b] # Free /\ b # code[Core]
        BY <1>9, <2>5, Zenon
      <3>2. PICK d \in Held : code[d] = b
        BY <3>1, Zenon DEF PoolInv, CodeInv
      <3>3. d \in Held'
        BY <1>5, <3>1, <3>2, Zenon
      <3>. QED BY <2>1, <3>2, <3>3, Zenon
    <2>. QED BY <2>2, <2>3, <2>4, <2>5, Zenon DEF CodeInv
  <1>11. result[Core] = call.fn
    BY <1>1, <1>3, <1>4, <1>8, <1>a, Zenon DEF Want
  <1>12. returned'.want = returned'.got
    BY <1>0, <1>11, Zenon
  <1>13. \A d \in APs : (mbox'[d] # "idle" <=> d \in Held' /\ ~Prepared(d)')
                        /\ (mbox'[d] # "idle" => arg'[d] = "job")
    BY <1>0, <1>2, <1>4, <1>5, <1>a, Zenon
  <1>14. \A d \in APs : got'[d] # NoFun => ap'[d] = "run" /\ got'[d] = Want(d)'
    BY <1>0, <1>3, <1>5, <1>a, Zenon
  <1>15. \A d \in APs : d \in Held' /\ ~Prepared(d)' /\ (ap'[d] = "returned" \/ mbox'[d] = "done")
                          => result'[d] = Want(d)'
    BY <1>0, <1>2, <1>4, <1>5, <1>a, Zenon
  <1>. QED BY <1>0, <1>1, <1>6, <1>7, <1>10, <1>12, <1>13, <1>14, <1>15, EndSuffices, Zenon

----------------------------------------------------------------------------
LEMMA PoolStarts == Init => MboxInv /\ PoolInv
  <1>. SUFFICES ASSUME Init PROVE MboxInv /\ PoolInv
    BY Zenon
  <1>. USE DEF Init, BootInit, MboxInit
  <1>1. MboxInv
    BY CoreAssumption, Zenon DEF MboxInv, MboxTypeOK, JobIsOutstanding, DoneMeansRan, PendingIsPosted, APs
  <1>2. BootOut = {} /\ Held = {} /\ Out = {}
    BY Zenon DEF BootOut, Held, Prepared, NoCall, Out
  <1>3. BootTypes
    BY Order, Zenon DEF BootTypes
  <1>4. PoolTypes /\ CallInv
    BY Zenon DEF PoolTypes, CallInv
  <1>5. MailInv /\ SliceInv
    BY <1>2, Zenon DEF MailInv, SliceInv, APs
  <1>6. CodeInv /\ WorkInv
    BY <1>2, Zenon DEF CodeInv, WorkInv, APs
  <1>. QED BY <1>1, <1>3, <1>4, <1>5, <1>6, Zenon DEF PoolInv

\* Every step of boot, of the cores and of the library preserves the invariant.
LEMMA PoolStep ==
  ASSUME Used, MboxInv, PoolInv, [Next]_vars
  PROVE  MboxInv' /\ PoolInv'
  <1>0. MboxInv'
    BY PoolMaps, MboxStep, Zenon
  <1>. SUFFICES BootInv' /\ LibInv'
    BY <1>0, Zenon DEF PoolInv, BootInv, LibInv
  <1>1. CASE (BspStep \/ Deadline) /\ UNCHANGED poolVars
    <2>1. pc # "end"
      BY <1>1, Zenon DEF BspStep, Deadline, Wait, SumPost, SumOwn, SumJoin, FsReadPost, FsReadJoin,
                  LuaPost, LuaJoin
    <2>. QED BY <1>1, <2>1, BootKeeps, BootLib, Zenon
  <1>2. ASSUME NEW c \in APs, ApComesUp(c) /\ UNCHANGED poolVars PROVE BootInv' /\ LibInv'
    BY <1>2, ApKeeps, Zenon
  <1>3. ASSUME NEW c \in APs, Worker(c) PROVE BootInv' /\ LibInv'
    BY <1>3, ApKeeps, WorkerKeeps, Zenon DEF Worker
  <1>4. CASE \/ \E c \in APs : l_join(c) \/ \E f \in Funs : l_spawn(c, f)
             \/ \E f \in Funs : l_parallel(f)
    BY <1>4, CallsKeep, Zenon
  <1>5. CASE Library
    BY <1>5, StartKeeps, DispatchKeeps, InlineKeeps, FinishKeeps, Zenon DEF Library
  <1>6. CASE UNCHANGED vars
    <2>1. UNCHANGED <<mboxVars, bootVars, poolVars>>
      BY <1>6, Zenon DEF vars, sysVars
    <2>2. /\ BootOut' = BootOut /\ Out' = Out /\ Job' = Job /\ Held' = Held
          /\ \A d : Want(d)' = Want(d)
      BY <2>1, OutSame, PoolSame, Zenon DEF mboxVars, bootVars, poolVars
    <2>3. BootTypes' /\ MailInv' /\ SliceInv'
      BY <2>1, <2>2, Zenon DEF PoolInv, BootTypes, MailInv, SliceInv, mboxVars, bootVars
    <2>4. PoolTypes' /\ CallInv'
      BY <2>1, Zenon DEF PoolInv, PoolTypes, CallInv, mboxVars, bootVars, poolVars
    <2>5. CodeInv' /\ WorkInv'
      BY <2>1, <2>2, Zenon DEF PoolInv, CodeInv, WorkInv, mboxVars, bootVars, poolVars
    <2>. QED BY <2>3, <2>4, <2>5, Zenon DEF BootInv, LibInv
  <1>. QED BY <1>1, <1>2, <1>3, <1>4, <1>5, <1>6, Zenon DEF Next, BootStep

\* The invariant of boot and of the thread library, for every number of cores.
LEMMA PoolInvariant == ASSUME Used PROVE Spec => [](MboxInv /\ PoolInv)
  <1>1. Init => MboxInv /\ PoolInv
    BY PoolStarts, Zenon
  <1>2. (MboxInv /\ PoolInv) /\ [Next]_vars => (MboxInv /\ PoolInv)'
    BY PoolStep, Zenon
  <1>. QED BY <1>1, <1>2, PTL DEF Spec

\* Boot and the thread library implement the mailbox's contract (smp.h): they post only
\* to online cores other than their own, and never over an outstanding job.
THEOREM ContractTheorem == ASSUME Used PROVE Spec => Contract
  <1>1. Init => MboxInit
    BY Zenon DEF Init, BootInit
  <1>2. PoolInv /\ [Next]_vars => [MboxNext]_mboxVars
    BY PoolMaps, Zenon
  <1>. QED BY <1>1, <1>2, PoolInvariant, PTL DEF Spec, Contract, MboxSpec

\* The boot's parallel sum adds up every core's slice exactly once, by the core or by the
\* BSP in its place (kernel_main), whichever cores come up.
THEOREM SlicesTheorem == ASSUME Used PROVE Spec => []EverySliceOnce
  <1>1. PoolInv => EverySliceOnce
    BY Zenon DEF PoolInv, BootTypes, SliceInv, EverySliceOnce
  <1>. QED BY <1>1, PoolInvariant, PTL

\* A worker's bytecode is neither freed nor reused under it, none is lost between calls,
\* and a result is that of the function asked for (start_worker, run_job, finish_worker).
THEOREM JobsTheorem == ASSUME Used PROVE Spec => []JobsOwned
  <1>1. MboxInv /\ PoolInv => JobsOwned
    <2>. SUFFICES ASSUME MboxInv, PoolInv PROVE JobsOwned
      BY Zenon
    <2>1. ASSUME NEW c \in APs, ap[c] = "run", running[c] = "job"
          PROVE  code[c] # NoBuf /\ heap[code[c]] # Free /\ got[c] # Free
      <3>1. mbox[c] = "pending" /\ arg[c] = "job"
        BY <2>1, Zenon DEF MboxInv, JobIsOutstanding
      <3>2. pc = "end"
        <4>1. Job = "job"
          BY <3>1, Zenon DEF PoolInv, MailInv
        <4>. QED BY <4>1, Zenon DEF Job, BootJob
      <3>3. c \in Held
        BY <3>1, <3>2, EndFacts, Zenon
      <3>. QED BY <3>3, PoolAssumption DEF PoolInv, CodeInv, PoolTypes, APs
    <2>2. ASSUME call = NoCall PROVE {b \in Bufs : heap[b] # Free} = {code[c] : c \in busy}
      <3>1. Held = busy
        BY <2>2, Zenon DEF PoolInv, PoolTypes, Held, Prepared, NoCall
      <3>2. \A c \in busy : code[c] \in Bufs /\ heap[code[c]] # Free
        <4>1. busy \subseteq Cores /\ code \in [Cores -> Bufs \cup {NoBuf}]
          BY Zenon DEF PoolInv, PoolTypes, APs
        <4>2. ASSUME NEW c \in busy PROVE code[c] # NoBuf /\ heap[code[c]] \in Funs
          <5>1. c \in Held /\ c \in Cores
            BY <3>1, <4>1, Zenon
          <5>. QED BY <5>1, Zenon DEF PoolInv, CodeInv
        <4>. QED BY <4>1, <4>2, PoolAssumption, Zenon
      <3>3. \A b \in Bufs : heap[b] # Free => \E c \in busy : code[c] = b
        BY <3>1, Zenon DEF PoolInv, CodeInv
      <3>. QED BY <3>2, <3>3
    <2>. QED BY <2>1, <2>2, Zenon DEF JobsOwned, PoolInv, WorkInv
  <1>. QED BY <1>1, PoolInvariant, PTL
=============================================================================
