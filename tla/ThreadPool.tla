----------------------------- MODULE ThreadPool -----------------------------
(***************************************************************************)
(* Lua's thread library (src/src/lua/lua_thread.c) on the work mailbox:    *)
(* thread.spawn, thread.join and thread.parallel, called by the BSP's Lua  *)
(* program in any order.  A core has one job slot; start_worker copies the *)
(* bytecode (and the string arguments, which live and die with it) into a  *)
(* buffer that finish_worker frees after the join.  A function is known by *)
(* what it computes, so a result names the function it came from.          *)
(***************************************************************************)
EXTENDS SmpBoot

CONSTANTS Funs,      \* Lua functions
          Bufs,      \* heap blocks for bytecode
          Free,      \* content of a block that is not allocated
          NoFun,     \* no function, no result
          NoBuf,     \* code == NULL
          Careful    \* the program calls thread.parallel only with no spawn in flight

ASSUME PoolAssumption ==
  /\ Careful \in BOOLEAN /\ APs # {} /\ BootJobs \cup {"job"} \subseteq Args
  /\ Free \notin Funs /\ NoFun \notin Funs /\ NoBuf \notin Bufs /\ Free # NoFun

VARIABLES heap,      \* content of every block
          code,      \* jobs[c].code
          busy,      \* cores with jobs[c].busy
          result,    \* jobs[c].result
          got,       \* what the worker on c loaded
          spawned,   \* the function last spawned on c
          call,      \* the library call in progress
          returned   \* the last result handed out, and what it should be

poolVars == <<heap, code, busy, result, got, spawned, call, returned>>
sysVars == <<mboxVars, bootVars>>
vars == <<sysVars, poolVars>>

\* A call in progress: what is to be done next, on which core and up to which
\* one, for which function.
NoCall == [name |-> "none", phase |-> "none", core |-> Bsp, last |-> Bsp, fn |-> NoFun]
Call(n, p, c, l, f) == [name |-> n, phase |-> p, core |-> c, last |-> l, fn |-> f]
Core == call.core

\* The loops of thread.parallel over the cores step over the BSP.
Skip(c) == IF c = Bsp THEN c + 1 ELSE c
Following == Skip(Core + 1)

Init ==
  /\ BootInit
  /\ heap = [b \in Bufs |-> Free]
  /\ code = [c \in Cores |-> NoBuf]
  /\ busy = {}
  /\ result = [c \in Cores |-> NoFun]
  /\ got = [c \in Cores |-> NoFun]
  /\ spawned = [c \in Cores |-> NoFun]
  /\ call = NoCall
  /\ returned = [want |-> NoFun, got |-> NoFun]

\* A program runs after boot, here on a machine with all its cores up.
CanCall == call = NoCall /\ pc = "end" /\ APs \subseteq ready

l_spawn_NotChecked(c, f) ==
  /\ CanCall
  /\ call' = Call("spawn", "prepare", c, c, f)
  /\ UNCHANGED <<sysVars, heap, code, busy, result, got, spawned, returned>>

\* thread.spawn refuses a core that already has a job.
l_spawn(c, f) ==
  /\ CanCall /\ c \notin busy
  /\ call' = Call("spawn", "prepare", c, c, f)
  /\ UNCHANGED <<sysVars, heap, code, busy, result, got, spawned, returned>>

l_join_NotChecked(c) ==
  /\ CanCall
  /\ call' = Call("join", "collect", c, c, spawned[c])
  /\ UNCHANGED <<sysVars, heap, code, busy, result, got, spawned, returned>>

\* thread.join refuses a core that has none.
l_join(c) ==
  /\ CanCall /\ c \in busy
  /\ call' = Call("join", "collect", c, c, spawned[c])
  /\ UNCHANGED <<sysVars, heap, code, busy, result, got, spawned, returned>>

\* thread.parallel starts every AP; it does not look at jobs[c].busy.
l_parallel(f) ==
  /\ CanCall /\ (Careful => busy = {})
  /\ call' = Call("parallel", "prepare", Skip(0), LastCore, f)
  /\ UNCHANGED <<sysVars, heap, code, busy, result, got, spawned, returned>>

\* start_worker: fill in the core's job ...
start_worker ==
  /\ call.phase = "prepare"
  /\ \E b \in Bufs : /\ heap[b] = Free
                     /\ heap' = [heap EXCEPT ![b] = call.fn]
                     /\ code' = [code EXCEPT ![Core] = b]
  /\ call' = [call EXCEPT !.phase = "post"]
  /\ UNCHANGED <<sysVars, busy, result, got, spawned, returned>>

\* ... and dispatch it.  thread.spawn is then over; thread.parallel goes on with
\* the next core, then with the BSP's own share.
Dispatch ==
  /\ call.phase = "post"
  /\ smp_run_on(Core, "job")
  /\ IF call.name = "spawn"
       THEN /\ busy' = busy \cup {Core}
            /\ spawned' = [spawned EXCEPT ![Core] = call.fn]
            /\ call' = NoCall
       ELSE /\ call' = Call(call.name, IF Following > call.last THEN "inline" ELSE "prepare",
                            Following, call.last, call.fn)
            /\ UNCHANGED <<busy, spawned>>
  /\ UNCHANGED <<bootVars, heap, code, result, got, returned>>

\* thread.parallel runs the BSP's share from the caller's own bytecode.
RunInline ==
  /\ call.phase = "inline"
  /\ result' = [result EXCEPT ![Bsp] = call.fn]
  /\ call' = Call(call.name, "collect", Skip(0), LastCore, call.fn)
  /\ UNCHANGED <<sysVars, heap, code, busy, got, spawned, returned>>

finish_worker_FreesFirst ==
  /\ call.phase = "collect"
  /\ code[Core] # NoBuf
  /\ heap' = [heap EXCEPT ![code[Core]] = Free]
  /\ code' = [code EXCEPT ![Core] = NoBuf]
  /\ UNCHANGED <<sysVars, busy, result, got, spawned, call, returned>>

finish_worker_KeepsCode ==
  /\ call.phase = "collect"
  /\ smp_join(Core)
  /\ code' = [code EXCEPT ![Core] = NoBuf]
  /\ returned' = [want |-> call.fn, got |-> result[Core]]
  /\ busy' = IF call.name = "join" THEN busy \ {Core} ELSE busy
  /\ call' = IF Following > call.last THEN NoCall
             ELSE Call(call.name, "collect", Following, call.last, call.fn)
  /\ UNCHANGED <<bootVars, heap, result, got, spawned>>

\* finish_worker waits for the core, frees its bytecode and hands out its result.
finish_worker ==
  /\ call.phase = "collect"
  /\ smp_join(Core)
  /\ heap' = [b \in Bufs |-> IF b = code[Core] THEN Free ELSE heap[b]]
  /\ code' = [code EXCEPT ![Core] = NoBuf]
  /\ returned' = [want |-> call.fn, got |-> result[Core]]
  /\ busy' = IF call.name = "join" THEN busy \ {Core} ELSE busy
  /\ call' = IF Following > call.last THEN NoCall
             ELSE Call(call.name, "collect", Following, call.last, call.fn)
  /\ UNCHANGED <<bootVars, result, got, spawned>>

\* run_job on an AP: load the bytecode of the core's slot ...
RunJobLoad(c) ==
  /\ ap[c] = "run" /\ running[c] = "job" /\ got[c] = NoFun
  /\ got' = [got EXCEPT ![c] = IF code[c] = NoBuf THEN Free ELSE heap[code[c]]]
  /\ UNCHANGED <<sysVars, heap, code, busy, result, spawned, call, returned>>

\* ... and leave its result there.
RunJobEnd(c) ==
  /\ got[c] # NoFun
  /\ result' = [result EXCEPT ![c] = got[c]]
  /\ got' = [got EXCEPT ![c] = NoFun]
  /\ ApReturn(c)
  /\ UNCHANGED <<bootVars, heap, code, busy, spawned, call, returned>>

Worker(c) ==
  \/ RunJobLoad(c)
  \/ RunJobEnd(c)
  \/ (ApLoop(c) /\ UNCHANGED poolVars)

Library == start_worker \/ Dispatch \/ RunInline \/ finish_worker

Next ==
  \/ BootStep /\ UNCHANGED poolVars
  \/ \E c \in APs : Worker(c) \/ l_join(c)
  \/ \E c \in APs, f \in Funs : l_spawn(c, f)
  \/ \E f \in Funs : l_parallel(f)
  \/ Library

\* Every core that is up keeps executing, time goes on, and so does the BSP
\* through boot and inside a call; an AP that never comes up is allowed.
Spec == /\ Init /\ [][Next]_vars
        /\ WF_vars(BspStep /\ UNCHANGED poolVars) /\ WF_vars(Deadline /\ UNCHANGED poolVars)
        /\ WF_vars(Library) /\ \A c \in APs : WF_vars(Worker(c))

----------------------------------------------------------------------------
\* Boot and the library use the mailbox as smp.h says it must be used: online
\* cores only, one outstanding job per core.
Contract == MboxSpec

\* A worker never loads bytecode that was freed or reused for another job, between
\* calls the only blocks allocated are the bytecode of the spawns in flight, one for
\* each, and a result handed to the program is that of the function it asked for
\* (start_worker, run_job, finish_worker, l_join).
JobsOwned ==
  /\ \A c \in APs : ap[c] = "run" /\ running[c] = "job" =>
       code[c] # NoBuf /\ heap[code[c]] # Free /\ got[c] # Free
  /\ call = NoCall => {b \in Bufs : heap[b] # Free} = {code[c] : c \in busy}
  /\ returned.want = returned.got

\* Boot gets past the SMP tests, however many APs come up (smp_join), and every
\* call of the thread library returns.
EveryWaitEnds == BootCompletes /\ (call # NoCall ~> call = NoCall)
=============================================================================
