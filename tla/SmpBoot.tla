------------------------------- MODULE SmpBoot -------------------------------
(***************************************************************************)
(* The boot sequence around SMP: smp_init's bounded wait for the APs       *)
(* (src/src/smp.c), the parallel sum and the file read on an AP            *)
(* (kernel_main, src/src/kernel.c), and the self-test of parallel Lua      *)
(* (parallel_selftest, src/src/lua/lua_thread.c).  Each of them asks       *)
(* smp_online once to decide whether to post and again to decide whether   *)
(* to join; an AP may come up at any time, or never.                       *)
(***************************************************************************)
EXTENDS SmpMailbox

CONSTANTS LastCore,    \* cpu_count - 1
          LateStart    \* an AP may report ready after smp_init has stopped waiting

ASSUME LateAssumption == LateStart \in BOOLEAN /\ LastCore \in Nat /\ Cores = 0 .. LastCore

VARIABLES pc,        \* the loop the BSP is in
          i,         \* its index
          expired,   \* the deadline of smp_init has passed
          slices     \* how often each core's slice of the sum was added up

bootVars == <<pc, i, expired, slices>>

BootInit ==
  /\ MboxInit
  /\ pc = "wait" /\ i = 0 /\ expired = FALSE
  /\ slices = [c \in Cores |-> 0]

\* The for loops over the cores: leave for `after` at the end.
Advance(after) ==
  IF i = LastCore THEN pc' = after /\ i' = 0 ELSE i' = i + 1 /\ UNCHANGED pc

\* smp_init waits for each core, until the deadline.
Wait ==
  /\ pc = "wait" /\ (smp_online(i) \/ expired)
  /\ Advance("post")
  /\ UNCHANGED <<mboxVars, expired, slices>>

Deadline ==
  /\ pc = "wait" /\ ~expired /\ expired' = TRUE
  /\ UNCHANGED <<mboxVars, pc, i, slices>>

\* The sum: a slice to every online AP ...
SumPost ==
  /\ pc = "post"
  /\ IF i # Bsp /\ smp_online(i) THEN smp_run_on(i, "sum") ELSE UNCHANGED mboxVars
  /\ Advance("own")
  /\ UNCHANGED <<expired, slices>>

\* ... one to the BSP ...
SumOwn ==
  /\ pc = "own"
  /\ slices' = [slices EXCEPT ![Bsp] = @ + 1]
  /\ pc' = "join"
  /\ UNCHANGED <<mboxVars, i, expired>>

SumJoin_OfflineSkipped ==
  /\ pc = "join"
  /\ IF i # Bsp /\ smp_online(i) THEN smp_join(i) ELSE UNCHANGED mboxVars
  /\ Advance("fsread")
  /\ UNCHANGED <<expired, slices>>

\* ... then the online APs are joined and the slices of the others done here.
SumJoin ==
  /\ pc = "join"
  /\ IF i # Bsp /\ smp_online(i)
       THEN smp_join(i) /\ UNCHANGED slices
       ELSE /\ slices' = IF i # Bsp THEN [slices EXCEPT ![i] = @ + 1] ELSE slices
            /\ UNCHANGED mboxVars
  /\ Advance("fsread")
  /\ UNCHANGED expired

\* A file is read on the first online AP, if there is one.
FsReadPost ==
  /\ pc = "fsread"
  /\ \/ \E c \in APs : /\ smp_online(c) /\ \A d \in APs : smp_online(d) => c <= d
                       /\ smp_run_on(c, "fsread")
                       /\ pc' = "fsjoin" /\ i' = c
     \/ /\ \A c \in APs : ~smp_online(c)
        /\ pc' = "luapost" /\ UNCHANGED <<mboxVars, i>>
  /\ UNCHANGED <<expired, slices>>

FsReadJoin ==
  /\ pc = "fsjoin"
  /\ smp_join(i)
  /\ pc' = "luapost" /\ i' = 0
  /\ UNCHANGED <<expired, slices>>

\* parallel_selftest posts to the online APs and joins the online APs.
LuaPost_Unchecked ==
  /\ pc = "luapost"
  /\ IF i # Bsp THEN smp_run_on(i, "lua") ELSE UNCHANGED mboxVars
  /\ Advance("luajoin")
  /\ UNCHANGED <<expired, slices>>

LuaPost ==
  /\ pc = "luapost"
  /\ IF i # Bsp /\ smp_online(i) THEN smp_run_on(i, "lua") ELSE UNCHANGED mboxVars
  /\ Advance("luajoin")
  /\ UNCHANGED <<expired, slices>>

LuaJoin_All ==
  /\ pc = "luajoin"
  /\ IF i # Bsp THEN smp_join(i) ELSE UNCHANGED mboxVars
  /\ Advance("end")
  /\ UNCHANGED <<expired, slices>>

LuaJoin ==
  /\ pc = "luajoin"
  /\ IF i # Bsp /\ smp_online(i) THEN smp_join(i) ELSE UNCHANGED mboxVars
  /\ Advance("end")
  /\ UNCHANGED <<expired, slices>>

BspStep ==
  Wait \/ SumPost \/ SumOwn \/ SumJoin \/ FsReadPost \/ FsReadJoin \/ LuaPost \/ LuaJoin

\* An AP comes up, with LateStart even after smp_init has given up on it.
ApComesUp(c) == (pc = "wait" \/ LateStart) /\ ApReady(c) /\ UNCHANGED bootVars

\* The worker's job is over; a sum adds up the core's slice.
BootJobs == {"sum", "fsread", "lua"}

JobEnds(c) ==
  /\ running[c] \in BootJobs /\ ApReturn(c)
  /\ slices' = IF running[c] = "sum" THEN [slices EXCEPT ![c] = @ + 1] ELSE slices
  /\ UNCHANGED <<pc, i, expired>>

ApLoop(c) == JobEnds(c) \/ ((ApTake(c) \/ ApDone(c)) /\ UNCHANGED bootVars)

BootStep == BspStep \/ Deadline \/ \E c \in APs : ApComesUp(c)

----------------------------------------------------------------------------
\* The slices of the sum are each added up exactly once, by the core or by the
\* BSP in its place, so that the boot's verdict on the sum is right.
EverySliceOnce == pc \notin {"wait", "post", "own", "join"} => \A c \in Cores : slices[c] = 1

\* Boot gets past the SMP tests, however many APs come up.
BootCompletes == <>(pc = "end")
=============================================================================
