----------------------------- MODULE SmpMailbox -----------------------------
(***************************************************************************)
(* The per-core work mailbox (src/src/smp.c): an application processor     *)
(* (AP) parks in ap_main polling its mailbox, the bootstrap processor      *)
(* (BSP) posts a job with smp_run_on and waits for it with smp_join.       *)
(* The operators below are the code; MboxSpec is their use as smp.h asks   *)
(* for it: only online cores, never the caller's own, one outstanding job  *)
(* per core.  Clients of the mailbox are checked against MboxSpec.         *)
(***************************************************************************)
EXTENDS Naturals

CONSTANTS Cores,    \* indices into cpus[]
          Bsp,      \* bsp_index
          Args,     \* arguments a job can be posted with
          NoArg     \* a mailbox that was never used

ASSUME CoreAssumption == Bsp \in Cores /\ NoArg \notin Args

VARIABLES ready,    \* cores whose ready flag is set
          mbox,     \* CPU_MBOX_*
          arg,      \* c->arg (c->fn is posted together with it)
          ap,       \* where ap_main is: off, polling, in the job, after it
          running   \* the argument the AP called the job with

mboxVars == <<ready, mbox, arg, ap, running>>
APs == Cores \ {Bsp}

\* smp_init up to the start of the APs.
MboxInit ==
  /\ ready = {Bsp}
  /\ mbox = [c \in Cores |-> "idle"]
  /\ arg = [c \in Cores |-> NoArg]
  /\ ap = [c \in Cores |-> "off"]
  /\ running = [c \in Cores |-> NoArg]

\* ap_main comes up and reports ready.
ApReady(c) ==
  /\ c \in APs /\ ap[c] = "off"
  /\ ap' = [ap EXCEPT ![c] = "poll"]
  /\ ready' = ready \cup {c}
  /\ UNCHANGED <<mbox, arg, running>>

\* ap_main finds its mailbox pending and calls the job ...
ApTake_StaleArg(c) ==
  /\ ap[c] = "poll" /\ mbox[c] = "pending"
  /\ ap' = [ap EXCEPT ![c] = "run"]
  /\ UNCHANGED <<ready, mbox, arg, running>>

ApTake(c) ==
  /\ ap[c] = "poll" /\ mbox[c] = "pending"
  /\ ap' = [ap EXCEPT ![c] = "run"]
  /\ running' = [running EXCEPT ![c] = arg[c]]
  /\ UNCHANGED <<ready, mbox, arg>>

\* ... which returns ...
ApReturn(c) ==
  /\ ap[c] = "run"
  /\ ap' = [ap EXCEPT ![c] = "returned"]
  /\ UNCHANGED <<ready, mbox, arg, running>>

\* ... and reports it done.
ApDone(c) ==
  /\ ap[c] = "returned"
  /\ mbox' = [mbox EXCEPT ![c] = "done"]
  /\ ap' = [ap EXCEPT ![c] = "poll"]
  /\ UNCHANGED <<ready, arg, running>>

smp_online(c) == c \in ready

smp_run_on(c, a) ==
  /\ arg' = [arg EXCEPT ![c] = a]
  /\ mbox' = [mbox EXCEPT ![c] = "pending"]
  /\ UNCHANGED <<ready, ap, running>>

\* smp_join spins until the mailbox is done, so it is a step that waits.
smp_join_AnyState(c) ==
  /\ mbox' = [mbox EXCEPT ![c] = "idle"]
  /\ UNCHANGED <<ready, arg, ap, running>>

smp_join(c) ==
  /\ mbox[c] = "done"
  /\ mbox' = [mbox EXCEPT ![c] = "idle"]
  /\ UNCHANGED <<ready, arg, ap, running>>

----------------------------------------------------------------------------
\* Steps the mailbox takes by itself, and what its clients may do with it.
ApStep(c) == ApTake(c) \/ ApReturn(c) \/ ApDone(c)

ContractPost(c, a) == smp_online(c) /\ mbox[c] = "idle" /\ smp_run_on(c, a)

MboxNext ==
  \/ \E c \in APs : ApReady(c) \/ ApStep(c) \/ smp_join(c)
  \/ \E c \in APs, a \in Args : ContractPost(c, a)

MboxSpec == MboxInit /\ [][MboxNext]_mboxVars

----------------------------------------------------------------------------
\* Every variable has its type.
MboxTypeOK ==
  /\ ready \subseteq Cores
  /\ mbox \in [Cores -> {"idle", "pending", "done"}]
  /\ arg \in [Cores -> Args \cup {NoArg}]
  /\ ap \in [Cores -> {"off", "poll", "run", "returned"}]
  /\ running \in [Cores -> Args \cup {NoArg}]

\* While a core is in a job, that job is the one outstanding in its mailbox:
\* nothing was posted over it and nobody has been told that it is done.  So the
\* argument a job works on cannot be reclaimed under it.
JobIsOutstanding ==
  \A c \in APs : ap[c] \in {"run", "returned"} => /\ mbox[c] = "pending"
                                                  /\ running[c] = arg[c]
                                                  /\ c \in ready

\* "done" is only ever said of a job that ran: the core has called the job with
\* the argument that was posted last and is back in its loop.
DoneMeansRan ==
  \A c \in APs : mbox[c] = "done" => ap[c] = "poll" /\ running[c] = arg[c] /\ arg[c] # NoArg

\* The mailbox is safe for what both sides do with a job's argument: the core
\* works on the one outstanding job, and "done" is said of no other
\* (ap_main, smp_run_on, smp_join).
MailboxSound == JobIsOutstanding /\ DoneMeansRan
=============================================================================
