----------------------------- MODULE NvmeDevice -----------------------------
(***************************************************************************)
(* Bring-up of the NVMe controller (nvme_init, identify, create_io_queues, *)
(* src/src/nvme.c) with the frames it allocates and frees, and the         *)
(* transfers it then serves (nvme_rw, build_prps).  A submitted admin      *)
(* command succeeds, is refused, or times out; after a timeout the         *)
(* controller may still use the page the command named, until it is        *)
(* disabled.                                                               *)
(***************************************************************************)
EXTENDS DmaPages, FiniteSets

CONSTANTS ListPower,    \* 2^ListPower entries in the PRP list page (code: 9)
          Mdts,         \* transfer limits a controller may report
          BlockSizes,   \* block sizes a namespace may report
          Blocks,       \* largest request
          Hangs         \* admin commands may time out, and so may a disable

ASSUME DeviceAssumption ==
  /\ ListPower \in Nat /\ Blocks \in Nat
  /\ Mdts \subseteq Nat /\ BlockSizes \subseteq Nat \ {0} /\ Hangs \in BOOLEAN

VARIABLES stage,
          owned,      \* frames the driver has allocated and not freed
          live,       \* CC.EN is set, or was and has not been seen to clear
          refs,       \* frames the controller has been told to use
          mdts, bs,   \* IDENTIFY data: mdts and ns.block_size
          maxBlocks,  \* ns.max_cmd_blocks
          req,        \* the request of nvme_rw: first block, blocks, buffer, mapped pages
          at,         \* blocks moved so far
          moved,      \* pairs: unit of the device, address it was moved to or from
          largest     \* the largest command so far, in units

deviceVars == <<stage, owned, live, refs, mdts, bs, maxBlocks, req, at, moved, largest>>

Entries == 2 ^ ListPower
Admin == {"admin sq", "admin cq"}
IoSq == "io sq"
IoCq == "io cq"
Id == "identify"
Staging == {"bounce", "prp list"}

Outcomes == {"ok", "refused"} \cup (IF Hangs THEN {"timeout"} ELSE {})
NoRequest == [lba |-> 0, count |-> 0, buf |-> 0, mapped |-> {}]

DeviceInit ==
  /\ stage = "probe" /\ owned = {} /\ live = FALSE /\ refs = {}
  /\ mdts = 0 /\ bs = 1 /\ maxBlocks = 0
  /\ req = NoRequest /\ at = 0 /\ moved = {} /\ largest = 0

----------------------------------------------------------------------------
(* nvme_init.                                                              *)

NamespaceUnset == UNCHANGED <<mdts, bs, maxBlocks>>
Idle == UNCHANGED <<req, at, moved, largest>>

\* No controller, too small a queue, or a reset that times out: nothing allocated.
Probe ==
  /\ stage = "probe"
  /\ stage' \in {"off", "enable"}
  /\ UNCHANGED <<owned, live, refs>> /\ NamespaceUnset /\ Idle

\* The admin queues, AQA/ASQ/ACQ, CC.EN and wait_ready.
Enable ==
  /\ stage = "enable"
  /\ owned' = owned \cup Admin /\ refs' = refs \cup Admin /\ live' = TRUE
  /\ stage' \in {"controller", "fail"}
  /\ NamespaceUnset /\ Idle

\* identify allocates a page, runs the command, and the page is freed in every
\* case: by identify when the command failed, by nvme_init when it has been read.
identify(outcome) ==
  /\ refs' = IF outcome = "timeout" THEN refs \cup {Id} ELSE refs
  /\ UNCHANGED <<owned, live, maxBlocks>> /\ Idle

IdentifyController ==
  /\ stage = "controller"
  /\ \E outcome \in Outcomes :
       /\ identify(outcome)
       /\ IF outcome = "ok" THEN stage' = "namespace" /\ mdts' \in Mdts
                            ELSE stage' = "fail" /\ UNCHANGED mdts
  /\ UNCHANGED bs

IdentifyNamespace ==
  /\ stage = "namespace"
  /\ \E outcome \in Outcomes :
       /\ identify(outcome)
       /\ IF outcome = "ok" THEN bs' \in BlockSizes /\ stage' = IF bs' > PAGE_SZ THEN "fail" ELSE "limit"
                            ELSE stage' = "fail" /\ UNCHANGED bs
  /\ UNCHANGED mdts

\* The largest command: what the PRP list covers, or less if the controller says so.
Limit_OnePageMore ==
  /\ stage = "limit" /\ stage' = "create"
  /\ maxBlocks' = (IF mdts # 0 /\ mdts < ListPower THEN 2 ^ mdts * PAGE_SZ
                                                   ELSE (Entries + 1) * PAGE_SZ) \div bs
  /\ UNCHANGED <<owned, live, refs, mdts, bs>> /\ Idle

Limit ==
  /\ stage = "limit" /\ stage' = "create"
  /\ maxBlocks' = (IF mdts # 0 /\ mdts < ListPower THEN 2 ^ mdts * PAGE_SZ
                                                   ELSE Entries * PAGE_SZ) \div bs
  /\ UNCHANGED <<owned, live, refs, mdts, bs>> /\ Idle

\* create_io_queues: the completion queue, then the submission queue.  On failure
\* their frames are freed at once; the rest of the clean-up is at fail.
create_io_queues ==
  /\ stage = "create"
  /\ \E cq, sq \in Outcomes :
       LET made == cq = "ok" /\ sq = "ok"
       IN  /\ refs' = refs \cup (IF cq = "refused" THEN {} ELSE {IoCq})
                           \cup (IF cq # "ok" \/ sq = "refused" THEN {} ELSE {IoSq})
           /\ owned' = IF made THEN owned \cup {IoSq, IoCq} \cup Staging ELSE owned
           /\ stage' = IF made THEN "present" ELSE "fail"
  /\ UNCHANGED <<live, mdts, bs, maxBlocks>> /\ Idle

Fail_KeepsAdminCq ==
  /\ stage = "fail" /\ stage' = "off"
  /\ live' = FALSE /\ refs' = {}
  /\ owned' = owned \ {"admin sq"}
  /\ NamespaceUnset /\ Idle

\* fail: disable, wait_ready(0) whose answer is not looked at, free the admin queues.
Fail ==
  /\ stage = "fail" /\ stage' = "off"
  /\ \/ live' = FALSE /\ refs' = {}
     \/ Hangs /\ UNCHANGED <<live, refs>>
  /\ owned' = owned \ Admin
  /\ NamespaceUnset /\ Idle

----------------------------------------------------------------------------
(* nvme_rw.                                                                *)

\* build_prps: prp1 with its offset, then nothing, one page, or the list.
Prp2_Unaligned(va, len) ==
  LET first == PAGE_SZ - (va % PAGE_SZ)
      pages == Ceil(len - first, PAGE_SZ)
  IN  IF len <= first THEN << >> ELSE [i \in 1 .. pages |-> Physical(va + i * PAGE_SZ)]

Prp2(va, len) ==
  LET first == PAGE_SZ - (va % PAGE_SZ)
      pages == Ceil(len - first, PAGE_SZ)
  IN  IF len <= first THEN << >> ELSE [i \in 1 .. pages |-> Physical(va + first + (i - 1) * PAGE_SZ)]

build_prps(va, len) == PagesOf(va, len) \subseteq req.mapped

\* The controller's reading of the pointers: unit k of a command.
DmaAddress(prp1, prp2, k) ==
  LET first == PAGE_SZ - (prp1 % PAGE_SZ)
  IN  IF k < first THEN prp1 + k
      ELSE prp2[(k - first) \div PAGE_SZ + 1] + ((k - first) % PAGE_SZ)

\* A caller's request: any blocks, any alignment of the buffer, any pages unmapped.
Request ==
  /\ stage = "present"
  /\ \E lba \in {0, 3}, count \in 1 .. Blocks, buf \in 0 .. PAGE_SZ - 1 :
       \E unmapped \in SUBSET PagesOf(buf, count * bs) :
         /\ Cardinality(unmapped) <= 1
         /\ req' = [lba |-> lba, count |-> count, buf |-> buf,
                    mapped |-> PagesOf(buf, count * bs) \ unmapped]
  /\ at' = 0 /\ moved' = {} /\ stage' = "rw"
  /\ UNCHANGED <<owned, live, refs, mdts, bs, maxBlocks, largest>>

\* One turn of the loop with a command that succeeds.  Directly the command moves
\* what the PRPs say; otherwise it moves up to a page through the bounce buffer.
nvme_rw ==
  /\ stage = "rw" /\ at < req.count
  /\ LET va     == req.buf + at * bs
         most   == LowerOf(req.count - at, maxBlocks)
         direct == build_prps(va, most * bs)
         n      == IF direct THEN most ELSE LowerOf(most, PAGE_SZ \div bs)
         unit(k)    == (req.lba + at) * bs + k
         address(k) == IF direct THEN DmaAddress(Physical(va), Prp2(va, n * bs), k)
                                 ELSE Physical(va + k)
     IN  /\ moved' = moved \cup {<<unit(k), address(k)>> : k \in 0 .. n * bs - 1}
         /\ largest' = IF n * bs > largest THEN n * bs ELSE largest
         /\ at' = at + n
  /\ UNCHANGED <<stage, owned, live, refs, mdts, bs, maxBlocks, req>>

\* The loop ends, or a command fails and nvme_rw returns false.
Return ==
  /\ stage = "rw"
  /\ stage' = "present"
  /\ req' = NoRequest /\ at' = 0 /\ moved' = {} /\ largest' = 0
  /\ UNCHANGED <<owned, live, refs, mdts, bs, maxBlocks>>

DeviceNext ==
  \/ Probe \/ Enable \/ IdentifyController \/ IdentifyNamespace \/ Limit
  \/ create_io_queues \/ Fail
  \/ Request \/ nvme_rw \/ Return

----------------------------------------------------------------------------
\* A failed bring-up gives every frame back, and one that succeeded owns every
\* frame the controller was told about: "a failed init must not leak".
NoLeak ==
  /\ stage = "off" => owned = {}
  /\ stage \in {"present", "rw"} => live /\ refs \cup Staging = owned

\* Every unit of a request is moved between its place on the device and its own
\* address, whatever the alignment, the pages and the split into commands; the
\* addresses of a command fit its prp1 and the one page of PRP list, and no
\* command is larger than the controller takes.
PrpExact ==
  /\ stage = "rw" => moved = {<<req.lba * bs + k, Physical(req.buf + k)>> : k \in 0 .. at * bs - 1}
  /\ stage = "rw" /\ at < req.count
       => LET va == req.buf + at * bs
          IN  Cardinality(PagesOf(va, LowerOf(req.count - at, maxBlocks) * bs)) - 1 <= Entries
  /\ mdts # 0 => largest <= 2 ^ mdts * PAGE_SZ
=============================================================================
