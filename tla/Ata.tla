-------------------------------- MODULE Ata --------------------------------
(***************************************************************************)
(* The ATA driver (src/src/ata.c): bring-up, and requests split into       *)
(* commands that move their sectors word by word (PIO) or through a table  *)
(* of page-sized spans (bus-master DMA), or one page at a time through the *)
(* bounce page where a page cannot be named in the table.  Any wait for    *)
(* the drive may fail, with part of a command done.                        *)
(***************************************************************************)
EXTENDS DmaPages, Sequences, FiniteSets
LOCAL INSTANCE SequencesExt

CONSTANTS SECTOR,             \* units in a sector (code: 512 bytes of 4096)
          MAX_SECTORS,        \* sectors in a command (code: 256, by PIO and by DMA)
          PRDS_PER_TABLE,
          LBA28,              \* sectors a PIO command can address (code: 2^28)
          Requests            \* requests made: lba, count, buf, write

ASSUME AtaAssumption ==
  /\ SECTOR \in Nat \ {0} /\ PAGE_SZ % SECTOR = 0 /\ MAX_SECTORS \in Nat \ {0}
  /\ PRDS_PER_TABLE \in Nat /\ LBA28 \in Nat \ {0}

VARIABLES drive,      \* "boot", "idle", "rw", "flush" or "answered"
          present, g_dma_ok,
          io,         \* the request, with the pages a table entry can name
          count,      \* sectors still to move
          xfer,       \* pairs: unit of the drive, address it was moved to or from
          flushed,    \* CMD_FLUSH was issued after the last sector
          answer      \* what ata_read or ata_write returned

ataVars == <<drive, present, g_dma_ok, io, count, xfer, flushed, answer>>

NoIo == [lba |-> 0, count |-> 0, buf |-> 0, write |-> FALSE, named |-> {}]

AtaInit ==
  /\ drive = "boot" /\ present = FALSE /\ g_dma_ok = FALSE /\ io = NoIo /\ count = 0
  /\ xfer = {} /\ flushed = FALSE /\ answer = FALSE

\* ata_init and ata_dma_init: no drive, or one with or without a bus master.
ata_init ==
  /\ drive = "boot" /\ drive' = "idle"
  /\ present' \in BOOLEAN /\ g_dma_ok' \in BOOLEAN /\ (g_dma_ok' => present')
  /\ UNCHANGED <<io, count, xfer, flushed, answer>>

\* ata_read and ata_write.  At most one page is unmapped or above 4 GiB.
ata_request ==
  /\ drive = "idle"
  /\ \E r \in Requests :
       \E high \in {{}} \cup {{p} : p \in PagesOf(r.buf, r.count * SECTOR)} :
         io' = [lba |-> r.lba, count |-> r.count, buf |-> r.buf, write |-> r.write,
                named |-> PagesOf(r.buf, r.count * SECTOR) \ high]
  /\ count' = io'.count /\ xfer' = {} /\ flushed' = FALSE /\ answer' = FALSE
  /\ drive' = IF ~present \/ io'.count = 0 THEN "answered" ELSE "rw"
  /\ UNCHANGED <<present, g_dma_ok>>

Done == io.count - count
At(sectors) == io.buf + sectors * SECTOR

\* After a command: n sectors are done, or the request has failed.
Advance(n, ok) ==
  /\ count' = IF ok THEN count - n ELSE count
  /\ drive' = IF ~ok THEN "answered" ELSE IF count' > 0 THEN "rw" ELSE "flush"
  /\ UNCHANGED <<present, g_dma_ok, io, flushed, answer>>

\* One command of ata_pio_read or ata_pio_write.  The registers hold the count modulo
\* 256, with 0 for 256, and 28 bits of the address; a wait fails before sector s + 1.
ata_pio ==
  LET chunk == LowerOf(count, MAX_SECTORS)
      register == chunk % MAX_SECTORS
      taken == IF register = 0 THEN MAX_SECTORS ELSE register
  IN  /\ drive = "rw" /\ ~g_dma_ok
      /\ \E s \in 0 .. LowerOf(chunk, taken) :
           /\ xfer' = xfer \cup {<<((io.lba + Done) % LBA28) * SECTOR + k, Physical(At(Done) + k)>> :
                                   k \in 0 .. s * SECTOR - 1}
           /\ Advance(chunk, s = chunk)

\* The spans of build_prdt, each up to the end of a page; none if a page has no name.
Span_WholePages(va, off, bytes) == LowerOf(PAGE_SZ, bytes - off)
Span(va, off, bytes) == LowerOf(PAGE_SZ - ((va + off) % PAGE_SZ), bytes - off)
build_prdt(va, bytes) ==
  LET Offset[n \in 0 .. PRDS_PER_TABLE] ==
        IF n = 0 THEN 0 ELSE Offset[n - 1] + Span(va, Offset[n - 1], bytes)
      ends == {n \in 1 .. PRDS_PER_TABLE : Offset[n] = bytes}
      entries == CHOOSE n \in ends : \A j \in ends : n <= j
  IN  IF ends = {} \/ ~(PagesOf(va, bytes) \subseteq io.named) THEN << >>
      ELSE [n \in 1 .. entries |-> [addr |-> Physical(va + Offset[n - 1]), count |-> Span(va, Offset[n - 1], bytes)]]

\* The engine's reading of the table: the address of every unit, span after span.
DmaUnits(prdt) == FlattenSeq([n \in DOMAIN prdt |-> [k \in 1 .. prdt[n].count |-> prdt[n].addr + k - 1]])

\* ata_dma_chunk, and the turn of ata_dma_rw's loop around it.  A bounced command moves
\* at most a page, through the bounce page; one that fails may have moved a part of a
\* direct transfer, and of a bounced write.
ata_dma_chunk_Unclamped ==
  LET chunk == LowerOf(count, MAX_SECTORS)
      prdt == build_prdt(At(Done), chunk * SECTOR)
      units == IF prdt = << >> THEN [k \in 1 .. LowerOf(chunk * SECTOR, PAGE_SZ) |-> Physical(At(Done) + k - 1)] ELSE DmaUnits(prdt)
  IN  /\ drive = "rw" /\ g_dma_ok
      /\ xfer' = xfer \cup {<<(io.lba + Done) * SECTOR + k - 1, units[k]>> : k \in DOMAIN units}
      /\ Advance(chunk, TRUE)

ata_dma_chunk ==
  LET chunk == LowerOf(count, MAX_SECTORS)
      prdt == build_prdt(At(Done), chunk * SECTOR)
      bounced == prdt = << >>
      n == IF bounced THEN LowerOf(chunk, PAGE_SZ \div SECTOR) ELSE chunk
      units == IF bounced THEN [k \in 1 .. n * SECTOR |-> Physical(At(Done) + k - 1)] ELSE DmaUnits(prdt)
      whole == n * SECTOR
  IN  /\ drive = "rw" /\ g_dma_ok
      /\ \E ok \in BOOLEAN, part \in {0, whole \div 2, whole} :
           /\ ok => part = whole
           /\ bounced /\ ~io.write /\ ~ok => part = 0
           /\ xfer' = xfer \cup {<<(io.lba + Done) * SECTOR + k - 1, units[k]>> : k \in DOMAIN units \cap (1 .. part)}
           /\ Advance(n, ok)

\* The end of a request.  A write flushes the drive's cache, unless the drive is not
\* ready for it; how the flush itself ends is not looked at.
Flush ==
  /\ drive = "flush" /\ drive' = "answered"
  /\ \E ready \in BOOLEAN :
       /\ ~io.write => ready
       /\ answer' = ready /\ flushed' = (io.write /\ ready)
  /\ UNCHANGED <<present, g_dma_ok, io, count, xfer>>

\* The caller has the answer.
Answered ==
  /\ drive = "answered" /\ drive' = "idle"
  /\ io' = NoIo /\ count' = 0 /\ xfer' = {} /\ flushed' = FALSE /\ answer' = FALSE
  /\ UNCHANGED <<present, g_dma_ok>>

AtaNext == ata_init \/ ata_request \/ ata_pio \/ ata_dma_chunk \/ Flush \/ Answered

----------------------------------------------------------------------------
\* What a request moves, wherever it stops, goes between the sector it names and its
\* own place in the buffer, across commands, pages and bounced parts; a request that
\* succeeded moved all of it, and a write then has been flushed (ata_read, ata_write).
\* PIO reaches only the first 2^28 sectors.
AtaExact ==
  LET all == {<<io.lba * SECTOR + k, Physical(io.buf + k)>> : k \in 0 .. io.count * SECTOR - 1}
  IN  g_dma_ok \/ io.lba + io.count <= LBA28 =>
        /\ xfer \subseteq all
        /\ answer => xfer = all /\ io.count > 0 /\ flushed = io.write
=============================================================================
