-------------------------------- MODULE Usb --------------------------------
(***************************************************************************)
(* The xHCI driver at work (src/src/xhci.c): the Bulk-Only-Transport       *)
(* commands of msc_read and msc_write, the recovery of a stalled endpoint, *)
(* and the reports of a boot keyboard, which arrive at any time and are    *)
(* dispatched by whoever drains the event ring, a synchronous wait or      *)
(* xhci_poll.  A wait ends with its event, or after its deadline; the      *)
(* transfer it gave up on stays with the controller.  The driver runs on   *)
(* the BSP alone, and its nap in hlt ends at the latest with the next      *)
(* timer tick, so the MSI-X vector decides no outcome and is left out.     *)
(* A block is a value; the bounce buffer holds one block.  The controller, *)
(* the disk and the keyboard are external.                                 *)
(***************************************************************************)
EXTENDS XhciRings, UsbEnumerate

CONSTANTS Lbas,      \* block numbers, from 1
          MaxCount,  \* blocks of one request
          Keys,      \* the keys of the keyboard
          Scenarios  \* what is connected, how many steps of the enumeration fail,
                     \* and bounds on what follows: calls of msc_read and msc_write,
                     \* waits that give up (late), requests the disk refuses or fails
                     \* (stalls), reports of the keyboard and of the mouse, and
                     \* events that belong to nobody (noise)

VARIABLES pc,       \* what the driver waits for: "idle", "cbw", "data", "csw", ...
          call,     \* the request: its direction, next block, blocks left, and the data
          rec,      \* recover_endpoint: the endpoint, and where to go on
          tag,      \* msc.tag
          cbw, csw, \* the wrappers in memory
          bounce,   \* msc.bounce
          result,   \* what the last request returned
          disk, dev, \* the device: its blocks, and its place in the protocol
          shut,     \* endpoints the device itself has halted
          last,     \* hid_kbd.last
          report,   \* hid_kbd.report and hid_mouse.report, the buffers
          typed,    \* characters injected, by key
          moved,    \* motion injected: of reports, and of failed transfers
          down, presses, \* the keyboard: keys down in its last report; presses reported
          motion,   \* the mouse: motion reported
          gaveUp,   \* some wait reached its deadline
          left      \* what is left of the bounds

driver == <<pc, call, rec, tag, cbw, result>>
storage == <<disk, dev, shut, csw, bounce>>
hid == <<last, report, typed, moved, down, presses, motion>>
vars == <<ringVars, enumVars, driver, storage, hid, gaveUp, left>>

Hids == {"kbd", "mouse"}
Junk == 0              \* bytes of the wrong kind
Written(l) == 10 * (1 + left.requests) + l   \* the new content of block l in this request

\* Before xhci_init; block l holds l.
Init ==
  /\ RingsInit
  /\ pc = "idle" /\ call = [write |-> FALSE, from |-> 0, lba |-> 0, todo |-> 0, data |-> <<>>]
  /\ rec = [ep |-> "in", back |-> "fail"]
  /\ tag = 0 /\ cbw = [tag |-> 0, write |-> FALSE, lba |-> 0]
  /\ csw = [tag |-> 0, ok |-> FALSE] /\ bounce = Junk /\ result = FALSE
  /\ disk = [l \in Lbas |-> l]
  /\ dev = [phase |-> "idle", tag |-> 0, lba |-> 0, ok |-> TRUE] /\ shut = {}
  /\ last = {} /\ report = [kbd |-> {}, mouse |-> 0] /\ down = {}
  /\ moved = [reported |-> 0, again |-> 0] /\ motion = 0
  /\ typed = [k \in Keys |-> 0] /\ presses = [k \in Keys |-> 0]
  /\ gaveUp = FALSE
  /\ \E c \in Scenarios : EnumInit(c.topology, c.faults) /\ left = c.left

----------------------------------------------------------------------------
\* xhci_init: enumeration, which asks for the first report of each input device.
Boot ==
  /\ Enumerate
  /\ LET new == {h \in Hids : bound'[h] # bound[h]}
     IN  /\ ring' = [r \in Rings |-> IF r \in new THEN ring_push(ring[r], "report") ELSE ring[r]]
         /\ asked' = [r \in Rings |-> IF r \in new THEN Append(asked[r], "report") ELSE asked[r]]
  /\ UNCHANGED <<hc, etrb, evt, hcevt, posted>>
  /\ UNCHANGED <<driver, storage, hid, gaveUp, left>>

----------------------------------------------------------------------------
(* The driver: one Bulk-Only-Transport command per block.                  *)

\* bulk_xfer up to its wait.
bulk_xfer(e, buf) == Submit(e, <<buf>>)

Return(ok) ==
  /\ pc' = "idle" /\ result' = ok
  /\ UNCHANGED <<ring, hc, asked, call, rec, tag, cbw, bounce>>

\* bot_command up to its first wait.
SendCbw(w, l) ==
  /\ tag' = tag + 1
  /\ cbw' = [tag |-> tag + 1, write |-> w, lba |-> l]
  /\ bulk_xfer("out", "cbw")
  /\ pc' = "cbw"

\* The data phase or the status phase begins.
Phase(p, e, buf) ==
  /\ bulk_xfer(e, buf)
  /\ pc' = p
  /\ UNCHANGED <<call, rec, tag, cbw, bounce, result>>

DataEp == IF call.write THEN "out" ELSE "in"

\* recover_endpoint up to its first wait.
recover_endpoint(e, back) ==
  /\ rec' = [ep |-> e, back |-> back]
  /\ Submit("cmd", <<[op |-> "reset", ep |-> e]>>)
  /\ pc' = "reset"
  /\ UNCHANGED <<call, tag, cbw, bounce, result>>

\* The command was done: copy the block out, and the next one or the end.
Success ==
  LET data == IF call.write THEN call.data ELSE Append(call.data, bounce)
      l == call.lba + 1
  IN  /\ call' = [call EXCEPT !.lba = l, !.todo = @ - 1, !.data = data]
      /\ UNCHANGED rec
      /\ IF call.todo = 1
         THEN /\ pc' = "idle" /\ result' = TRUE
              /\ UNCHANGED <<ring, hc, asked, tag, cbw, bounce>>
         ELSE /\ SendCbw(call.write, l)
              /\ bounce' = IF call.write THEN call.data[l] ELSE bounce
              /\ UNCHANGED result

cc_ok(cc) == cc = "ok"

CswGood_NoTag == csw.ok

\* The signature and the status of the CSW, and the tag of this command.
CswGood == csw.tag = tag /\ csw.ok

\* What bot_command does with the outcome cc of the wait it is in.
bot_command(cc) ==
  \/ /\ pc = "cbw"
     /\ \/ cc_ok(cc) /\ Phase("data", DataEp, "data")
        \/ cc = "stall" /\ recover_endpoint("out", "fail")
        \/ ~cc_ok(cc) /\ cc # "stall" /\ Return(FALSE)
  \/ /\ pc = "data"
     /\ \/ cc_ok(cc) /\ Phase("csw", "in", "csw")
        \/ cc = "stall" /\ recover_endpoint(DataEp, "csw")
        \/ ~cc_ok(cc) /\ cc # "stall" /\ Return(FALSE)
  \/ /\ pc = "csw" /\ cc = "stall" /\ recover_endpoint("in", "retry")
  \/ /\ (pc = "csw" /\ cc # "stall") \/ pc = "retry"
     /\ IF cc_ok(cc) /\ CswGood THEN Success ELSE Return(FALSE)

\* What recover_endpoint does after each of its three waits, whatever came.
Recover ==
  \/ /\ pc = "reset"
     /\ ring' = [ring EXCEPT ![rec.ep] = ring_reset,
                             !["cmd"] = ring_push(@, [op |-> "setdeq", ep |-> rec.ep])]
     /\ asked' = [asked EXCEPT ![rec.ep] = <<>>,
                               !["cmd"] = Append(@, [op |-> "setdeq", ep |-> rec.ep])]
     /\ pc' = "setdeq"
     /\ UNCHANGED <<hc, call, rec, tag, cbw, bounce, result>>
  \/ /\ pc = "setdeq"
     /\ Submit("ep0", <<[setup |-> rec.ep], [setup |-> "none"]>>)
     /\ pc' = "clear"
     /\ UNCHANGED <<call, rec, tag, cbw, bounce, result>>
  \/ /\ pc = "clear"
     /\ IF rec.back = "fail" THEN Return(FALSE) ELSE Phase(rec.back, "in", "csw")

\* The event the driver waits for: a command completion, or the transfer event
\* of the endpoint, whichever of its transfers it reports.
Awaited == CASE pc = "cbw" -> "out" [] pc = "data" -> DataEp [] pc \in {"csw", "retry"} -> "in"
             [] pc \in {"reset", "setdeq"} -> "cmd" [] pc = "clear" -> "ep0" [] OTHER -> "none"

\* msc_read and msc_write.
Request(w, l, n) ==
  /\ boot = "up" /\ bound["msc"] # 0 /\ pc = "idle" /\ left.requests > 0 /\ l + n - 1 \in Lbas
  /\ call' = [write |-> w, from |-> l, lba |-> l, todo |-> n,
              data |-> IF w THEN [b \in Lbas |-> Written(b)] ELSE <<>>]
  /\ SendCbw(w, l)
  /\ bounce' = IF w THEN Written(l) ELSE bounce
  /\ left' = [left EXCEPT !.requests = @ - 1]
  /\ UNCHANGED <<enumVars, etrb, evt, hcevt, posted, rec, result, disk, dev, shut, csw, hid, gaveUp>>

\* hid_kbd_report: a key down now and not in the previous report is typed.
Fresh == report["kbd"] \ last

hid_kbd_report_Repeats ==
  /\ typed' = [k \in Keys |-> typed[k] + IF k \in report["kbd"] THEN 1 ELSE 0]
  /\ last' = report["kbd"]

hid_kbd_report ==
  /\ typed' = [k \in Keys |-> typed[k] + IF k \in Fresh THEN 1 ELSE 0]
  /\ last' = report["kbd"]

\* hid_mouse_report: the motion in the buffer, that of the report before if the
\* transfer failed.
hid_mouse_report(cc) ==
  moved' = IF cc_ok(cc) THEN [moved EXCEPT !.reported = @ + report["mouse"]]
                        ELSE [moved EXCEPT !.again = @ + report["mouse"]]

\* hid_dispatch: handle the report, whatever its completion code, and ask for
\* the next one.
hid_dispatch(h, cc) ==
  /\ IF h = "kbd" THEN hid_kbd_report /\ UNCHANGED moved
                  ELSE hid_mouse_report(cc) /\ UNCHANGED <<typed, last>>
  /\ Submit(h, <<"report">>)
  /\ UNCHANGED <<report, down, presses, motion>>

\* One event taken: by wait_event or wait_transfer while pc waits or the boot
\* enumerates, by xhci_poll while the driver is idle.
TakeEvent ==
  /\ next_event
  /\ \/ /\ Event.ep = Awaited
        /\ bot_command(Event.cc) \/ Recover
        /\ UNCHANGED hid
     \/ /\ Event.ep \in Hids
        /\ hid_dispatch(Event.ep, Event.cc)
        /\ UNCHANGED <<driver, bounce>>
     \/ /\ Event.ep \notin {Awaited} \cup Hids
        /\ UNCHANGED <<ring, hc, asked, driver, bounce, hid>>
  /\ UNCHANGED <<enumVars, disk, dev, shut, csw, left, gaveUp>>

\* A wait for a device reaches its deadline with no event waiting.
GiveUp ==
  /\ Awaited \in {"out", "in", "ep0"} /\ ~HasEvent /\ left.late > 0
  /\ left' = [left EXCEPT !.late = @ - 1] /\ gaveUp' = TRUE
  /\ bot_command("timeout") \/ Recover
  /\ UNCHANGED <<enumVars, etrb, evt, hcevt, posted, disk, dev, shut, csw, hid>>

----------------------------------------------------------------------------
(* The controller and the devices (external).                              *)

Done(e, cc) == Post([ep |-> e, cc |-> cc])

\* Commands: RESET_ENDPOINT and SET_TR_DEQUEUE.
Command ==
  /\ HasTrb("cmd")
  /\ LET q == Trb("cmd")
         fits == hc[q.ep].state = IF q.op = "reset" THEN "halted" ELSE "stopped"
         h == Follow("cmd")
     IN  /\ ring' = [ring EXCEPT !["cmd"].trb[h.deq].req = NoReq]
         /\ hc' = [hc EXCEPT !["cmd"] = [h EXCEPT !.deq = @ + 1],
                             ![q.ep] = IF ~fits THEN @
                                       ELSE IF q.op = "reset" THEN [@ EXCEPT !.state = "stopped"]
                                       ELSE [@ EXCEPT !.deq = 0, !.ccs = 1]]
         /\ Done("cmd", IF fits THEN "ok" ELSE "error")
  /\ asked' = [asked EXCEPT !["cmd"] = IF @ = <<>> THEN @ ELSE Tail(@)]
  /\ UNCHANGED <<enumVars, driver, storage, hid, left, gaveUp>>

\* CLEAR_FEATURE(ENDPOINT_HALT): the setup stage takes effect, the status
\* stage reports.
Control ==
  /\ HasTrb("ep0")
  /\ Take("ep0", "running")
  /\ LET e == Trb("ep0").setup
     IN  IF e # "none" THEN shut' = shut \ {e} /\ UNCHANGED <<etrb, evt, hcevt, posted>>
                       ELSE Done("ep0", "ok") /\ UNCHANGED shut
  /\ UNCHANGED <<enumVars, driver, disk, dev, csw, bounce, hid, left, gaveUp>>

\* A bulk request is refused: the endpoint is halted on both sides.  A device
\* that refuses data still owes a status, which then says that it failed.
Stall(e) ==
  /\ HasTrb(e)
  /\ IF e \in shut THEN UNCHANGED <<left, dev>>
     ELSE /\ left.stalls > 0
          /\ left' = [left EXCEPT !.stalls = @ - 1]
          /\ dev' = IF dev.phase = e THEN [dev EXCEPT !.phase = "status", !.ok = FALSE] ELSE dev
  /\ shut' = shut \cup {e}
  /\ Take(e, "halted")
  /\ Done(e, "stall")
  /\ UNCHANGED <<enumVars, driver, disk, csw, bounce, hid, gaveUp>>

\* The device takes what the host sends: a wrapper when it is idle, the data
\* of a write; what comes in the wrong phase is not a wrapper and is refused,
\* or is not the data it should be.
BulkOut ==
  /\ HasTrb("out") /\ "out" \notin shut
  /\ \/ /\ dev.phase = "idle" /\ Trb("out") = "cbw"
        /\ \E ok \in {TRUE, left.stalls = 0} :
             /\ dev' = [phase |-> IF cbw.write THEN "out" ELSE "in", tag |-> cbw.tag,
                        lba |-> cbw.lba, ok |-> ok]
             /\ left' = [left EXCEPT !.stalls = IF ok THEN @ ELSE @ - 1]
        /\ UNCHANGED disk
     \/ /\ dev.phase = "out"
        /\ disk' = IF dev.ok
                   THEN [disk EXCEPT ![dev.lba] = IF Trb("out") = "data" THEN bounce ELSE Junk]
                   ELSE disk
        /\ dev' = [dev EXCEPT !.phase = "status"]
        /\ UNCHANGED left
  /\ Take("out", "running")
  /\ Done("out", "ok")
  /\ UNCHANGED <<enumVars, driver, shut, csw, bounce, hid, gaveUp>>

\* The device sends its data, then its status, into the buffer that is posted;
\* a block does not fit into the buffer of a status.
BulkIn ==
  /\ HasTrb("in") /\ "in" \notin shut
  /\ \/ /\ dev.phase = "in"
        /\ IF Trb("in") = "data"
           THEN /\ bounce' = disk[dev.lba]
                /\ Take("in", "running") /\ Done("in", "ok")
           ELSE /\ Take("in", "halted") /\ Done("in", "babble")
                /\ UNCHANGED bounce
        /\ dev' = [dev EXCEPT !.phase = "status"]
        /\ UNCHANGED csw
     \/ /\ dev.phase = "status"
        /\ IF Trb("in") = "csw"
           THEN csw' = [tag |-> dev.tag, ok |-> dev.ok] /\ UNCHANGED bounce
           ELSE bounce' = Junk /\ UNCHANGED csw
        /\ Take("in", "running") /\ Done("in", "ok")
        /\ dev' = [dev EXCEPT !.phase = "idle"]
  /\ UNCHANGED <<enumVars, driver, disk, shut, hid, left, gaveUp>>

\* The keyboard reports a change of its keys, the mouse that it moved, or the
\* transfer fails.
Report(h) ==
  /\ HasTrb(h) /\ left[h] > 0
  /\ left' = [left EXCEPT ![h] = @ - 1]
  /\ \/ /\ IF h = "kbd"
           THEN \E keys \in SUBSET Keys \ {down} :
                  /\ report' = [report EXCEPT !.kbd = keys] /\ down' = keys
                  /\ presses' = [k \in Keys |-> presses[k] + IF k \in keys \ down THEN 1 ELSE 0]
                  /\ UNCHANGED motion
           ELSE /\ report' = [report EXCEPT !.mouse = 1] /\ motion' = motion + 1
                /\ UNCHANGED <<down, presses>>
        /\ Take(h, "running") /\ Done(h, "ok")
     \/ /\ Take(h, "halted") /\ Done(h, "error")
        /\ UNCHANGED <<report, down, presses, motion>>
  /\ UNCHANGED <<enumVars, driver, storage, last, typed, moved, gaveUp>>

\* A port status change.
Noise ==
  /\ boot = "up" /\ left.noise > 0
  /\ left' = [left EXCEPT !.noise = @ - 1]
  /\ Done("port", "ok")
  /\ UNCHANGED <<enumVars, ring, hc, asked, driver, storage, hid, gaveUp>>

Next ==
  \/ Boot
  \/ \E w \in BOOLEAN, l \in Lbas, n \in 1 .. MaxCount : Request(w, l, n)
  \/ TakeEvent \/ GiveUp
  \/ Command \/ Control \/ BulkOut \/ BulkIn \/ (\E e \in {"in", "out"} : Stall(e))
  \/ (\E h \in Hids : Report(h)) \/ Noise

Spec == Init /\ [][Next]_vars

----------------------------------------------------------------------------
\* A request that returns TRUE did what was asked.  The blocks read are those of
\* the disk even though a transfer that was given up may complete during any
\* later command (the tag of the CSW in bot_command, the shared wrappers and
\* bounce buffer); the blocks written are on the disk as long as no transfer
\* was given up, whatever was refused and recovered before.
StorageExact ==
  [][ (pc # "idle" /\ pc' = "idle" /\ result') =>
        IF call'.write
        THEN ~gaveUp => \A l \in call'.from .. call'.lba - 1 : disk'[l] = call'.data[l]
        ELSE call'.data = [i \in 1 .. call'.lba - call'.from |-> disk'[call'.from + i - 1]] ]_vars

\* Every press the keyboard reported is typed exactly once, and all motion the
\* mouse reported is added, whoever takes their events and whatever the driver
\* is waiting for; the next report is asked for exactly when the last one has
\* been handled (hid_dispatch, hid_kbd_report, hid_mouse_report).
InputOnce ==
  LET events(h) == {i \in DOMAIN posted : posted[i].ep = h}
      waits(h) == \E i \in events(h) : cc_ok(posted[i].cc)
  IN  /\ \A h \in Hids :
           Len(asked[h]) + Cardinality(events(h)) = IF bound[h] = 0 THEN 0 ELSE 1
      /\ \A k \in Keys : presses[k] = typed[k] + IF waits("kbd") /\ k \in Fresh THEN 1 ELSE 0
      /\ motion = moved.reported + IF waits("mouse") THEN 1 ELSE 0
=============================================================================
