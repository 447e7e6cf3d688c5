--------------------------------- MODULE Xhci ---------------------------------
(***************************************************************************)
(* The xHCI host controller driver (drivers/usb/xhci.c): the command ring, *)
(* one transfer ring per endpoint and the event ring, with their cycle     *)
(* bits, the interrupt handler that consumes events and enumerates devices *)
(* while it polls the same event ring, and the controller that runs        *)
(* concurrently (external: as the driver uses it).                         *)
(*                                                                         *)
(* A command or transfer request block (TRB) keeps its cycle bit c and a   *)
(* number n that only the properties read; what it asks for is its op.     *)
(***************************************************************************)
EXTENDS Integers, Sequences, FiniteSets

CONSTANTS Port,      \* root hub ports
          NSlots,    \* xhci->nr_slot
          CmdSize,   \* entries of the command ring
          RingSize,  \* entries of the event ring
          TrSize,    \* entries of a transfer ring (each of the three has 256 in the code)
          Reads,     \* descriptor reads of configure_all_endpoints
          Budgets    \* what the environment may do in a behaviour: records of
                     \* ports and devs: the ports and devices used, plugs: port changes, keys: inputs of
                     \* keyboards and mice, bounces: port changes that the driver does
                     \* not see, odd: port changes in mid-handler, timeouts, failures

Dev == {"kbd", "mouse", "disk"}

ASSUME XhciAssumption == /\ 0 \notin Port
                         /\ NSlots \in Nat /\ Reads \in Nat
                         /\ CmdSize \in Nat \ {0, 1} /\ RingSize \in Nat \ {0, 1}
                         /\ TrSize \in Nat \ {0, 1}
                         /\ Budgets \subseteq [ports : SUBSET Port, devs : SUBSET Dev, plugs : Nat, keys : Nat,
                                         bounces : Nat, odd : Nat]

VARIABLES cmd,       \* cmd_ring, cmd_ring_enqueue_ptr; sent counts the commands
          ev,        \* event ring memory, event_ring_ccs, and the ERDP register
          tr,        \* tr[p][e]: port[p].transfer_ring_status[e]
          mem,       \* mem[g]: the transfer ring of the g-th allocation
          slotId,    \* port[p].slot_id
          dcbaa,     \* dcbaa[s]: whose output context it points to; dcbaa[0]: the scratchpad
          devs,      \* usb_dev_list, latest first
          inflight,  \* inflight_transfer_list: TRB address and completion callback
          drv,       \* the interrupt handler
          hc,        \* the controller: its event and command ring pointers, its slots
          hcEp,      \* hcEp[s][e]: the controller's pointer into an endpoint's ring
          plug,      \* plug[p]: PORTSC's connect and change bits, and the device
          left       \* what is left of the environment's bounds

vars == <<cmd, ev, tr, mem, slotId, dcbaa, devs, inflight, drv, hc, hcEp, plug, left>>

(* Endpoint rings: 1 for control, 2 for IN endpoint 1, 3 for OUT endpoint 2. *)
Ep == 1 .. 3
Slot == 0 .. NSlots
Idx(n) == 0 .. n - 1

(* The address of a TRB: its ring (0 for the command ring) and its index; a   *)
(* port status event has the port's number instead.                           *)
Addr(base, i) == <<base, i>>
NoTrb == [op |-> "none", c |-> 0, n |-> 0]
NoEvent == [type |-> "none", c |-> 0, ptr |-> Addr(0, 0), ok |-> FALSE, slot |-> 0, n |-> 0]
NoPort == 0
Flip(c) == 1 - c

(* The controller's state for an endpoint whose ring is base: done counts the *)
(* TRBs executed on the ring, and seen has the numbers of the last ones.      *)
NewRing(base) == [base |-> base, deq |-> 0, ccs |-> 1, run |-> FALSE, done |-> 0,
                  seen |-> <<>>]

-------------------------------------------------------------------------------
(* What the driver does for a new device, in order.  A request is a command, *)
(* a control transfer (with a data stage or not) or a bulk transfer, polled  *)
(* for its completion or completed by the interrupt handler.                 *)
Cmd(op, e) == [kind |-> "cmd", op |-> op, ep |-> e, poll |-> TRUE, cb |-> "none"]
Ctrl(op) == [kind |-> "ctrl", op |-> op, ep |-> 1, poll |-> TRUE, cb |-> "none"]
Bulk(e, poll, cb) == [kind |-> "bulk", op |-> "normal", ep |-> e, poll |-> poll, cb |-> cb]

(* usb_get_descriptor has a data stage, usb_set_config none. *)
usb_get_descriptor == Ctrl("data")
usb_set_config == Ctrl("nodata")

usb_kbd_test == <<Ctrl("data"), Ctrl("data"), Bulk(2, FALSE, "hid")>>
usb_mouse_test == <<Bulk(2, FALSE, "hid")>>
usb_mass_storage_read_cap ==
  <<Bulk(3, TRUE, "none"), Bulk(2, TRUE, "none"), Bulk(2, TRUE, "none")>>
usb_mass_storage_read_sector ==
  <<Bulk(3, FALSE, "none"), Bulk(2, FALSE, "report"), Bulk(2, FALSE, "report")>>
usb_massstorage_test == <<Ctrl("nodata")>> \o usb_mass_storage_read_cap
                                           \o usb_mass_storage_read_sector

evaluate_context == <<usb_get_descriptor, Cmd("evaluate", 1)>>

configure_all_endpoints(d) ==
  [i \in 1 .. Reads |-> usb_get_descriptor] \o <<usb_set_config, Cmd("configure", 2)>>
    \o (IF d = "disk" THEN <<Cmd("configure", 3)>> ELSE <<>>)

usb_device_init(d) ==
  <<Cmd("enable", 1), Cmd("address", 1)>> \o evaluate_context
    \o configure_all_endpoints(d)
    \o (CASE d = "kbd" -> usb_kbd_test
          [] d = "mouse" -> usb_mouse_test
          [] d = "disk" -> usb_massstorage_test)

-------------------------------------------------------------------------------
(* xhci_probe, after which the controller runs. *)
Idle == [at |-> "idle", cur |-> 0, last |-> 0, port |-> 0, slot |-> 0,
         todo |-> <<>>, ptr |-> Addr(0, 0), n |-> 0, ret |-> 0]

Init ==
  /\ cmd = [ring |-> [i \in Idx(CmdSize) |-> NoTrb], enq |-> 0, sent |-> 0]
  /\ ev = [ring |-> [i \in Idx(RingSize) |-> NoEvent], ccs |-> 1, erdp |-> 0]
  /\ tr = [p \in Port |-> [e \in Ep |-> [base |-> 0, enq |-> 0, dcs |-> 0, n |-> 0]]]
  /\ mem = <<>>
  /\ slotId = [p \in Port |-> 0]
  /\ dcbaa = [s \in Slot |-> NoPort]
  /\ devs = <<>> /\ inflight = {}
  /\ drv = Idle
  /\ hc = [enq |-> 0, pcs |-> 1, deq |-> 0, run |-> FALSE, last |-> 0, slots |-> {},
           unseen |-> 0]
  /\ hcEp = [s \in Slot |-> [e \in Ep |-> NewRing(0)]]
  /\ plug = [p \in Port |-> [ccs |-> FALSE, csc |-> FALSE, dev |-> "none"]]
  /\ left \in Budgets

-------------------------------------------------------------------------------
(* Mutant: the entry after the command is not cleared. *)
InsertNoClear(op, e, slot) ==
  LET last == CmdSize - 1
      i    == IF cmd.enq = last THEN 0 ELSE cmd.enq
      link == IF cmd.enq = last
              THEN [cmd.ring EXCEPT ![last] = [op |-> "link", c |-> 1, n |-> 0]]
              ELSE cmd.ring
  IN  /\ cmd' = [ring |-> [link EXCEPT ![i] =
                   [op |-> op, c |-> 1, n |-> cmd.sent + 1, ep |-> e, slot |-> slot,
                    base |-> tr'[drv.port][e].base]],
                 enq |-> i + 1, sent |-> cmd.sent + 1]
      /\ drv' = [drv EXCEPT !.at = "wait", !.ptr = Addr(0, i)]
(* xhci_cmd_ring_insert: at the last entry a link TRB leads back to the      *)
(* first, with the same cycle bit; the entry after the new command is        *)
(* cleared, so that the controller stops there.                              *)
xhci_cmd_ring_insert(op, e, slot) ==
  LET last == CmdSize - 1
      i    == IF cmd.enq = last THEN 0 ELSE cmd.enq
      link == IF cmd.enq = last
              THEN [cmd.ring EXCEPT ![last] = [op |-> "link", c |-> 1, n |-> 0]]
              ELSE cmd.ring
      trb  == [op |-> op, c |-> 1, n |-> cmd.sent + 1, ep |-> e, slot |-> slot,
               base |-> tr'[drv.port][e].base]
  IN  /\ cmd' = [ring |-> [link EXCEPT ![i] = trb, ![i + 1] = NoTrb],
                 enq |-> i + 1, sent |-> cmd.sent + 1]
      /\ drv' = [drv EXCEPT !.at = "wait", !.ptr = Addr(0, i)]

(* Doorbell 0: the controller looks at its command ring. *)
RingCommandBell == hc' = [hc EXCEPT !.run = TRUE]

(* A fresh transfer ring for an endpoint, as xhci_address_device and          *)
(* configure_all_endpoints allocate it before they send the command.          *)
FreshRing(p, e) ==
  /\ mem' = Append(mem, [i \in Idx(TrSize) |-> NoTrb])
  /\ tr' = [tr EXCEPT ![p][e] = [base |-> Len(mem) + 1, enq |-> 0, dcs |-> 1, n |-> 0]]

(* Mutant: the enqueue pointer is not advanced. *)
InsertNoAdvance(t, op) ==
  [ring |-> [t.ring EXCEPT ![t.enq] = [op |-> op, c |-> t.dcs, n |-> t.n + 1]],
   enq |-> t.enq, dcs |-> t.dcs, n |-> t.n + 1]

(* xhci_insert_transfer_trb, for the TRBs of one request in order: at the last *)
(* entry a link TRB that toggles the cycle bit.  t: ring state and memory.     *)
InsertTrb(t, op) ==
  LET last == TrSize - 1
      wrap == t.enq = last
      i    == IF wrap THEN 0 ELSE t.enq
      dcs  == IF wrap THEN Flip(t.dcs) ELSE t.dcs
      link == IF wrap THEN [t.ring EXCEPT ![last] = [op |-> "link", c |-> t.dcs, n |-> 0]]
              ELSE t.ring
  IN  [ring |-> [link EXCEPT ![i] = [op |-> op, c |-> dcs, n |-> t.n + 1]],
       enq |-> i + 1, dcs |-> dcs, n |-> t.n + 1]

(* The TRBs of a request: usb_control_transfer and usb_bulk_transfer; all but *)
(* the setup stage ask for an event.                                          *)
Trbs(req) == CASE req.kind = "bulk" -> <<"normal">>
               [] req.op = "data" -> <<"setup", "data", "status">>
               [] OTHER -> <<"setup", "status">>

Inserted(p, req) ==
  LET t0 == [ring |-> mem[tr[p][req.ep].base], enq |-> tr[p][req.ep].enq,
             dcs |-> tr[p][req.ep].dcs, n |-> tr[p][req.ep].n]
      ops == Trbs(req)
      t[k \in 0 .. Len(ops)] == IF k = 0 THEN t0 ELSE InsertTrb(t[k - 1], ops[k])
  IN  t[Len(ops)]

(* Put a transfer on its ring and ring the doorbell of the port's slot.        *)
Transfer(p, req) ==
  LET t == Inserted(p, req)  b == tr[p][req.ep].base  s == slotId[p] IN
  /\ tr' = [tr EXCEPT ![p][req.ep] = [base |-> b, enq |-> t.enq, dcs |-> t.dcs, n |-> t.n]]
  /\ mem' = [mem EXCEPT ![b] = t.ring]
  /\ inflight' = IF req.kind = "bulk"
                 THEN inflight \cup {[trb |-> Addr(b, t.enq - 1), cb |-> req.cb, port |-> p]}
                 ELSE inflight
  /\ hcEp' = [hcEp EXCEPT ![s][req.ep].run = @ \/ s \in hc.slots]
  /\ drv' = IF req.poll
            THEN [drv EXCEPT !.at = "wait", !.ptr = Addr(b, t.enq - 1), !.n = t.n]
            ELSE [drv EXCEPT !.todo = Tail(@)]

-------------------------------------------------------------------------------
(* xhci_intr starts: an event is waiting (the controller raises its interrupt *)
(* whenever ERDP is written and the ring is not empty).                       *)
XhciIntr ==
  /\ drv.at = "idle" /\ hc.enq # ev.erdp
  /\ drv' = [drv EXCEPT !.at = "loop", !.cur = ev.erdp, !.last = ev.erdp]
  /\ UNCHANGED <<cmd, ev, tr, mem, slotId, dcbaa, devs, inflight, hc, hcEp, plug, left>>

Owned == drv.cur < RingSize /\ ev.ring[drv.cur].c = ev.ccs
Current == ev.ring[drv.cur]

(* handle_cmd_completion does nothing. *)
HandleCmdCompletion ==
  /\ drv.at = "loop" /\ Owned /\ Current.type = "cmd"
  /\ drv' = [drv EXCEPT !.cur = @ + 1]
  /\ UNCHANGED <<cmd, ev, tr, mem, slotId, dcbaa, devs, inflight, hc, hcEp, plug, left>>

(* Mutant: the callbacks do not submit their URB again. *)
CompleteOnly ==
  /\ drv.at = "loop" /\ Owned /\ Current.type = "transfer"
  /\ inflight' = {f \in inflight : f.trb # Current.ptr}
  /\ drv' = [drv EXCEPT !.cur = @ + 1]
  /\ UNCHANGED <<cmd, ev, tr, mem, slotId, dcbaa, devs, hc, hcEp, plug, left>>

(* handle_transfer_completion: the transfer leaves the list; the callbacks of *)
(* keyboard and mouse (usb_kbd_irq, usb_mouse_irq) submit their URB again.    *)
HandleTransferCompletion ==
  /\ drv.at = "loop" /\ Owned /\ Current.type = "transfer"
  /\ LET done == {f \in inflight : f.trb = Current.ptr}
         hid  == {f \in done : f.cb = "hid"}
     IN  IF hid = {}
         THEN /\ inflight' = inflight \ done
              /\ drv' = [drv EXCEPT !.cur = @ + 1]
              /\ UNCHANGED <<tr, mem, hcEp>>
         ELSE \E f \in hid :
                LET t == Inserted(f.port, Bulk(2, FALSE, "hid"))
                    b == tr[f.port][2].base
                    s == slotId[f.port]
                IN  /\ inflight' = (inflight \ done) \cup
                                     {[f EXCEPT !.trb = Addr(b, t.enq - 1)]}
                    /\ tr' = [tr EXCEPT ![f.port][2] =
                                [base |-> b, enq |-> t.enq, dcs |-> t.dcs, n |-> t.n]]
                    /\ mem' = [mem EXCEPT ![b] = t.ring]
                    /\ hcEp' = [hcEp EXCEPT ![s][2].run = @ \/ s \in hc.slots]
                    /\ drv' = [drv EXCEPT !.cur = @ + 1]
  /\ UNCHANGED <<cmd, ev, slotId, dcbaa, devs, hc, plug, left>>

(* handle_port_status_change, connected: the port is reset.                   *)
HandleConnect ==
  /\ drv.at = "loop" /\ Owned /\ Current.type = "port" /\ plug[Current.ptr[2]].ccs
  /\ drv' = [drv EXCEPT !.at = "reset", !.port = Current.ptr[2]]
  /\ UNCHANGED <<cmd, ev, tr, mem, slotId, dcbaa, devs, inflight, hc, hcEp, plug, left>>

(* The reset has completed (PRC): the change bits are cleared, the connection *)
(* change too if the device has gone meanwhile, and the device is enumerated. *)
PortIsReset ==
  /\ drv.at = "reset"
  /\ plug' = [plug EXCEPT ![drv.port].csc = FALSE]
  /\ drv' = [drv EXCEPT !.at = "run", !.todo = usb_device_init(plug[drv.port].dev)]
  /\ UNCHANGED <<cmd, ev, tr, mem, slotId, dcbaa, devs, inflight, hc, hcEp, left>>

(* Mutant: the device is removed without disabling its slot. *)
RemoveOnly ==
  /\ drv.at = "loop" /\ Owned /\ Current.type = "port" /\ ~plug[Current.ptr[2]].ccs
  /\ plug' = [plug EXCEPT ![Current.ptr[2]].csc = FALSE]
  /\ devs' = SelectSeq(devs, LAMBDA p : p # Current.ptr[2])
  /\ drv' = [drv EXCEPT !.cur = @ + 1]
  /\ UNCHANGED <<cmd, ev, tr, mem, slotId, dcbaa, inflight, hc, hcEp, left>>

(* Disconnected: the port's slot is disabled, then the device removed.        *)
HandleDisconnect ==
  /\ drv.at = "loop" /\ Owned /\ Current.type = "port" /\ ~plug[Current.ptr[2]].ccs
  /\ drv' = [drv EXCEPT !.at = "run", !.port = Current.ptr[2], !.todo = <<Cmd("disable", 1)>>]
  /\ UNCHANGED <<cmd, ev, tr, mem, slotId, dcbaa, devs, inflight, hc, hcEp, plug, left>>

(* At the end of the segment the handler goes on at its start with the other  *)
(* cycle bit, unless it had started at the second entry: then the loop ends.  *)
EventRingWrap ==
  /\ drv.at = "loop" /\ drv.cur = RingSize
  /\ ev' = [ev EXCEPT !.ccs = Flip(@), !.erdp = IF drv.last = 1 THEN 0 ELSE @]
  /\ drv' = [drv EXCEPT !.cur = 0, !.at = IF drv.last = 1 THEN "idle" ELSE "loop"]
  /\ UNCHANGED <<cmd, tr, mem, slotId, dcbaa, devs, inflight, hc, hcEp, plug, left>>

(* No more events: ERDP is written. *)
XhciIntrReturn ==
  /\ drv.at = "loop" /\ drv.cur < RingSize /\ ~Owned
  /\ ev' = [ev EXCEPT !.erdp = drv.cur]
  /\ drv' = [drv EXCEPT !.at = "idle"]
  /\ UNCHANGED <<cmd, tr, mem, slotId, dcbaa, devs, inflight, hc, hcEp, plug, left>>

-------------------------------------------------------------------------------
(* The requests of the enumeration, one by one.                               *)
Request == Head(drv.todo)

SubmitCommand ==
  /\ drv.at = "run" /\ drv.todo # <<>> /\ Request.kind = "cmd"
  /\ \/ /\ Request.op \in {"address", "configure"}
        /\ FreshRing(drv.port, Request.ep)
     \/ /\ Request.op \notin {"address", "configure"}
        /\ UNCHANGED <<tr, mem>>
  /\ IF Request.op = "address"      \* xhci_address_device
     THEN /\ dcbaa' = [dcbaa EXCEPT ![drv.slot] = drv.port]
          /\ slotId' = [slotId EXCEPT ![drv.port] = drv.slot]
     ELSE UNCHANGED <<dcbaa, slotId>>
  /\ xhci_cmd_ring_insert(Request.op, Request.ep, slotId'[drv.port])
  /\ RingCommandBell
  /\ UNCHANGED <<ev, devs, inflight, hcEp, plug, left>>

SubmitTransfer ==
  /\ drv.at = "run" /\ drv.todo # <<>> /\ Request.kind # "cmd"
  /\ Transfer(drv.port, Request)
  /\ UNCHANGED <<cmd, ev, slotId, dcbaa, devs, hc, plug, left>>

(* xhci_wait_cmd_completion: the events from ERDP to the end must have the    *)
(* cycle bit expected, which alternates between the rounds of the search;     *)
(* those before ERDP are taken whatever their cycle bit.                      *)
CmdVisible(k, round) ==
  /\ ev.ring[k].type = "cmd" /\ ev.ring[k].ptr = drv.ptr
  /\ k >= ev.erdp => ev.ring[k].c = round

(* xhci_wait_transfer_completion compares the cycle bit on both sides.        *)
TransferVisible(k) ==
  /\ ev.ring[k].type = "transfer" /\ ev.ring[k].ptr = drv.ptr
  /\ ev.ring[k].c = IF k >= ev.erdp THEN ev.ccs ELSE Flip(ev.ccs)

(* What follows a command: the slot of "enable" is used without a look at the *)
(* completion code; a failed "address" ends the enumeration; a keyboard or    *)
(* mouse whose endpoint was not configured is not used.                       *)
AfterCommand(e) ==
  LET op == Request.op  rest == Tail(drv.todo)
      d  == plug[drv.port].dev
      hidFails == op = "configure" /\ ~e.ok /\ Len(rest) > 0 /\ rest[Len(rest)].cb = "hid"
  IN  drv' = [drv EXCEPT !.at = "run", !.ret = e.n,
                !.slot = IF op = "enable" THEN e.slot ELSE @,
                !.todo = IF (op = "address" /\ ~e.ok) \/ hidFails THEN <<>> ELSE rest]

CommandReturns ==
  /\ drv.at = "wait" /\ Request.kind = "cmd" /\ Request.op # "disable"
  /\ \E k \in Idx(RingSize), round \in {0, 1} :
       /\ CmdVisible(k, round)
       /\ AfterCommand(ev.ring[k])
       /\ devs' = IF Request.op = "address" /\ ev.ring[k].ok
                  THEN <<drv.port>> \o devs ELSE devs
  /\ UNCHANGED <<cmd, ev, tr, mem, slotId, dcbaa, inflight, hc, hcEp, plug, left>>

(* Mutant: the device stays on the list. *)
KeepOnList ==
  /\ drv.at = "wait" /\ Request.kind = "cmd" /\ Request.op = "disable"
  /\ \E k \in Idx(RingSize), round \in {0, 1} :
       /\ CmdVisible(k, round)
       /\ drv' = [drv EXCEPT !.at = "loop", !.cur = @ + 1, !.todo = <<>>,
                             !.ret = ev.ring[k].n]
  /\ plug' = [plug EXCEPT ![drv.port].csc = FALSE]
  /\ UNCHANGED <<cmd, ev, tr, mem, slotId, dcbaa, devs, inflight, hc, hcEp, left>>

(* usb_device_remove and the clearing of the change bits.  With no device of  *)
(* the port on the list, udev is not initialised: list_del on it is fatal,    *)
(* unless it happens to be NULL.                                              *)
DisableReturns ==
  /\ drv.at = "wait" /\ Request.kind = "cmd" /\ Request.op = "disable"
  /\ \E k \in Idx(RingSize), round \in {0, 1} :
       /\ CmdVisible(k, round)
       /\ LET mine == {i \in DOMAIN devs : devs[i] = drv.port} IN
          \/ /\ mine # {}
             /\ LET i == CHOOSE i \in mine : \A j \in mine : i <= j
                IN  devs' = SubSeq(devs, 1, i - 1) \o SubSeq(devs, i + 1, Len(devs))
             /\ drv' = [drv EXCEPT !.at = "loop", !.cur = @ + 1, !.todo = <<>>,
                                   !.ret = ev.ring[k].n]
          \/ /\ mine = {}
             /\ \E at \in {"loop", "fault"} :
                  drv' = [drv EXCEPT !.at = at, !.cur = @ + 1, !.todo = <<>>,
                                     !.ret = ev.ring[k].n]
             /\ UNCHANGED devs
  /\ plug' = [plug EXCEPT ![drv.port].csc = FALSE]
  /\ UNCHANGED <<cmd, ev, tr, mem, slotId, dcbaa, inflight, hc, hcEp, left>>

(* A polled transfer ends with its event, or after its number of rounds; the  *)
(* caller goes on in both cases.                                              *)
TransferReturns ==
  /\ drv.at = "wait" /\ Request.kind # "cmd"
  /\ \E k \in Idx(RingSize) : TransferVisible(k)
  /\ drv' = [drv EXCEPT !.at = "run", !.todo = Tail(@)]
  /\ UNCHANGED <<cmd, ev, tr, mem, slotId, dcbaa, devs, inflight, hc, hcEp, plug, left>>

TransferPosted == \E k \in Idx(RingSize) : /\ ev.ring[k].type = "transfer"
                                           /\ ev.ring[k].ptr = drv.ptr
                                           /\ ev.ring[k].n = drv.n

(* The controller knows the ring on which the driver waits. *)
Served == hcEp[slotId[drv.port]][Request.ep].base = drv.ptr[1]

(* Mutant: the wait has no bound. *)
NeverTimesOut == FALSE /\ UNCHANGED vars

TransferTimesOut ==
  /\ drv.at = "wait" /\ Request.kind # "cmd"
  /\ ~ \E k \in Idx(RingSize) : TransferVisible(k)
  /\ \/ (TransferPosted \/ ~Served) /\ UNCHANGED left
     \/ /\ ~TransferPosted /\ Served /\ left.odd > 0
        /\ left' = [left EXCEPT !.odd = @ - 1]
  /\ drv' = [drv EXCEPT !.at = "run", !.todo = Tail(@)]
  /\ UNCHANGED <<cmd, ev, tr, mem, slotId, dcbaa, devs, inflight, hc, hcEp, plug>>

(* The enumeration is over. *)
DeviceDone ==
  /\ drv.at = "run" /\ drv.todo = <<>>
  /\ slotId' = [slotId EXCEPT ![drv.port] = drv.slot]
  /\ drv' = [drv EXCEPT !.at = "loop", !.cur = @ + 1]
  /\ UNCHANGED <<cmd, ev, tr, mem, dcbaa, devs, inflight, hc, hcEp, plug, left>>

-------------------------------------------------------------------------------
(* The controller (external).  It posts an event if its ring is not full.     *)
CanPost == (hc.enq + 1) % RingSize # ev.erdp
Posted(type, ptr, ok, slot, n) ==
  ev' = [ev EXCEPT !.ring[hc.enq] = [type |-> type, c |-> hc.pcs, ptr |-> ptr,
                                     ok |-> ok, slot |-> slot, n |-> n]]
NextEnq == (hc.enq + 1) % RingSize
NextPcs == IF hc.enq = RingSize - 1 THEN Flip(hc.pcs) ELSE hc.pcs

(* The command ring entry a pointer leads to, through the link; the command   *)
(* ring's link does not toggle the cycle bit.                                 *)
CmdAt(i) == IF cmd.ring[i].c = 1 /\ cmd.ring[i].op = "link" THEN 0 ELSE i

(* One command is executed and the next entry looked at before the completion *)
(* is posted.                                                                 *)
HcCommand ==
  /\ hc.run /\ CanPost
  /\ LET i == CmdAt(hc.deq)  t == cmd.ring[i]
         free == (Slot \ {0}) \ hc.slots
         \* the slot is not enabled, or its device has gone
         refused == \/ t.slot \notin hc.slots
                    \/ dcbaa[t.slot] # NoPort /\ ~plug[dcbaa[t.slot]].ccs
         device == t.op \notin {"enable", "disable"}
     IN \E ok \in BOOLEAN :
          /\ t.c = 1
          /\ t.op = "enable" => (ok <=> free # {})
          /\ t.op = "disable" => (ok <=> t.slot \in hc.slots)
          /\ device => IF ok THEN t.slot \in hc.slots ELSE left.odd > 0 \/ refused
          /\ LET s == IF t.op = "enable" /\ ok
                      THEN CHOOSE x \in free : \A y \in free : x <= y
                      ELSE IF t.op = "enable" THEN 0 ELSE t.slot
             IN  /\ Posted("cmd", Addr(0, i), ok, s, t.n)
                 /\ hc' = [enq |-> NextEnq, pcs |-> NextPcs, deq |-> i + 1,
                           run |-> cmd.ring[CmdAt(i + 1)].c = 1, last |-> t.n,
                           slots |-> CASE t.op = "enable" /\ ok -> hc.slots \cup {s}
                                       [] t.op = "disable" -> hc.slots \ {s}
                                       [] OTHER -> hc.slots,
                           unseen |-> hc.unseen]
                 /\ hcEp' = [hcEp EXCEPT ![s] =
                      IF ok /\ t.op \in {"address", "configure"}
                      THEN [@ EXCEPT ![t.ep] = NewRing(t.base)]
                      ELSE IF t.op = "disable" /\ ok
                      THEN [e \in Ep |-> [@[e] EXCEPT !.run = FALSE]] ELSE @]
          /\ left' = IF device /\ ~ok /\ ~refused
                     THEN [left EXCEPT !.odd = @ - 1] ELSE left
  /\ UNCHANGED <<cmd, tr, mem, slotId, dcbaa, devs, inflight, drv, plug>>

(* The TRBs of an endpoint's ring up to one that asks for an event (a setup   *)
(* stage does not).  A keyboard's or mouse's transfer completes when there is *)
(* input.                                                                     *)
IsHid(s) == plug[dcbaa[s]].dev \in {"kbd", "mouse"}

HcTransfer(s, e) ==
  LET q       == hcEp[s][e]
      ring    == mem[q.base]
      \* where a pointer leads to, through a link, which toggles the cycle bit
      At(d, c) == IF ring[d].c = c /\ ring[d].op = "link" THEN <<0, Flip(c)>> ELSE <<d, c>>
      Own(a)   == ring[a[1]].c = a[2]
      Succ(a)  == At(a[1] + 1, a[2])
      first   == At(q.deq, q.ccs)
      a       == IF ring[first[1]].op = "setup" THEN Succ(first) ELSE first
      hid     == ring[a[1]].op = "normal" /\ IsHid(s)
      seen    == IF a = first THEN <<ring[a[1]].n>> ELSE <<ring[first[1]].n, ring[a[1]].n>>
  IN  /\ s \in hc.slots /\ q.run /\ q.base # 0 /\ CanPost
      /\ Own(first) /\ Own(a)
      /\ hid => left.keys > 0
      /\ hcEp' = [hcEp EXCEPT ![s][e] =
                    [base |-> q.base, deq |-> a[1] + 1, ccs |-> a[2], run |-> Own(Succ(a)),
                     done |-> q.done + Len(seen), seen |-> seen]]
      /\ Posted("transfer", Addr(q.base, a[1]), TRUE, s, ring[a[1]].n)
      /\ hc' = [hc EXCEPT !.enq = NextEnq, !.pcs = NextPcs]
      /\ left' = IF hid THEN [left EXCEPT !.keys = @ - 1] ELSE left
      /\ UNCHANGED <<cmd, tr, mem, slotId, dcbaa, devs, inflight, drv, plug>>

(* A device is plugged in or pulled out; a change before the driver has       *)
(* cleared the change bit (a bounce) is not reported again.                   *)
Busy == drv.at # "idle" \/ \E p \in Port : plug[p].csc

PortChange(p) ==
  /\ p \in left.ports /\ left.plugs > 0 /\ CanPost
  /\ plug[p].csc => left.bounces > 0
  /\ Busy /\ ~plug[p].csc => left.odd > 0
  /\ IF plug[p].ccs THEN plug' = [plug EXCEPT ![p].ccs = FALSE, ![p].csc = TRUE]
     ELSE \E d \in left.devs : plug' = [plug EXCEPT ![p] = [ccs |-> TRUE, csc |-> TRUE, dev |-> d]]
  /\ left' = [left EXCEPT !.plugs = @ - 1,
                          !.bounces = IF plug[p].csc THEN @ - 1 ELSE @,
                          !.odd = IF Busy /\ ~plug[p].csc THEN @ - 1 ELSE @]
  /\ IF plug[p].csc THEN hc' = [hc EXCEPT !.unseen = @ + 1] /\ UNCHANGED ev
     ELSE /\ Posted("port", Addr(0, p), TRUE, 0, 0)
          /\ hc' = [hc EXCEPT !.enq = NextEnq, !.pcs = NextPcs]
  /\ UNCHANGED <<cmd, tr, mem, slotId, dcbaa, devs, inflight, drv, hcEp>>

Driver == \/ XhciIntr \/ XhciIntrReturn \/ EventRingWrap
          \/ HandleCmdCompletion \/ HandleTransferCompletion
          \/ HandleConnect \/ PortIsReset \/ HandleDisconnect
          \/ SubmitCommand \/ SubmitTransfer
          \/ CommandReturns \/ DisableReturns
          \/ TransferReturns \/ TransferTimesOut \/ DeviceDone

Next == \/ Driver
        \/ HcCommand
        \/ \E s \in Slot, e \in Ep : HcTransfer(s, e)
        \/ \E p \in Port : PortChange(p)

Fairness == /\ WF_vars(Driver) /\ WF_vars(HcCommand)
            /\ \A s \in Slot, e \in Ep : WF_vars(HcTransfer(s, e))

Spec == Init /\ [][Next]_vars /\ Fairness

-------------------------------------------------------------------------------
TypeOK ==
  /\ cmd.enq \in Idx(CmdSize) /\ hc.deq \in Idx(CmdSize)
  /\ \A i \in Idx(CmdSize) : cmd.ring[i].c \in {0, 1}
  /\ ev.erdp \in Idx(RingSize) /\ ev.ccs \in {0, 1} /\ hc.enq \in Idx(RingSize)
  /\ drv.at \in {"idle", "loop", "reset", "run", "wait", "fault"} /\ drv.cur \in 0 .. RingSize
  /\ slotId \in [Port -> Slot] /\ hc.slots \subseteq Slot \ {0}
  /\ \A p \in Port, e \in Ep : /\ tr[p][e].base \in 0 .. Len(mem)
                               /\ tr[p][e].enq \in Idx(TrSize) /\ tr[p][e].dcs \in {0, 1}
  /\ \A f \in inflight : f.trb \in (1 .. Len(mem)) \X Idx(TrSize)

(* The command ring implements the channel of CmdChannel: although its link  *)
(* TRB never toggles the cycle bit and the wait ignores cycle bits, every     *)
(* command is executed once, and a wait returns the completion of its own     *)
(* command, not that of an earlier lap.                                       *)
Channel == INSTANCE CmdChannel WITH sent <- cmd.sent, executed <- hc.last, returned <- drv.ret
CommandsOnce == Channel!Spec

(* The controller executes the TRBs of a transfer ring one by one in the      *)
(* order in which the driver put them there, across its laps: the k-th that   *)
(* is executed is the k-th that was inserted, none skipped and none repeated. *)
TransfersInOrder ==
  \A s \in Slot, e \in Ep :
    LET q == hcEp[s][e] IN
    \A i \in 1 .. Len(q.seen) : q.seen[i] = q.done - Len(q.seen) + i

(* dcbaa[0] is the scratchpad array of xhci_probe: no device gets slot 0, the *)
(* slot of a failed Enable Slot (xhci.c:126), because every unplugged         *)
(* device's slot is given back.  The exception: each port change that the     *)
(* driver does not see, as it reads PORTSC before (xhci.c:1035) or clears the *)
(* change bit after it (xhci.c:1052), may cost a slot for ever, and there are *)
(* only so many slots more than ports in use.                                 *)
ScratchpadSafe == hc.unseen <= NSlots - Cardinality(left.ports) => dcbaa[0] = NoPort

(* Between interrupts, a device on usb_dev_list owns the slot of its port:    *)
(* the slot is enabled and its output context is the port's.  After a port    *)
(* change that the driver has not seen this may fail for any port, since      *)
(* port[p].slot_id keeps a slot that has been given to another (xhci.c:1059). *)
SlotOwned ==
  drv.at = "idle" /\ hc.unseen = 0 =>
    \A i \in DOMAIN devs : /\ slotId[devs[i]] \in hc.slots
                           /\ dcbaa[slotId[devs[i]]] = devs[i]

(* Between interrupts, a keyboard or mouse whose endpoint is configured has   *)
(* its transfer in flight: each completion was followed by a new submission.  *)
HidArmed ==
  drv.at = "idle" =>
    \A i \in DOMAIN devs :
      LET p == devs[i]  s == slotId[p]  b == tr[p][2].base IN
      (plug[p].dev \in {"kbd", "mouse"} /\ b # 0 /\ hcEp[s][2].base = b) =>
        \E f \in inflight : f.trb[1] = b /\ f.cb = "hid"

(* The handler returns, although it polls the event ring for what the         *)
(* controller posts while it holds back ERDP.                                 *)
HandlerReturns == (drv.at \notin {"idle", "fault"}) ~> (drv.at \in {"idle", "fault"})
===============================================================================
