--------------------------------- MODULE X550 ---------------------------------
(***************************************************************************)
(* The network driver, drivers/ethernet/intel/x550.c: its probe resets the *)
(* card, sets up interrupts and rings, unmasks the interrupts and then     *)
(* transmits for ever, with the card and its interrupt handler running     *)
(* beside it.  Ring is the number of descriptors of a ring (256).          *)
(*                                                                         *)
(* The driver has a copy of each ring's head and tail; the registers are   *)
(* the card's.  Of the 128 transmit queues only 0, which the handler       *)
(* reads, and the one that packet_transmit uses matter.                    *)
(***************************************************************************)
EXTENDS Pci

CONSTANTS Ring, MaxSent, MaxCauses
ASSUME RingAssumption == Ring \in Nat \ {0} /\ MaxSent \in Nat /\ MaxCauses \in Nat

Queue == {0, 63}

VARIABLES tail,    \* tail[q]: tx_desc_ring[q]->tail
          tdt,     \* tdt[q]: the card's tail register
          tdh,     \* tdh[q]: its head
          filled,  \* filled[q]: the descriptors of q that have been written
          rx,      \* the receive ring: its registers rdh, rdt and the driver's copies
          ready,   \* the rings that exist: a subset of {"rx", "tx"}
          cause,   \* EICR: the causes pending, of "queue" and "link"
          eims,    \* whether interrupts are unmasked
          card,    \* "run", "reset", "eeprom" or "dma": what the reset waits for
          sent,    \* calls of packet_transmit (bounded by MaxSent)
          causes   \* causes raised (bounded by MaxCauses)

nic_vars == <<tail, tdt, tdh, filled, rx, ready, cause, eims, card, sent, causes>>
ring_vars == <<tail, tdt, tdh, filled, rx>>

NicInit ==
    /\ tail = [q \in Queue |-> 0] /\ tdt = tail /\ tdh = tail
    /\ filled = [q \in Queue |-> {}]
    /\ rx = [rdh |-> 0, rdt |-> 0, head |-> 0, tail |-> 0]
    /\ ready = {} /\ cause = {} /\ eims = FALSE /\ card = "run"
    /\ sent = 0 /\ causes = 0

(* A step of the driver that leaves the PCI state alone. *)
Does(op, ops) ==
    /\ At(op) /\ Then(ops)
    /\ UNCHANGED <<machine, local, end_bus_number, cfg, table, pci_device_list, resource,
                   irq_list, free_irq, probed>>

-------------------------------------------------------------------------------
(* ixgbe_reset: the reset bit is set, which masks the interrupts; it is      *)
(* polled ten times and then taken as done; EEPROM and DMA are waited for    *)
(* without limit.                                                            *)
ixgbe_reset ==
    /\ Does("reset", <<<<"reset_wait", fn>>, <<"eec_wait", fn>>, <<"dma_wait", fn>>>>)
    /\ card' = "reset" /\ eims' = FALSE /\ cause' = {}
    /\ UNCHANGED <<ring_vars, ready, sent, causes>>
ResetWait ==
    /\ Does("reset_wait", <<>>)
    /\ UNCHANGED nic_vars
EecWait ==
    /\ card \in {"dma", "run"}
    /\ Does("eec_wait", <<>>)
    /\ UNCHANGED nic_vars
DmaWait ==
    /\ card = "run"
    /\ Does("dma_wait", <<>>)
    /\ UNCHANGED nic_vars
CardResets ==
    /\ card # "run"
    /\ card' = CASE card = "reset" -> "eeprom" [] card = "eeprom" -> "dma"
                 [] card = "dma" -> "run"
    /\ UNCHANGED <<pci_vars, ring_vars, ready, cause, eims, sent, causes>>

(* rx_init gives the card all descriptors but one; tx_init none. *)
rx_init ==
    /\ Does("rx_init", <<>>)
    /\ rx' = [rdh |-> 0, rdt |-> Ring - 1, head |-> 0, tail |-> Ring - 1]
    /\ ready' = ready \cup {"rx"}
    /\ UNCHANGED <<tail, tdt, tdh, filled, cause, eims, card, sent, causes>>
tx_init ==
    /\ Does("tx_init", <<>>)
    /\ tail' = [q \in Queue |-> 0] /\ tdt' = [q \in Queue |-> 0]
    /\ tdh' = [q \in Queue |-> 0] /\ filled' = [q \in Queue |-> {}]
    /\ ready' = ready \cup {"tx"}
    /\ UNCHANGED <<rx, cause, eims, card, sent, causes>>
Unmask ==
    /\ Does("unmask", <<>>)
    /\ eims' = TRUE
    /\ UNCHANGED <<ring_vars, ready, cause, card, sent, causes>>

(* packet_transmit, one step per access: fill the descriptor at the tail,    *)
(* advance the copy, write it to the card.  QueueZero shares the handler's   *)
(* queue.                                                                    *)
QueueZero == 0
free_queue == 63
Fill ==
    /\ sent < MaxSent
    /\ Does("fill", <<<<"advance", fn>>, <<"ring", fn>>, <<"fill", fn>>>>)
    /\ filled' = [filled EXCEPT ![free_queue] = @ \cup {tail[free_queue]}]
    /\ UNCHANGED <<tail, tdt, tdh, rx, ready, cause, eims, card, sent, causes>>
Advance ==
    /\ Does("advance", <<>>)
    /\ tail' = [tail EXCEPT ![free_queue] = (@ + 1) % Ring]
    /\ UNCHANGED <<tdt, tdh, filled, rx, ready, cause, eims, card, sent, causes>>
RingTail ==
    /\ Does("ring", <<>>)
    /\ tdt' = [tdt EXCEPT ![free_queue] = tail[free_queue]]
    /\ sent' = sent + 1
    /\ UNCHANGED <<tail, tdh, filled, rx, ready, cause, eims, card, causes>>

-------------------------------------------------------------------------------
(* The card: it sends the descriptors between head and tail, fills those of  *)
(* the receive ring until its head meets the tail, and notices the link.     *)
(* A tail past the end of the ring, which the handler writes, is never met.  *)
Raise(c) == causes < MaxCauses /\ cause' = cause \cup {c} /\ causes' = causes + 1
Send(q) ==
    /\ card = "run" /\ "tx" \in ready /\ tdh[q] # tdt[q]
    /\ tdh' = [tdh EXCEPT ![q] = (@ + 1) % Ring]
    /\ Raise("queue")
    /\ UNCHANGED <<pci_vars, tail, tdt, filled, rx, ready, eims, card, sent>>
Receive ==
    /\ card = "run" /\ "rx" \in ready /\ rx.rdh # rx.rdt
    /\ rx' = [rx EXCEPT !.rdh = (@ + 1) % Ring]
    /\ Raise("queue")
    /\ UNCHANGED <<pci_vars, tail, tdt, tdh, filled, ready, eims, card, sent>>
LinkChange ==
    /\ card = "run" /\ Raise("link")
    /\ UNCHANGED <<pci_vars, ring_vars, ready, eims, card, sent>>

(* ixgbe_intr, on the CPU the driver runs on, between two of its accesses:   *)
(* reading EICR clears it; a queue cause makes it read queue 0's registers   *)
(* into the driver's copies, and give the card a receive ring it has used    *)
(* up: by adding the size of the ring to the head, without wrapping.         *)
Messages(f) == cfg[f].msi.on \/ cfg[f].msix.on
Interrupting == \E f \in Fn : "x550" \in Range(probed[f]) /\ Messages(f)
ixgbe_intr ==
    /\ eims /\ cause # {} /\ Interrupting
    /\ cause' = {}
    /\ IF "queue" \in cause
       THEN LET more == rx.rdh = rx.rdt IN
            /\ tail' = [tail EXCEPT ![0] = tdt[0]]
            /\ rx' = [rx EXCEPT !.head = rx.rdh,
                                !.tail = IF more THEN rx.rdh + Ring ELSE rx.rdt,
                                !.rdt = IF more THEN rx.rdh + Ring ELSE @]
       ELSE UNCHANGED <<tail, rx>>
    /\ UNCHANGED <<pci_vars, tdt, tdh, filled, ready, eims, card, sent, causes>>

NicNext ==
    \/ ixgbe_reset \/ ResetWait \/ EecWait \/ DmaWait \/ CardResets
    \/ rx_init \/ tx_init \/ Unmask \/ Fill \/ Advance \/ RingTail
    \/ (\E q \in Queue : Send(q)) \/ Receive \/ LinkChange \/ ixgbe_intr

(* The handler goes through hw->rx_desc_ring[0] and hw->tx_desc_ring[0],     *)
(* which are NULL until rx_init and tx_init: by the time the card can        *)
(* interrupt, the reset is over and both rings exist.                        *)
HandlerReady == (eims /\ Interrupting) => (ready = {"rx", "tx"} /\ card = "run")

(* Whatever the handler does in between, every packet handed to              *)
(* packet_transmit is announced to the card, in order (between two packets   *)
(* the tail register counts them), and the card only sends descriptors that  *)
(* have been filled.                                                         *)
Pending(q) == {i \in 0 .. Ring - 1 : (i - tdh[q]) % Ring < (tdt[q] - tdh[q]) % Ring}
TransmitSound ==
    /\ At("fill") => tdt[free_queue] = sent % Ring
    /\ \A q \in Queue : Pending(q) \subseteq filled[q]
===============================================================================
