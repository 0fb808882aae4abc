---------------------------- MODULE VirtioBlock -----------------------------
(***************************************************************************)
(* The virtio block device (src/virtio.c) between a guest driver and one   *)
(* of the two block devices, with the interrupt controller.  Device code   *)
(* runs inside a guest store to a register of the device, or in the host   *)
(* loop when a file has been fetched, which is between any two steps of    *)
(* the driver; a handler runs to its end.                                  *)
(*                                                                         *)
(* A unit of guest memory holds a request header, a sector or a status.    *)
(* A request has one descriptor chain: the header, then the data, then the *)
(* status.  Ring indices wrap at IndexModulus (2^16 in the code).          *)
(***************************************************************************)
EXTENDS BlockNet, BlockFile, Plic

CONSTANTS
  QueueNum,      \* qs->num, a power of 2
  IndexModulus,  \* a power of 2 above QueueNum
  Disks,         \* block devices: "http", "ro", "rw", "snapshot"
  Requests,      \* what the driver may ask: [type, sector, buf]
  FreedBuffer    \* what a buffer that was freed may hold: "kept", "reused"

VARIABLES
  m,        \* the device, its block device, the rings and the PLIC
  driver    \* the guest's driver, and what it expects

vars == <<m, driver>>

Irq == 1

Slots == 0 .. QueueNum - 1

S_OK == 100

S_IOERR == 101

Garbage == -99

NoRequest == [type |-> "none", sector |-> 0, buf |-> <<>>]

IdleDevice == [type |-> "none", desc |-> 0, write_size |-> 0]

\* virtio_reset, and the rings the driver clears before it sets the queue up
ResetQueue(dev) ==
  [dev EXCEPT !.last_avail_idx = 0, !.int_status = FALSE,
              !.avail_idx = 0, !.used_idx = 0,
              !.avail = [i \in Slots |-> 0],
              !.used = [i \in Slots |-> [desc |-> 0, len |-> 0]],
              !.table = [i \in Slots |-> NoRequest],
              !.got = [i \in Slots |-> <<>>]]

InitialImage == [s \in Sectors |-> Image(s)]

Init ==
  /\ \E d \in Disks :
       m = ResetQueue(
         [disk |-> d, bf |-> bf_init, file |-> file_init(d, InitialImage),
          in_progress |-> FALSE, req |-> IdleDevice, plic |-> PlicInit,
          asserts |-> TRUE,
          last_avail_idx |-> 0, int_status |-> FALSE, avail_idx |-> 0,
          used_idx |-> 0, avail |-> <<>>, used |-> <<>>, table |-> <<>>,
          got |-> <<>>])
  /\ driver = [at |-> "run", last_used |-> 0, notify |-> FALSE,
               outstanding |-> <<>>, disk |-> InitialImage,
               expected |-> [i \in Slots |-> <<>>]]

-----------------------------------------------------------------------------
(***************************************************************************)
(* The device.                                                             *)
(***************************************************************************)
\* The chain of a request, as the driver lays it out.
Chain(r) ==
  CASE r.type = "in" -> <<[write |-> FALSE, len |-> 1],
                          [write |-> TRUE, len |-> Len(r.buf)],
                          [write |-> TRUE, len |-> 1]>>
    [] r.type = "out" -> <<[write |-> FALSE, len |-> 1],
                           [write |-> FALSE, len |-> Len(r.buf)],
                           [write |-> TRUE, len |-> 1]>>
    [] OTHER -> <<[write |-> FALSE, len |-> 1], [write |-> TRUE, len |-> 1]>>

\* get_desc_rw_size
WriteSize(chain) ==
  FoldLeft(LAMBDA size, d : IF d.write THEN size + d.len ELSE size, 0, chain)

ReadSize(chain) ==
  FoldLeft(LAMBDA size, d : IF d.write THEN size ELSE size + d.len, 0, chain)

virtio_set_irq(dev, state) == [dev EXCEPT !.plic = plic_set_irq(@, Irq, state)]

virtio_consume_desc(dev, desc, len) ==
  virtio_set_irq(
    [dev EXCEPT !.used_idx = (@ + 1) % IndexModulus,
                !.used[dev.used_idx % QueueNum] = [desc |-> desc, len |-> len],
                !.int_status = TRUE], TRUE)

\* virtio_block_req_end: the buffer of a read and the status go to the guest.
virtio_block_req_end(dev, buf, ret) ==
  LET r == dev.req
      status == IF ret < 0 THEN S_IOERR ELSE S_OK
  IN  IF r.type = "in"
      THEN virtio_consume_desc([dev EXCEPT !.got[r.desc] = buf \o <<status>>],
                               r.desc, r.write_size)
      ELSE virtio_consume_desc([dev EXCEPT !.got[r.desc] = <<status>>], r.desc, 1)

\* A call of the block device: to wait for it, or to end the request.
Started(dev, res) ==
  IF res.ret > 0 THEN [dev EXCEPT !.bf = res.bf, !.in_progress = TRUE]
  ELSE virtio_block_req_end([dev EXCEPT !.bf = [res.bf EXCEPT !.req = IdleRequest]],
                            res.bf.req.buf, res.ret)

(***************************************************************************)
(* virtio_block_recv_request, once no request is in progress.  A type that *)
(* is not supported is skipped: its chain is not given back.               *)
(***************************************************************************)
virtio_block_recv_request(dev, desc) ==
  LET r == dev.table[desc]
      chain == Chain(r)
      n == WriteSize(chain) - 1
      len == ReadSize(chain) - 1
      s1 == [dev EXCEPT !.req = [type |-> r.type, desc |-> desc,
                                 write_size |-> WriteSize(chain)]]
  IN  CASE r.type = "in" /\ dev.disk = "http" ->
             With(bf_read_async(dev.bf, r.sector, n), LAMBDA res : Started(s1, res))
        [] r.type = "in" /\ dev.disk # "http" ->
             virtio_block_req_end(s1, file_read(dev.file, r.sector, n), 0)
        [] r.type = "out" /\ dev.disk = "http" ->
             With(bf_write_async(dev.bf, r.sector, SubSeq(r.buf, 1, len)),
                  LAMBDA res : Started(s1, res))
        [] r.type = "out" /\ dev.disk # "http" ->
             LET w == file_write(dev.file, r.sector, SubSeq(r.buf, 1, len))
             IN  virtio_block_req_end([s1 EXCEPT !.file = w.f], <<>>, w.ret)
        [] OTHER -> s1

\* The loop stops at the first request that cannot be taken yet.
RECURSIVE queue_notify(_)
queue_notify(dev) ==
  LET desc == dev.avail[dev.last_avail_idx % QueueNum]
  IN  IF dev.last_avail_idx = dev.avail_idx \/ dev.in_progress THEN dev
      ELSE With([virtio_block_recv_request(dev, desc) EXCEPT
                   !.last_avail_idx = (@ + 1) % IndexModulus], queue_notify)

virtio_block_req_cb(dev) ==
  With([virtio_block_req_end([dev EXCEPT !.bf.req = IdleRequest], dev.bf.req.buf, 0)
          EXCEPT !.in_progress = FALSE], queue_notify)

(***************************************************************************)
(* bf_update_block.  virtio_block_recv_request has freed the buffer of a   *)
(* write by the time the write goes on.                                    *)
(***************************************************************************)
Kept(req, freed) ==
  IF req.write /\ freed = "reused"
  THEN [req EXCEPT !.buf = [i \in DOMAIN @ |-> Garbage]] ELSE req

bf_update_block(dev, n, freed) ==
  LET loading == [num |-> n, loaded |-> FALSE] \in Range(dev.bf.cached)
      marked == [dev EXCEPT !.bf = MarkLoaded(@, n), !.asserts = @ /\ loading]
      resumed == [marked EXCEPT !.asserts = @ /\ dev.in_progress]
      goOn(res) == IF res.ret = 0 THEN virtio_block_req_cb([resumed EXCEPT !.bf = res.bf])
                   ELSE [resumed EXCEPT !.bf = res.bf]
  IN  IF n # dev.bf.cur THEN marked
      ELSE With(bf_rw_async1([marked.bf EXCEPT !.req = Kept(@, freed)]), goOn)

\* The blocks of one file, in their order.
RECURSIVE Filled(_, _, _)
Filled(dev, blocks, freed) ==
  IF blocks = <<>> THEN dev
  ELSE With(bf_update_block(dev, Head(blocks), freed),
            LAMBDA dev1 : Filled(dev1, Tail(blocks), freed))

\* A file has been fetched: bf_read_onload or bf_prefetch_group_onload.
Onload ==
  /\ m.disk = "http"
  /\ \E load \in m.bf.loads, freed \in FreedBuffer :
       m' = Filled([m EXCEPT !.bf.loads = @ \ {load}], load, freed)
  /\ UNCHANGED driver

-----------------------------------------------------------------------------
(***************************************************************************)
(* The guest's driver.  It may ask while requests are in progress; when    *)
(* the device interrupts, it claims the interrupt, acknowledges it to the  *)
(* device, takes what has been used, and completes the interrupt.          *)
(***************************************************************************)
FreeDescs == {d \in Slots : m.table[d] = NoRequest}

Answer(r) ==
  CASE r.type = "in" -> [i \in DOMAIN r.buf |-> driver.disk[r.sector + i - 1]] \o <<S_OK>>
    [] r.type = "out" /\ m.disk # "ro" -> <<S_OK>>
    [] r.type = "out" /\ m.disk = "ro" -> <<S_IOERR>>
    [] OTHER -> <<>>

Submit ==
  /\ driver.at = "run" /\ FreeDescs # {}
  /\ \E r \in Requests :
       LET d == Min(FreeDescs)
       IN  /\ m' = [m EXCEPT !.table[d] = r,
                             !.avail[m.avail_idx % QueueNum] = d,
                             !.avail_idx = (@ + 1) % IndexModulus]
           /\ driver' =
                [driver EXCEPT
                   !.notify = TRUE,
                   !.outstanding = IF r.type = "other" THEN @ ELSE Append(@, d),
                   !.expected[d] = Answer(r),
                   !.disk = IF r.type = "out" /\ m.disk # "ro"
                            THEN Written(@, r.sector, r.buf) ELSE @]

\* VIRTIO_MMIO_QUEUE_NOTIFY
Notify ==
  /\ driver.at = "run" /\ driver.notify
  /\ m' = queue_notify(m)
  /\ driver' = [driver EXCEPT !.notify = FALSE]

Claim ==
  /\ driver.at = "run" /\ Signals(m.plic)
  /\ m' = [m EXCEPT !.plic = plic_claim(@)]
  /\ driver' = [driver EXCEPT !.at = "ack"]

\* VIRTIO_MMIO_INTERRUPT_ACK of what VIRTIO_MMIO_INTERRUPT_STATUS says
Acknowledge ==
  /\ driver.at = "ack"
  /\ m' = virtio_set_irq([m EXCEPT !.int_status = FALSE], FALSE)
  /\ driver' = [driver EXCEPT !.at = "used"]

TakeUsed ==
  /\ driver.at = "used" /\ driver.last_used # m.used_idx
  /\ LET d == m.used[driver.last_used % QueueNum].desc
     IN  /\ m' = [m EXCEPT !.table[d] = NoRequest, !.got[d] = <<>>]
         /\ driver' = [driver EXCEPT !.last_used = (@ + 1) % IndexModulus,
                                     !.outstanding = Tail(@),
                                     !.expected[d] = <<>>]

NoMoreUsed ==
  /\ driver.at = "used" /\ driver.last_used = m.used_idx
  /\ driver' = [driver EXCEPT !.at = "complete"]
  /\ UNCHANGED m

Complete ==
  /\ driver.at = "complete"
  /\ m' = [m EXCEPT !.plic = plic_complete(@, Irq)]
  /\ driver' = [driver EXCEPT !.at = "run"]

\* VIRTIO_MMIO_STATUS set to 0: the driver gives up what was not answered, but
\* waits for the requests the device supports.
Reset ==
  /\ driver.at = "run" /\ driver.outstanding = <<>> /\ ~driver.notify
  /\ m' = virtio_set_irq(ResetQueue(m), FALSE)
  /\ driver' = [driver EXCEPT !.last_used = 0, !.expected = [i \in Slots |-> <<>>]]

\* The guest does something else.
OtherWork == driver.at = "run" /\ UNCHANGED vars

Serve == Claim \/ Acknowledge \/ TakeUsed \/ NoMoreUsed \/ Complete

Next == Onload \/ Submit \/ Notify \/ Serve \/ Reset \/ OtherWork

Spec == Init /\ [][Next]_vars

\* The server answers, and the driver notifies and serves interrupts.
FairSpec == Spec /\ WF_vars(Onload) /\ WF_vars(Notify) /\ WF_vars(Serve)

-----------------------------------------------------------------------------
\* The used entries the driver has not taken yet.
Unseen == (m.used_idx - driver.last_used + IndexModulus) % IndexModulus

UnseenEntry(i) == m.used[(driver.last_used + i - 1) % QueueNum]

(***************************************************************************)
(* Each request is answered once and in the order of the avail ring, with  *)
(* the length written, although requests wait for one another and end in   *)
(* the callback of another one; no assert of block_net.c fails and the     *)
(* callback is called for a request in progress only.                      *)
(***************************************************************************)
CompletesInOrder ==
  /\ m.asserts
  /\ Unseen <= Len(driver.outstanding)
  /\ \A i \in 1 .. Unseen :
       /\ UnseenEntry(i).desc = driver.outstanding[i]
       /\ UnseenEntry(i).len = Len(m.got[UnseenEntry(i).desc])

(***************************************************************************)
(* A read returns what the last write before it stored, or the image, and  *)
(* a write to a read-only image is refused: whatever was evicted from the  *)
(* cache, prefetched or loaded while requests waited.                      *)
(***************************************************************************)
ReadsLastWrite ==
  \A i \in 1 .. Unseen :
    LET d == UnseenEntry(i).desc IN m.got[d] = driver.expected[d]

(***************************************************************************)
(* No request is forgotten and no interrupt lost: as long as requests wait *)
(* for an answer, the driver goes on getting answers.                      *)
(***************************************************************************)
RequestsComplete ==
  []<>(driver.outstanding = <<>>) \/ []<><<TakeUsed>>_vars
=============================================================================
