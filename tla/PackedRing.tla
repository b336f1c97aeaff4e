----------------------------- MODULE PackedRing -----------------------------
(***************************************************************************)
(* One packed virtqueue: Queue of engine/src/virtio.rs as every device     *)
(* uses it (pop, handle, release, one request at a time under the devices' *)
(* lock) and the guest's driver (external: Linux's packed ring), which     *)
(* runs on other threads and shares the descriptors with it.               *)
(*                                                                         *)
(* A descriptor's address stands for its request: `req` is the number of   *)
(* the request whose buffer it names.  An indirect table is one            *)
(* descriptor.  A completion is four stores to guest memory (length, id    *)
(* and the two bytes of the flags: write_u32 and write_u16 store byte by   *)
(* byte); with Ordered they become visible in program order, without it in *)
(* any order, which the plain stores allow on a weakly ordered host.  The  *)
(* flags and the wrap counters compared with them are bits, 0 or 1.        *)
(***************************************************************************)
EXTENDS Integers, Sequences, FiniteSetsExt

CONSTANTS
    Size,           \* descriptors in the ring
    MaxChain,       \* descriptors of a request
    Reqs,           \* bound: requests the driver makes between two resets
    Resets,         \* bound: resets of the device
    Ordered

ASSUME RingAssumption ==
    /\ Size \in Nat \ {0} /\ MaxChain \in 1..Size
    /\ Reqs \in Nat /\ Resets \in Nat /\ Ordered \in BOOLEAN

VARIABLES
    ring,       \* the descriptors in guest memory
    queue,      \* struct Queue
    job,        \* the request in hand: idle, popped, or its completion being stored
    failed,     \* pop or release has bailed
    driver,     \* the driver's side of the ring
    resets,
    handled,    \* history: requests the device took, with the lengths it reported
    completed   \* history: completions the driver took

vars == <<ring, queue, job, failed, driver, resets, handled, completed>>

Slots == 0..(Size - 1)
Blank == [id |-> 0, req |-> 0, len |-> 0, next |-> 0, avail |-> 0, used |-> 0]

\* Queue::new.
QueueNew == [avail_index |-> 0, used_index |-> 0, avail_wrap |-> 1, used_wrap |-> 1]
DriverNew == [avail |-> 0, avail_wrap |-> 1, used |-> 0, used_wrap |-> 1, made |-> 0,
              num_free |-> Size, adding |-> 0, broken |-> FALSE,
              heads |-> [i \in Slots |-> [num |-> 0, req |-> 0]]]
Idle == [pc |-> "idle", id |-> 0, skip |-> 0, len |-> 0, stores |-> <<>>]

Init ==
    /\ ring = [s \in Slots |-> Blank] /\ queue = QueueNew /\ job = Idle /\ failed = FALSE
    /\ driver = DriverNew /\ resets = 0 /\ handled = <<>> /\ completed = <<>>

-----------------------------------------------------------------------------
(* Queue *)

\* The i-th descriptor from an index, and the wrap counter's value there.
Slot(index, i) == (index + i) % Size
WrapAt(index, wrap, i) == IF index + i >= Size THEN 1 - wrap ELSE wrap

\* advance: a descriptor is the device's when its two bits differ and the first is the wrap counter.
Available(d, wrap) == d.avail # d.used /\ d.avail = wrap

ChainLength ==
    LET ends == {i \in Slots : ring[Slot(queue.avail_index, i)].next = 0}
    IN  IF ends = {} THEN Size ELSE Min(ends) + 1

\* pop: the head says whether there is a request; its chain must then be complete.
Pop ==
    /\ job.pc = "idle" /\ ~failed
    /\ Available(ring[queue.avail_index], queue.avail_wrap)
    /\ LET at == queue.avail_index
           n == ChainLength
           head == ring[at]
       IN  IF \E i \in 0..(n - 1) : ~Available(ring[Slot(at, i)], WrapAt(at, queue.avail_wrap, i))
           THEN failed' = TRUE /\ UNCHANGED <<queue, job, handled>>
           ELSE /\ queue' = [queue EXCEPT !.avail_index = Slot(at, n),
                                          !.avail_wrap = WrapAt(at, queue.avail_wrap, n)]
                /\ \E len \in 0..1 :
                      /\ job' = [pc |-> "release", id |-> head.id, skip |-> n, len |-> len, stores |-> <<>>]
                      /\ handled' = Append(handled, [req |-> head.req, len |-> len])
                /\ UNCHANGED failed
    /\ UNCHANGED <<ring, driver, resets, completed>>

\* Mutant: the flags are stored first.
FlagsFirst == <<"low", "high", "len", "id">>

\* release's stores in program order.
Stores == <<"len", "id", "low", "high">>

\* release: the place for the completion must have been given to the device.
Release ==
    /\ job.pc = "release"
    /\ IF Available(ring[queue.used_index], queue.used_wrap)
       THEN job' = [job EXCEPT !.pc = "store", !.stores = Stores] /\ UNCHANGED failed
       ELSE failed' = TRUE /\ job' = Idle
    /\ UNCHANGED <<ring, queue, driver, resets, handled, completed>>

\* A list of stores without its i-th.
Without(stores, i) == SubSeq(stores, 1, i - 1) \o SubSeq(stores, i + 1, Len(stores))

\* One store becomes visible to the driver.
Store(i) ==
    /\ job.pc = "store" /\ i \in DOMAIN job.stores
    /\ Ordered => i = 1
    /\ LET at == queue.used_index
           w == queue.used_wrap
       IN  ring' = [ring EXCEPT ![at] =
              CASE job.stores[i] = "len"  -> [@ EXCEPT !.len = job.len]
                [] job.stores[i] = "id"   -> [@ EXCEPT !.id = job.id]
                [] job.stores[i] = "low"  -> [@ EXCEPT !.avail = w, !.next = 0]
                [] job.stores[i] = "high" -> [@ EXCEPT !.used = w]]
    /\ job' = [job EXCEPT !.stores = Without(@, i)]
    /\ UNCHANGED <<queue, failed, driver, resets, handled, completed>>

\* The wrap counter after the completion.
UsedWrap == WrapAt(queue.used_index, queue.used_wrap, job.skip)

\* used_index moves past the chain.
Released ==
    /\ job.pc = "store" /\ job.stores = <<>>
    /\ queue' = [queue EXCEPT !.used_index = Slot(queue.used_index, job.skip), !.used_wrap = UsedWrap]
    /\ job' = Idle
    /\ UNCHANGED <<ring, failed, driver, resets, handled, completed>>

\* Mutant: a queue set up again goes on with the old wrap counters.
EnabledStale == [QueueNew EXCEPT !.avail_wrap = queue.avail_wrap, !.used_wrap = queue.used_wrap]

\* enable_queue.
Enabled == QueueNew

\* Connected::reset, and enable_queue once the driver has set its ring up again.
Reset ==
    /\ job.pc = "idle" /\ resets < Resets
    /\ resets' = resets + 1
    /\ ring' = [s \in Slots |-> Blank] /\ driver' = DriverNew
    /\ queue' = Enabled
    /\ handled' = <<>> /\ completed' = <<>>
    /\ UNCHANGED <<job, failed>>

-----------------------------------------------------------------------------
(* The driver (external) *)

\* It writes a request's descriptors, but not the flags of the first one.
DriverFill(n) ==
    /\ driver.adding = 0 /\ ~driver.broken /\ driver.made < Reqs /\ n <= driver.num_free
    /\ LET at == driver.avail
           id == CHOOSE i \in Slots : driver.heads[i].num = 0
           req == driver.made + 1
           filled(i) == LET w == WrapAt(at, driver.avail_wrap, i)
                        IN  [id |-> id, req |-> req, len |-> 0, next |-> IF i < n - 1 THEN 1 ELSE 0,
                             avail |-> w, used |-> 1 - w]
       IN  /\ ring' = [s \in Slots |->
                  LET i == (s - at) % Size
                  IN  CASE i = 0 -> [ring[s] EXCEPT !.id = id, !.req = req, !.len = 0]
                        [] i \in 1..(n - 1) -> filled(i)
                        [] OTHER -> ring[s]]
           /\ driver' = [driver EXCEPT !.adding = n, !.made = req, !.num_free = @ - n,
                                       !.heads[id] = [num |-> n, req |-> req]]
    /\ UNCHANGED <<queue, job, failed, resets, handled, completed>>

\* Then the first one's flags, which hand the request over.
DriverPublish ==
    /\ driver.adding > 0
    /\ LET at == driver.avail
           n == driver.adding
           w == driver.avail_wrap
       IN  /\ ring' = [ring EXCEPT ![at] = [@ EXCEPT !.avail = w, !.used = 1 - w, !.next = IF n > 1 THEN 1 ELSE 0]]
           /\ driver' = [driver EXCEPT !.adding = 0, !.avail = Slot(at, n), !.avail_wrap = WrapAt(at, w, n)]
    /\ UNCHANGED <<queue, job, failed, resets, handled, completed>>

\* A completion is there when both bits are the wrap counter; its id says which request it is.
DriverTake ==
    /\ ~driver.broken
    /\ LET at == driver.used
           d == ring[at]
           head == driver.heads[d.id]
       IN  /\ d.avail = driver.used_wrap /\ d.used = driver.used_wrap
           /\ IF head.num = 0
              THEN driver' = [driver EXCEPT !.broken = TRUE] /\ UNCHANGED completed
              ELSE /\ driver' = [driver EXCEPT !.heads[d.id] = [num |-> 0, req |-> 0],
                                               !.num_free = @ + head.num, !.used = Slot(at, head.num),
                                               !.used_wrap = WrapAt(at, driver.used_wrap, head.num)]
                   /\ completed' = Append(completed, [req |-> head.req, len |-> d.len])
    /\ UNCHANGED <<ring, queue, job, failed, resets, handled>>

-----------------------------------------------------------------------------
Device == Pop \/ Release \/ (\E i \in 1..4 : Store(i)) \/ Released

Driver == DriverPublish \/ DriverTake

Next == Device \/ Reset \/ Driver \/ \E n \in 1..MaxChain : DriverFill(n)

Spec == Init /\ [][Next]_vars

\* A kick makes the device take what is there, an interrupt makes the driver take completions.
FairSpec == Spec /\ WF_vars(Device) /\ WF_vars(Driver)

-----------------------------------------------------------------------------
(* Properties *)

Descriptors == [id : Slots, req : 0..Reqs, len : 0..1, next : 0..1, avail : 0..1, used : 0..1]
Results == [req : 1..Reqs, len : 0..1]

\* Every variable keeps its type; the indexes stay in the ring.
TypeOK ==
    /\ ring \in [Slots -> Descriptors]
    /\ queue \in [avail_index : Slots, used_index : Slots, avail_wrap : 0..1, used_wrap : 0..1]
    /\ job \in [pc : {"idle", "release", "store"}, id : Slots, skip : 0..Size, len : 0..1,
                stores : Seq({"len", "id", "low", "high"})]
    /\ failed \in BOOLEAN /\ resets \in 0..Resets
    /\ driver \in [avail : Slots, avail_wrap : 0..1, used : Slots, used_wrap : 0..1, made : 0..Reqs,
                   num_free : 0..Size, adding : 0..MaxChain, broken : BOOLEAN, heads : [Slots -> [num : 0..MaxChain, req : 0..Reqs]]]
    /\ handled \in Seq(Results) /\ completed \in Seq(Results)

\* The device takes every request once and in the order the driver made them, over any number of
\* turns of the ring and whatever the lengths of their chains.  "id and length first; the flags make the
\* completion visible, so publish them last": the driver takes every completion once, in order, for the
\* request it is for and with its length.  With a driver that keeps to the protocol neither side finds
\* the ring broken: pop sees no chain without its end, release no "virtqueue is full", the driver no id
\* it did not use.
CompletionsTruthful ==
    /\ TypeOK /\ ~failed /\ ~driver.broken
    /\ \A i \in DOMAIN handled : handled[i].req = i
    /\ Len(completed) <= Len(handled)
    /\ \A i \in DOMAIN completed : completed[i] = handled[i]

\* Every request the driver makes is completed, unless the device is reset.
AllCompleted == \A k \in 1..Reqs : (driver.made = k) ~> (Len(completed) >= k \/ driver.made < k)
=============================================================================
