---------------------------- MODULE MachineLoop ----------------------------
(***************************************************************************)
(* The machine of engine/src/machine.rs: the main thread, which serves the *)
(* channel of requests that CPU threads, devices and the app's handles     *)
(* fill, and what it does to the devices: the console (console.rs), whose  *)
(* input comes as requests, and the queued devices (vsock.rs, net.rs),     *)
(* which other threads fill and then wake the machine for.                 *)
(*                                                                         *)
(* A buffer the guest offers is in the ring before the guest's kick gets   *)
(* to the main thread.  The guest (its kernel) is external.                *)
(***************************************************************************)
EXTENDS Integers, Sequences

CONSTANTS
    Loads,          \* bounds: what a behaviour may have (packets, offers of each device, prints, cpus)
    BufferLength    \* what one of the console's buffers holds

Devices == {"console", "vsock"}

ASSUME MachineAssumption ==
    /\ BufferLength \in Nat \ {0}
    /\ \A l \in Loads : l.packets \in Nat /\ l.prints \in Nat /\ l.offers \in [Devices -> Nat]

VARIABLES
    load,       \* one of Loads
    machine,    \* "off", "up", "ended" (run has returned) or "told" (the exit event is written)
    reason,     \* what run returned
    requests,   \* the channel the main thread serves
    typed,      \* the channel of console_input
    device,     \* what waits for the guest, the buffers it offers, and what it was given
    waking,     \* threads that have queued a packet and not yet woken the machine
    cpu,        \* a CPU thread the guest asks for: "none", "asked", "runs" or "gone"
    printed,    \* how often the guest has printed
    stdout      \* what the process has written to the app

machineVars == <<load, machine, reason, requests, typed, device, waking, cpu, printed, stdout>>

Reasons == {"stopped", "poweroff", "panicked", "failed"}
Request(kind, arg) == [kind |-> kind, arg |-> arg, input |-> 0]
ConsoleInput(x) == [kind |-> "ConsoleInput", arg |-> "", input |-> x]
Event(name, arg) == [event |-> name, id |-> 0, arg |-> arg]
Idle == [queued |-> <<>>, offered |-> 0, offers |-> 0, kick |-> FALSE, got |-> <<>>]

MachineInit ==
    /\ load \in Loads /\ machine = "off" /\ reason = "none" /\ requests = <<>> /\ typed = <<>> /\ stdout = <<>>
    /\ device = [d \in Devices |-> Idle] /\ waking = 0 /\ cpu = "none" /\ printed = 0

\* Machine::boot has made the machine, and the thread that runs it is spawned.
Boot == machine = "off" /\ machine' = "up"

Send(request) == requests' = Append(requests, request)

-----------------------------------------------------------------------------
(* Other threads of the engine *)

\* The Sender of console_input, which any thread may have a copy of.
Type(x) ==
    /\ typed' = Append(typed, x)
    /\ UNCHANGED <<load, machine, reason, requests, device, waking, cpu, printed, stdout>>

\* The thread of console_input.
Forward ==
    /\ machine # "off" /\ typed # <<>>
    /\ Send(ConsoleInput(Head(typed))) /\ typed' = Tail(typed)
    /\ UNCHANGED <<load, machine, reason, device, waking, cpu, printed, stdout>>

\* Outbox::push: the packet is queued, and only then the machine woken.
Push(x) ==
    /\ machine # "off"
    /\ device' = [device EXCEPT !["vsock"].queued = Append(@, x)] /\ waking' = waking + 1
    /\ UNCHANGED <<load, machine, reason, requests, typed, cpu, printed, stdout>>

Wake ==
    /\ waking > 0 /\ waking' = waking - 1 /\ Send(Request("Wake", ""))
    /\ UNCHANGED <<load, machine, reason, typed, device, cpu, printed, stdout>>

\* Stopper::stop.
Stop == Send(Request("Terminate", "stopped"))

-----------------------------------------------------------------------------
(* The guest *)

\* A buffer goes into the ring; the kick that tells of it follows.
GuestOffers(d) ==
    /\ machine = "up" /\ device[d].offers < load.offers[d]
    /\ device' = [device EXCEPT ![d].offered = @ + 1, ![d].offers = @ + 1, ![d].kick = TRUE]
    /\ UNCHANGED <<load, machine, reason, requests, typed, waking, cpu, printed, stdout>>

\* run_on_main, for the kick.
GuestKicks(d) ==
    /\ machine = "up" /\ device[d].kick
    /\ device' = [device EXCEPT ![d].kick = FALSE] /\ Send(Request("RunOnMain", d))
    /\ UNCHANGED <<load, machine, reason, typed, waking, cpu, printed, stdout>>

\* boot_console_write, or a buffer of the console's output queue.
GuestPrints ==
    /\ machine = "up" /\ printed < load.prints /\ printed' = printed + 1
    /\ Send(Request("BootConsole", ""))
    /\ UNCHANGED <<load, machine, reason, typed, device, waking, cpu, stdout>>

\* terminate_machine (bound: one that waits is enough, the first decides).
GuestTerminates(r) ==
    /\ machine = "up" /\ \A i \in 1..Len(requests) : requests[i].kind # "Terminate"
    /\ Send(Request("Terminate", r))
    /\ UNCHANGED <<load, machine, reason, typed, device, waking, cpu, printed, stdout>>

\* spawn_worker; then run_cpu ends in halt_worker, or fails, which panics the machine.
GuestSpawns ==
    /\ machine = "up" /\ load.cpus /\ cpu = "none" /\ cpu' = "asked" /\ Send(Request("SpawnCpu", ""))
    /\ UNCHANGED <<load, machine, reason, typed, device, waking, printed, stdout>>

CpuEnds ==
    /\ cpu = "runs" /\ cpu' = "gone"
    /\ \/ Send(Request("CpuExited", ""))
       \/ Send(Request("Terminate", "panicked"))
    /\ UNCHANGED <<load, machine, reason, typed, device, waking, printed, stdout>>

-----------------------------------------------------------------------------
(* The main thread *)

Least(a, b) == IF a < b THEN a ELSE b

\* deliver and poll: as many of the offered buffers are filled as there is input for, in order; a
\* packet takes a buffer of its own, console input fills each buffer up to its length.
Deliver(d, this) ==
    LET room == IF d = "console" THEN BufferLength ELSE 1
        n == Least(Len(this.queued), this.offered * room)
    IN  [this EXCEPT !.queued = SubSeq(@, n + 1, Len(@)), !.offered = @ - (n + room - 1) \div room,
                     !.got = @ \o SubSeq(this.queued, 1, n)]

\* Mutant: requests are served although run has returned.
ServedAfter(kind) ==
    /\ machine # "off" /\ requests # <<>> /\ Head(requests).kind = kind
    /\ requests' = Tail(requests)

\* The head of the channel is taken.
Served(kind) ==
    /\ machine = "up" /\ requests # <<>> /\ Head(requests).kind = kind
    /\ requests' = Tail(requests)

\* write_input: the bytes go behind the ones that wait.
Input(this, x) == [this EXCEPT !.queued = Append(@, x)]

MainInput ==
    /\ Served("ConsoleInput")
    /\ device' = [device EXCEPT !["console"] = Deliver("console", Input(@, Head(requests).input))]
    /\ UNCHANGED <<load, machine, reason, typed, waking, cpu, printed, stdout>>

\* poll_devices.
MainPoll ==
    /\ Served("Wake")
    /\ device' = [device EXCEPT !["vsock"] = Deliver("vsock", @)]
    /\ UNCHANGED <<load, machine, reason, typed, waking, cpu, printed, stdout>>

\* Mutant: a kick serves the queue kicked and does not poll.
KickOnly(d, this) == IF d = "console" THEN Deliver(d, this) ELSE this

\* Connected::notify: the queue's own work, and then a poll of the device.
Kick(d, this) == Deliver(d, this)

\* virtio.notify, from the function the guest moved to the main thread.
MainNotify ==
    /\ Served("RunOnMain")
    /\ LET d == Head(requests).arg IN device' = [device EXCEPT ![d] = Kick(d, @)]
    /\ UNCHANGED <<load, machine, reason, typed, waking, cpu, printed, stdout>>

MainPrint ==
    /\ Served("BootConsole")
    /\ stdout' = Append(stdout, Event("console", ""))
    /\ UNCHANGED <<load, machine, reason, typed, device, waking, cpu, printed>>

MainSpawn ==
    /\ Served("SpawnCpu") /\ cpu' = "runs"
    /\ UNCHANGED <<load, machine, reason, typed, device, waking, printed, stdout>>

MainCpuExited ==
    /\ Served("CpuExited")
    /\ UNCHANGED <<load, machine, reason, typed, device, waking, cpu, printed, stdout>>

\* run returns the first Terminate it comes to.
MainTerminate ==
    /\ Served("Terminate") /\ machine' = "ended" /\ reason' = Head(requests).arg
    /\ UNCHANGED <<load, typed, device, waking, cpu, printed, stdout>>

\* A device's ring or a kernel call fails, and run with it.
MainFails ==
    /\ machine = "up" /\ requests # <<>>
    /\ Head(requests).kind \in {"ConsoleInput", "Wake", "RunOnMain", "SpawnCpu"}
    /\ requests' = Tail(requests) /\ machine' = "ended" /\ reason' = "failed"
    /\ UNCHANGED <<load, typed, device, waking, cpu, printed, stdout>>

Main ==
    MainInput \/ MainPoll \/ MainNotify \/ MainPrint \/ MainSpawn \/ MainCpuExited \/ MainTerminate \/ MainFails

\* The machine's thread: the exit event is written; the process follows.
Tell ==
    /\ machine = "ended" /\ machine' = "told" /\ stdout' = Append(stdout, Event("exit", reason))
    /\ UNCHANGED <<load, reason, requests, typed, device, waking, cpu, printed>>

Guest ==
    \/ \E d \in Devices : GuestOffers(d) \/ GuestKicks(d)
    \/ GuestPrints \/ GuestSpawns \/ CpuEnds
    \/ \E r \in {"poweroff", "panicked"} : GuestTerminates(r)

Pushes == \E x \in 1..load.packets : x = Len(device["vsock"].queued \o device["vsock"].got) + 1 /\ Push(x)

MachineStep == Main \/ Tell \/ Forward \/ Wake \/ Pushes \/ Guest

-----------------------------------------------------------------------------

\* Whether the channel holds a request of this kind for d.
Coming(kind, d) == \E i \in 1..Len(requests) : requests[i].kind = kind /\ requests[i].arg = d

\* No wake-up is lost: whatever waits for the guest while it offers a buffer for it has a kick, a
\* Wake or a thread that is about to wake the machine still to come (Outbox::push wakes after it has
\* queued; every kick polls).
NoLostWake ==
    machine = "up" =>
        \A d \in Devices :
            device[d].queued # <<>> /\ device[d].offered > 0 =>
                \/ device[d].kick \/ Coming("RunOnMain", d)
                \/ d = "vsock" /\ (waking > 0 \/ Coming("Wake", ""))
=============================================================================
