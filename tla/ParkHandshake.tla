--------------------------- MODULE ParkHandshake ---------------------------
(***************************************************************************)
(* The two "advertise, then check, then park" handshakes of the            *)
(* asynchronous stream, under the memory model the code is compiled for.   *)
(* With Buffered, a plain atomic store (release) waits in its thread's     *)
(* store buffer, as x86-64 and the C++ model allow, and a later load of    *)
(* another variable may overtake it; a read-modify-write drains the buffer.*)
(* Without it the memory is sequentially consistent.                       *)
(*                                                                         *)
(* Count handshake: a publisher advances a counter and loads the number of *)
(* waiters (retire_record_context and notify_completion_waiters, against   *)
(* wait_for_completion_change; release_producer has the same shape).       *)
(* Exchange handshake: a publisher advances a counter and exchanges the    *)
(* waiting flag (try_enqueue_syndrome_async and                            *)
(* wake_async_stream_for_record, against wait_for_async_wake).             *)
(***************************************************************************)
EXTENDS Naturals, Sequences

CONSTANTS
    Buffered,   \* stores go through a store buffer
    Last        \* bound: how often the publisher advances the counter

ASSUME HandshakeAssumption == Buffered \in BOOLEAN /\ Last \in Nat

VARIABLES
    mem,     \* shared atomics: counter, waiters (or the waiting flag), epoch
    buf,     \* by thread: its stores not yet in memory, oldest first
    pc,      \* by thread
    seen,    \* the waiter's observed counter
    epoch,   \* the waiter's observed_epoch
    asleep   \* the waiter is parked in the kernel

vars == <<mem, buf, pc, seen, epoch, asleep>>

Threads == {"publisher", "waiter"}
Atomics == {"counter", "waiting", "epoch"}

Init ==
    /\ mem = [x \in Atomics |-> 0]
    /\ buf = [t \in Threads |-> <<>>]
    /\ pc = [publisher |-> "store", waiter |-> "look"]
    /\ seen = 0 /\ epoch = 0 /\ asleep = FALSE

----------------------------------------------------------------------------
Goto(t, label) == pc' = [pc EXCEPT ![t] = label]
At(t, label)   == pc[t] = label /\ ~(t = "waiter" /\ asleep)

\* A thread reads its own latest buffered store, else memory.
Load(t, x) ==
    LET mine == {i \in DOMAIN buf[t] : buf[t][i][1] = x}
    IN  IF mine = {} THEN mem[x]
        ELSE buf[t][CHOOSE i \in mine : \A j \in mine : j <= i][2]

Store(t, x, v) ==
    IF Buffered
       THEN buf' = [buf EXCEPT ![t] = Append(@, <<x, v>>)] /\ UNCHANGED mem
       ELSE mem' = [mem EXCEPT ![x] = v] /\ UNCHANGED buf

\* fetch_add or exchange: a locked instruction.
ReadModifyWrite(t, x, v) ==
    /\ buf[t] = <<>>
    /\ mem' = [mem EXCEPT ![x] = v]
    /\ UNCHANGED buf

Drain(t) ==
    /\ buf[t] # <<>>
    /\ mem' = [mem EXCEPT ![Head(buf[t])[1]] = Head(buf[t])[2]]
    /\ buf' = [buf EXCEPT ![t] = Tail(@)]
    /\ UNCHANGED <<pc, seen, epoch, asleep>>

\* The publisher makes its next value visible: a retired record or a
\* submitted one.
Publish ==
    /\ At("publisher", "store") /\ Load("publisher", "counter") < Last
    /\ Store("publisher", "counter", Load("publisher", "counter") + 1)
    /\ Goto("publisher", "signal")
    /\ UNCHANGED <<seen, epoch, asleep>>

\* The waiter takes what it sees, and goes to wait for more if more is due.
Look ==
    /\ At("waiter", "look")
    /\ seen' = Load("waiter", "counter")
    /\ Goto("waiter", IF seen' < Last THEN "advertise" ELSE "done")
    /\ UNCHANGED <<mem, buf, epoch, asleep>>

----------------------------------------------------------------------------
(* The count handshake.                                                    *)

\* notify_all() is a system call, which no buffered store outlives.
NotifyIfWaiting ==
    /\ At("publisher", "signal")
    /\ IF Load("publisher", "waiting") # 0
          THEN buf["publisher"] = <<>> /\ asleep' = FALSE
          ELSE UNCHANGED asleep
    /\ Goto("publisher", "store")
    /\ UNCHANGED <<mem, buf, seen, epoch>>

CountAdvertise ==
    /\ At("waiter", "advertise")
    /\ ReadModifyWrite("waiter", "waiting", mem["waiting"] + 1)
    /\ Goto("waiter", "check")
    /\ UNCHANGED <<seen, epoch, asleep>>

\* Mutant: the waiter is no longer counted when it parks.
CountedOutFirst ==
    /\ At("waiter", "check")
    /\ ReadModifyWrite("waiter", "waiting", mem["waiting"] - 1)
    /\ asleep' = (Load("waiter", "counter") = seen)
    /\ Goto("waiter", "look")
    /\ UNCHANGED <<seen, epoch>>

\* The check of wait_for_completion_change, and the kernel's own.
CountCheck ==
    /\ At("waiter", "check")
    /\ IF Load("waiter", "counter") = seen
          THEN asleep' = TRUE /\ UNCHANGED <<pc, mem, buf>>
          ELSE /\ ReadModifyWrite("waiter", "waiting", mem["waiting"] - 1)
               /\ Goto("waiter", "look")
               /\ UNCHANGED asleep
    /\ UNCHANGED <<seen, epoch>>

CountNext ==
    \/ \E t \in Threads : Drain(t)
    \/ Publish \/ NotifyIfWaiting
    \/ Look \/ CountAdvertise \/ CountCheck

----------------------------------------------------------------------------
(* The exchange handshake.                                                 *)

\* Mutant: the publisher only loads the flag.
LoadWaiting ==
    /\ At("publisher", "signal")
    /\ Goto("publisher", IF Load("publisher", "waiting") # 0 THEN "bump" ELSE "store")
    /\ UNCHANGED <<mem, buf, seen, epoch, asleep>>

ExchangeWaiting ==
    /\ At("publisher", "signal")
    /\ ReadModifyWrite("publisher", "waiting", 0)
    /\ Goto("publisher", IF mem["waiting"] # 0 THEN "bump" ELSE "store")
    /\ UNCHANGED <<seen, epoch, asleep>>

BumpAndNotify ==
    /\ At("publisher", "bump")
    /\ ReadModifyWrite("publisher", "epoch", mem["epoch"] + 1)
    /\ asleep' = FALSE
    /\ Goto("publisher", "store")
    /\ UNCHANGED <<seen, epoch>>

ExchangeAdvertise ==
    /\ At("waiter", "advertise")
    /\ ReadModifyWrite("waiter", "waiting", 1)
    /\ Goto("waiter", "check")
    /\ UNCHANGED <<seen, epoch, asleep>>

\* work_ready(), then the epoch.
ExchangeCheck ==
    /\ At("waiter", "check")
    /\ Goto("waiter", IF Load("waiter", "counter") # seen THEN "withdraw" ELSE "park")
    /\ UNCHANGED <<mem, buf, seen, epoch, asleep>>

ExchangePark ==
    /\ At("waiter", "park")
    /\ IF Load("waiter", "epoch") = epoch
          THEN asleep' = TRUE /\ UNCHANGED pc
          ELSE Goto("waiter", "withdraw") /\ UNCHANGED asleep
    /\ UNCHANGED <<mem, buf, seen, epoch>>

ExchangeWithdraw ==
    /\ At("waiter", "withdraw")
    /\ Store("waiter", "waiting", 0)
    /\ Goto("waiter", "observe")
    /\ UNCHANGED <<seen, epoch, asleep>>

ExchangeObserve ==
    /\ At("waiter", "observe")
    /\ epoch' = Load("waiter", "epoch")
    /\ Goto("waiter", "look")
    /\ UNCHANGED <<mem, buf, seen, asleep>>

ExchangeNext ==
    \/ \E t \in Threads : Drain(t)
    \/ Publish \/ ExchangeWaiting \/ BumpAndNotify
    \/ Look \/ ExchangeAdvertise \/ ExchangeCheck \/ ExchangePark
    \/ ExchangeWithdraw \/ ExchangeObserve

----------------------------------------------------------------------------
\* Threads are scheduled, and stores reach memory eventually.
CountWaiter == Look \/ CountAdvertise \/ CountCheck
ExchangeWaiter == \/ Look \/ ExchangeAdvertise \/ ExchangeCheck
                  \/ ExchangePark \/ ExchangeWithdraw \/ ExchangeObserve

CountSpec ==
    /\ Init /\ [][CountNext]_vars
    /\ WF_vars(Publish \/ NotifyIfWaiting) /\ WF_vars(CountWaiter)
    /\ \A t \in Threads : WF_vars(Drain(t))

ExchangeSpec ==
    /\ Init /\ [][ExchangeNext]_vars
    /\ WF_vars(Publish \/ ExchangeWaiting \/ BumpAndNotify)
    /\ WF_vars(ExchangeWaiter)
    /\ \A t \in Threads : WF_vars(Drain(t))

\* The waiter catches up with everything published: it is never left parked
\* behind a value that is already there.  "A producer either sees it and wakes
\* us or we see its record"; "every retired record notifies this counter".
WaiterCatchesUp == \A n \in 1..Last : mem["counter"] >= n ~> seen >= n

\* What the count handshake keeps although a wake-up may be lost: a parked
\* waiter stays counted in what the publisher reads, whatever is buffered, so
\* the next look at the count finds it and wakes it (notify_completion_waiters
\* against the fetch_add and fetch_sub of wait_for_completion_change).
NextRecordWakes == [][NotifyIfWaiting /\ asleep => ~asleep']_vars
============================================================================
