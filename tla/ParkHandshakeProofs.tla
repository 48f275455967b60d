------------------------ MODULE ParkHandshakeProofs ------------------------
(***************************************************************************)
(* The two park-and-wake handshakes of the asynchronous stream, with store *)
(* buffers and without, for any number of publications. The exchange       *)
(* handshake loses no wake-up: a waiter asleep behind a published value    *)
(* has a notification on its way. The count handshake may lose one, but a  *)
(* waiter that has parked is woken by the next record.                     *)
(***************************************************************************)
EXTENDS ParkHandshake, SequenceTheorems, TLAPS

Labels == {"store", "signal", "bump", "look", "advertise", "check", "park", "withdraw",
           "observe", "done"}

HandshakeType ==
    /\ mem \in [Atomics -> Nat] /\ buf \in [Threads -> Seq(Atomics \X Nat)]
    /\ pc \in [Threads -> Labels] /\ seen \in Nat /\ epoch \in Nat
    /\ asleep \in BOOLEAN

-----------------------------------------------------------------------------
\* A thread with nothing buffered reads memory.
LEMMA LoadMemory ==
    ASSUME NEW t \in Threads, NEW x \in Atomics, buf[t] = <<>>
    PROVE  Load(t, x) = mem[x]
  BY DEF Load

\* A buffered withdrawal of the flag does not hide the other variables.
LEMMA LoadPast ==
    ASSUME NEW t \in Threads, NEW x \in Atomics \ {"waiting"},
           buf[t] = << <<"waiting", 0>> >>
    PROVE  Load(t, x) = mem[x]
  BY DEF Load

\* A buffer of one store drains to an empty one.
LEMMA DrainOne ==
    ASSUME NEW t \in Threads, NEW x \in Atomics, NEW v \in Nat, buf[t] = << <<x, v>> >>,
           HandshakeType, Drain(t)
    PROVE  mem' = [mem EXCEPT ![x] = v] /\ buf' = [buf EXCEPT ![t] = <<>>]
  <1>1. Head(buf[t]) = <<x, v>> /\ Tail(buf[t]) = <<>>
    OBVIOUS
  <1>2. Head(buf[t])[1] = x /\ Head(buf[t])[2] = v
    BY <1>1
  <1>3. mem' = [mem EXCEPT ![Head(buf[t])[1]] = Head(buf[t])[2]]
    BY DEF Drain
  <1>4. buf' = [buf EXCEPT ![t] = Tail(buf[t])]
    BY DEF Drain
  <1> QED
    BY <1>1, <1>2, <1>3, <1>4

\* The first threads' labels, as a function on the threads.
LEMMA InitTyped == Init => HandshakeType /\ pc["publisher"] = "store" /\ pc["waiter"] = "look"
  <1> SUFFICES ASSUME Init PROVE HandshakeType /\ pc["publisher"] = "store" /\ pc["waiter"] = "look"
    OBVIOUS
  <1>1. pc = [t \in Threads |-> IF t = "publisher" THEN "store" ELSE "look"]
    BY DEF Init, Threads
  <1>2. asleep \in BOOLEAN
    BY DEF Init
  <1> QED
    BY <1>1, <1>2 DEF Init, HandshakeType, Threads, Atomics, Labels

-----------------------------------------------------------------------------
(* The exchange handshake.                                                 *)

\* The newest value of the publisher, in memory or still in its buffer.
Latest == IF buf["publisher"] = <<>> THEN mem["counter"] ELSE buf["publisher"][1][2]

\* Each thread has at most one store of one kind on the way, and none past
\* its next locked instruction.
BuffersShort ==
    /\ pc["publisher"] \in {"store", "signal", "bump"}
    /\ pc["waiter"] \in Labels \ {"store", "signal", "bump"}
    /\ buf["publisher"] # <<>> =>
         /\ pc["publisher"] = "signal"
         /\ \E v \in Nat : buf["publisher"] = << <<"counter", v>> >>
    /\ buf["waiter"] # <<>> =>
         /\ pc["waiter"] \in {"observe", "look", "advertise", "done"}
         /\ buf["waiter"] = << <<"waiting", 0>> >>

\* The notification the publisher owes, unless it has already moved the epoch.
Owed == pc["publisher"] = "bump" \/ epoch # mem["epoch"]

\* Between its advertisement and its withdrawal the waiter's flag is up, or
\* was taken down by a publisher that now notifies; a waiter that parks knows
\* the newest value, or its publisher has still to look at the flag.
ExchangeInv ==
    /\ HandshakeType /\ BuffersShort
    /\ epoch <= mem["epoch"] /\ seen <= mem["counter"] /\ mem["counter"] <= Latest
    /\ asleep => pc["waiter"] = "park" /\ epoch = mem["epoch"]
    /\ pc["waiter"] \in {"check", "park"} => mem["waiting"] # 0 \/ Owed
    /\ pc["waiter"] = "park" => Latest = seen \/ pc["publisher"] = "signal" \/ Owed

\* A parked waiter that has missed a value is about to be notified: the
\* publisher will find its flag up, or has found it and notifies next.
ExchangeWakes ==
    asleep /\ mem["counter"] # seen =>
      \/ pc["publisher"] = "bump"
      \/ pc["publisher"] = "signal" /\ mem["waiting"] # 0

\* The waiter's reads of the counter and of the epoch see memory.
LEMMA WaiterLoads ==
    ASSUME ExchangeInv, NEW x \in {"counter", "epoch"}
    PROVE  Load("waiter", x) = mem[x]
  BY LoadMemory, LoadPast DEF ExchangeInv, BuffersShort, Threads, Atomics

\* The publisher's reads see memory at every step that reads.
LEMMA PublisherLoads ==
    ASSUME ExchangeInv, pc["publisher"] = "store"
    PROVE  Load("publisher", "counter") = mem["counter"]
  BY LoadMemory DEF ExchangeInv, BuffersShort, Threads, Atomics

\* A store that reaches memory keeps ExchangeInv.
LEMMA DrainExchange ==
    ASSUME ExchangeInv, NEW t \in Threads, Drain(t)
    PROVE  ExchangeInv'
  <1> USE DEF ExchangeInv, HandshakeType, BuffersShort, Latest, Owed, Threads, Atomics, Labels, Drain
  <1>1. CASE t = "publisher"
    <2>1. PICK v \in Nat : buf["publisher"] = << <<"counter", v>> >>
      BY <1>1
    <2>2. mem' = [mem EXCEPT !["counter"] = v] /\ buf' = [buf EXCEPT !["publisher"] = <<>>]
      <3>1. Drain("publisher")
        BY <1>1
      <3> QED
        BY <2>1, <3>1, DrainOne DEF ExchangeInv
    <2>4. mem["counter"] <= v
      BY <2>1
    <2>3. buf' \in [Threads -> Seq(Atomics \X Nat)]
      BY <2>2
    <2> QED
      BY <1>1, <2>1, <2>2, <2>3, <2>4
  <1>2. CASE t = "waiter"
    <2>1. buf["waiter"] = << <<"waiting", 0>> >>
      BY <1>2
    <2>2. mem' = [mem EXCEPT !["waiting"] = 0] /\ buf' = [buf EXCEPT !["waiter"] = <<>>]
      BY <1>2, <2>1, DrainOne
    <2>3. buf' \in [Threads -> Seq(Atomics \X Nat)]
      BY <2>2
    <2> QED
      BY <1>2, <2>1, <2>2, <2>3
  <1> QED
    BY <1>1, <1>2

\* A publication keeps ExchangeInv: from here on the publisher owes a look at
\* the flag, with its store in memory or not.
LEMMA PublishExchange ==
    ASSUME ExchangeInv, Publish
    PROVE  ExchangeInv'
  <1> USE HandshakeAssumption
      DEF ExchangeInv, HandshakeType, BuffersShort, Latest, Owed, Threads, Atomics, Labels
  <1>1. /\ pc["publisher"] = "store" /\ buf["publisher"] = <<>>
        /\ pc' = [pc EXCEPT !["publisher"] = "signal"]
        /\ UNCHANGED <<seen, epoch, asleep>>
        /\ Store("publisher", "counter", mem["counter"] + 1)
    BY PublisherLoads DEF Publish, At, Goto
  <1>2. CASE Buffered
    <2>1. buf' = [buf EXCEPT !["publisher"] = << <<"counter", mem["counter"] + 1>> >>]
          /\ mem' = mem
      BY <1>1, <1>2 DEF Store
    <2>2. << <<"counter", mem["counter"] + 1>> >> \in Seq(Atomics \X Nat)
      OBVIOUS
    <2>3. buf' \in [Threads -> Seq(Atomics \X Nat)]
      BY <2>1, <2>2
    <2> QED
      BY <1>1, <2>1, <2>3
  <1>3. CASE ~Buffered
    BY <1>1, <1>3 DEF Store
  <1> QED
    BY <1>2, <1>3

\* Every step of the exchange handshake keeps its invariant.
LEMMA ExchangeStep ==
    ASSUME ExchangeInv, [ExchangeNext]_vars
    PROVE  ExchangeInv'
  <1> USE HandshakeAssumption
      DEF ExchangeInv, HandshakeType, BuffersShort, Latest, Owed, Threads, Atomics, Labels,
          At, Goto, ReadModifyWrite
  <1>1. CASE \E t \in Threads : Drain(t)
    BY <1>1, DrainExchange
  <1>2. CASE Publish
    BY <1>2, PublishExchange
  <1>3. CASE ExchangeWaiting
    BY <1>3 DEF ExchangeWaiting
  <1>4. CASE BumpAndNotify
    <2>1. ~asleep' /\ asleep' \in BOOLEAN
      BY <1>4 DEF BumpAndNotify
    <2> QED
      BY <1>4, <2>1 DEF BumpAndNotify
  <1>5. CASE Look
    BY <1>5, WaiterLoads DEF Look
  <1>6. CASE ExchangeAdvertise
    BY <1>6 DEF ExchangeAdvertise
  <1>7. CASE ExchangeCheck
    BY <1>7, WaiterLoads DEF ExchangeCheck
  <1>8. CASE ExchangePark
    BY <1>8, WaiterLoads DEF ExchangePark
  <1>9. CASE ExchangeWithdraw
    <2>1. buf["waiter"] = <<>>
      BY <1>9 DEF ExchangeWithdraw
    <2>2. CASE Buffered
      <3>1. buf' = [buf EXCEPT !["waiter"] = << <<"waiting", 0>> >>] /\ mem' = mem
        BY <1>9, <2>1, <2>2 DEF ExchangeWithdraw, Store
      <3>2. << <<"waiting", 0>> >> \in Seq(Atomics \X Nat)
        OBVIOUS
      <3>3. buf' \in [Threads -> Seq(Atomics \X Nat)]
        BY <3>1, <3>2
      <3> QED
        BY <1>9, <3>1, <3>3 DEF ExchangeWithdraw
    <2>3. CASE ~Buffered
      BY <1>9, <2>1, <2>3 DEF ExchangeWithdraw, Store
    <2> QED
      BY <2>2, <2>3
  <1>10. CASE ExchangeObserve
    BY <1>10, WaiterLoads DEF ExchangeObserve
  <1>11. CASE UNCHANGED vars
    BY <1>11 DEF vars
  <1> QED
    BY <1>1, <1>2, <1>3, <1>4, <1>5, <1>6, <1>7, <1>8, <1>9, <1>10, <1>11 DEF ExchangeNext

\* try_enqueue_syndrome_async and wake_async_stream_for_record against
\* wait_for_async_wake: the exchange of the waiting flag loses no wake-up,
\* although the stores around it may be delayed.
THEOREM ExchangeLosesNoWakeup == ExchangeSpec => []ExchangeWakes
  <1>1. Init => ExchangeInv
    BY InitTyped DEF Init, ExchangeInv, BuffersShort, Latest, Owed, Threads, Atomics, Labels
  <1>2. ExchangeInv /\ [ExchangeNext]_vars => ExchangeInv'
    BY ExchangeStep
  <1>3. ExchangeInv => ExchangeWakes
    BY DEF ExchangeInv, HandshakeType, BuffersShort, Latest, Owed, ExchangeWakes, Atomics, Threads
  <1> QED
    BY <1>1, <1>2, <1>3, PTL DEF ExchangeSpec

-----------------------------------------------------------------------------
(* The count handshake.                                                    *)

Publications == {"counter"} \X Nat

\* The waiter buffers nothing and the publisher only values of the counter, so
\* the number of waiters is exact in memory, and the publisher reads it there.
CountInv ==
    /\ HandshakeType
    /\ buf["waiter"] = <<>> /\ buf["publisher"] \in Seq(Publications)
    /\ pc["publisher"] \in {"store", "signal"}
    /\ pc["waiter"] \in {"look", "advertise", "check", "done"}
    /\ mem["waiting"] = IF pc["waiter"] = "check" THEN 1 ELSE 0
    /\ asleep => pc["waiter"] = "check"

\* Values of the counter waiting in the buffer do not hide the number of
\* waiters, and the latest of them is what the publisher counts on from.
LEMMA CountLoads ==
    ASSUME CountInv
    PROVE  /\ Load("publisher", "waiting") = mem["waiting"]
           /\ Load("publisher", "counter") \in Nat
  <1> DEFINE b == buf["publisher"]
  <1>1. b \in Seq(Publications) /\ Len(b) \in Nat /\ DOMAIN b = 1..Len(b)
    BY LenProperties DEF CountInv
  <1>2. \A i \in DOMAIN b : b[i] \in Publications
    BY <1>1, ElementOfSeq
  <1>3. \A i \in DOMAIN b : b[i][1] = "counter" /\ b[i][2] \in Nat
    BY <1>2 DEF Publications
  <1>4. Load("publisher", "waiting") = mem["waiting"]
    BY <1>3 DEF Load
  <1>5. Load("publisher", "counter") \in Nat
    <2>1. {i \in DOMAIN b : b[i][1] = "counter"} = 1..Len(b)
      BY <1>1, <1>3
    <2>2. CASE Len(b) = 0
      <3>1. 1..Len(b) = {}
        BY <2>2
      <3> QED
        BY <2>1, <3>1 DEF Load, CountInv, HandshakeType, Atomics
    <2>3. CASE Len(b) # 0
      <3>1. \E i \in 1..Len(b) : \A j \in 1..Len(b) : j <= i
        BY <1>1, <2>3
      <3> DEFINE last == CHOOSE i \in 1..Len(b) : \A j \in 1..Len(b) : j <= i
      <3>2. last \in 1..Len(b)
        BY <3>1
      <3> HIDE DEF last
      <3>3. 1..Len(b) # {}
        BY <3>2
      <3>4. Load("publisher", "counter") = b[last][2]
        BY <2>1, <3>3 DEF Load, last
      <3> QED
        BY <1>1, <1>3, <3>2, <3>4
    <2> QED
      BY <2>2, <2>3
  <1> QED
    BY <1>4, <1>5

\* What is published is a value of the counter.
LEMMA PublicationValue ==
    ASSUME NEW p \in Publications
    PROVE  \E v \in Nat : p = <<"counter", v>>
  BY DEF Publications

\* Every step of the count handshake keeps its invariant.
LEMMA CountStep ==
    ASSUME CountInv, [CountNext]_vars
    PROVE  CountInv'
  <1> USE HandshakeAssumption DEF CountInv, HandshakeType, Threads, Atomics, Labels, At, Goto
  <1>0. \A x \in Atomics : Load("waiter", x) = mem[x]
    BY LoadMemory
  <1>1. CASE Drain("waiter")
    BY <1>1 DEF Drain
  <1>2. CASE Drain("publisher")
    <2>1. /\ Head(buf["publisher"]) \in Publications
          /\ Tail(buf["publisher"]) \in Seq(Publications)
          /\ Tail(buf["publisher"]) \in Seq(Atomics \X Nat)
      BY <1>2, HeadTailProperties DEF Drain
    <2>2. PICK v \in Nat : Head(buf["publisher"]) = <<"counter", v>>
      BY <2>1, PublicationValue, Zenon
    <2>3. mem' = [mem EXCEPT !["counter"] = v]
      <3>1. Head(buf["publisher"])[1] = "counter" /\ Head(buf["publisher"])[2] = v
        BY <2>2
      <3>2. mem' = [mem EXCEPT ![Head(buf["publisher"])[1]] = Head(buf["publisher"])[2]]
        BY <1>2 DEF Drain
      <3> QED
        BY <3>1, <3>2
    <2>4. buf' = [buf EXCEPT !["publisher"] = Tail(buf["publisher"])]
      BY <1>2 DEF Drain
    <2>5. UNCHANGED <<pc, seen, epoch, asleep>>
      BY <1>2 DEF Drain
    <2> QED
      BY <2>1, <2>3, <2>4, <2>5
  <1>3. CASE Publish
    <2> DEFINE n == Load("publisher", "counter") + 1
    <2>1. n \in Nat
      BY CountLoads
    <2>2. /\ pc' = [pc EXCEPT !["publisher"] = "signal"]
          /\ UNCHANGED <<seen, epoch, asleep>> /\ Store("publisher", "counter", n)
      BY <1>3 DEF Publish
    <2> HIDE DEF n
    <2>3. CASE Buffered
      <3>1. buf' = [buf EXCEPT !["publisher"] = Append(buf["publisher"], <<"counter", n>>)]
            /\ mem' = mem
        BY <2>2, <2>3 DEF Store
      <3>2. <<"counter", n>> \in Publications /\ <<"counter", n>> \in Atomics \X Nat
        BY <2>1 DEF Publications
      <3>3. /\ Append(buf["publisher"], <<"counter", n>>) \in Seq(Publications)
            /\ Append(buf["publisher"], <<"counter", n>>) \in Seq(Atomics \X Nat)
        BY <3>2, AppendProperties
      <3> QED
        BY <2>2, <3>1, <3>3
    <2>4. CASE ~Buffered
      BY <2>1, <2>2, <2>4 DEF Store
    <2> QED
      BY <2>3, <2>4
  <1>4. CASE NotifyIfWaiting
    <2>1. asleep' \in BOOLEAN /\ (asleep' => asleep)
      BY <1>4 DEF NotifyIfWaiting
    <2> QED
      BY <1>4, <2>1 DEF NotifyIfWaiting
  <1>5. CASE Look
    BY <1>0, <1>5 DEF Look
  <1>6. CASE CountAdvertise
    BY <1>6 DEF CountAdvertise, ReadModifyWrite
  <1>7. CASE CountCheck
    <2>1. CASE mem["counter"] = seen
      <3>1. asleep' /\ asleep' \in BOOLEAN
        BY <1>0, <1>7, <2>1 DEF CountCheck
      <3> QED
        BY <1>0, <1>7, <2>1, <3>1 DEF CountCheck
    <2>2. CASE mem["counter"] # seen
      BY <1>0, <1>7, <2>2 DEF CountCheck, ReadModifyWrite
    <2> QED
      BY <2>1, <2>2
  <1>8. CASE UNCHANGED vars
    BY <1>8 DEF vars
  <1> QED
    BY <1>1, <1>2, <1>3, <1>4, <1>5, <1>6, <1>7, <1>8 DEF CountNext

\* retire_record_context and notify_completion_waiters against
\* wait_for_completion_change: with or without store buffers and for any number
\* of records, a waiter that has parked is woken by the next record retired.
\* The wake-up of the last one may be lost: the run park_count_tso shows how.
THEOREM CountWakesNext == CountSpec => NextRecordWakes
  <1>1. Init => CountInv
    <2>1. Init => <<>> \in Seq(Publications)
      BY EmptySeq
    <2> QED
      BY <2>1, InitTyped DEF Init, CountInv, Threads, Atomics
  <1>2. CountInv /\ [CountNext]_vars => CountInv'
    BY CountStep
  <1>3. CountInv => [NotifyIfWaiting /\ asleep => ~asleep']_vars
    <2> SUFFICES ASSUME CountInv, NotifyIfWaiting, asleep PROVE ~asleep'
      OBVIOUS
    <2>1. mem["waiting"] = 1
      BY DEF CountInv
    <2>2. Load("publisher", "waiting") # 0
      BY <2>1, CountLoads
    <2> QED
      BY <2>2 DEF NotifyIfWaiting
  <1> QED
    BY <1>1, <1>2, <1>3, PTL DEF CountSpec, NextRecordWakes
============================================================================
