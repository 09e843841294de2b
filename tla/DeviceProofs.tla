---------------------------- MODULE DeviceProofs ----------------------------
(***************************************************************************)
(* Proofs about DeviceQueue: for any queues on any devices, any number of  *)
(* calls, any workspace lengths and every backend.                         *)
(***************************************************************************)
EXTENDS DeviceQueue, SequenceTheorems, TLAPS

-----------------------------------------------------------------------------
(* The inductive invariant.                                                 *)

Busy ==
  [step : {"handle", "device", "query", "workspace", "launch", "clear"},
   task : {"size", "compute"}, queue : Queues, routine : Routines[backend],
   need : Nat, legal : BOOLEAN]

CallRecords ==
  [queue : Queues, routine : Routines[backend], need : Nat, legal : BOOLEAN,
   info : Nat]

KernelRecords ==
  [call : Nat, task : {"compute", "clear"}, device : Devices,
   handle : Devices \cup {NoDevice}, count : Nat]

Endings == {"calling", "returned"} \cup Errors

Typed ==
  /\ backend \in Backends
  /\ active \in Devices
  /\ open \in [Queues -> BOOLEAN]
  /\ solver \in [Queues -> Devices \cup {NoDevice}]
  /\ params \in [Queues -> BOOLEAN]
  /\ work \in [Queues -> [count : Nat, length : Nat]]
  /\ lent \in [Queues -> Nat]
  /\ host \in Busy \cup {Idle}
  /\ stream \in [Queues -> Seq(KernelRecords)]
  /\ calls \in Seq(CallRecords)
  /\ ended \in Seq(Endings) /\ Len(ended) = Len(calls)
  /\ dev_info \in Seq(Nat \cup {Unset}) /\ Len(dev_info) = Len(calls)

\* A handle is on the device of its queue.  What is closed has nothing.
HandlesRight ==
  \A q \in Queues :
    /\ solver[q] # NoDevice => Cuda /\ solver[q] = DeviceOf[q] /\ open[q]
    /\ params[q] \/ stream[q] # <<>> => open[q]

\* What the steps of a call rely on: those that come before have done it.
HostRight ==
  host # Idle =>
    LET q == host.queue
    IN  /\ open[q]
        /\ host.step # "handle" =>
             backend # "stub" /\ (Cuda => solver[q] = DeviceOf[q])
        /\ host.step \notin {"handle", "device"} /\ backend # "onemkl" =>
             active = DeviceOf[q]
        /\ host.task = "size" =>
             /\ host.legal /\ backend \notin {"rocm", "stub"}
             /\ host.step \in {"handle", "device", "query"}
             /\ stream[q] = <<>>
        /\ host.step = "clear" =>
             Clears(host.routine) /\ (host.legal \/ ~Guarded(host.routine))

\* The call in progress is the last one made, and finds its workspace.
CallRight ==
  host # Idle /\ host.task = "compute" =>
    LET q == host.queue
        c == calls[Current]
    IN  /\ Current \in Made
        /\ c.queue = q /\ c.routine = host.routine
        /\ c.need = host.need /\ c.legal = host.legal
        /\ ~Internal(c.routine) =>
             IF OwnWork(c.routine)
             THEN host.step \in {"launch", "clear"} => c.need <= work[q].length
             ELSE c.need <= lent[q]
        /\ \A k \in Kernels(q) : Last(k) => k.call # Current

\* Only the call in progress has not ended; arguments and results are those
\* that Begin allows; a wrapper returns from an illegal call only if it does
\* not look; and only a stub throws a lapack::Error.
CallsRight ==
  \A c \in Made :
    /\ ended[c] = "calling" <=> host # Idle /\ host.task = "compute" /\ c = Current
    /\ calls[c].info \in Infos[backend]
    /\ calls[c].routine = "geqrf" => calls[c].info = 0
    /\ ~calls[c].legal => backend \in Careless
    /\ ended[c] = "returned" => calls[c].legal \/ ~Guarded(calls[c].routine)
    /\ ended[c] = "lapack::Error" => backend = "stub"

\* Kernels are of calls made on their queue, and wipe only what is theirs.
KernelsRight ==
  \A q \in Queues : \A k \in Kernels(q) :
    /\ k.call \in Made /\ calls[k.call].queue = q
    /\ k.task = "clear" => Clears(calls[k.call].routine)

\* A call that returned has its result, or the kernel that will bring it.
ResultsComing ==
  \A c \in Made :
    calls[c].legal /\ ended[c] = "returned" =>
      \/ dev_info[c] = calls[c].info
      \/ \E q \in Queues : \E k \in Kernels(q) : k.call = c /\ Last(k)

\* The last kernels of calls are in the order of the calls, one for each.
OldestFirst ==
  \A q \in Queues : \A i, j \in DOMAIN stream[q] :
    i < j /\ Last(stream[q][i]) /\ Last(stream[q][j]) =>
      stream[q][i].call < stream[q][j].call

-----------------------------------------------------------------------------
(* Sequences, and the streams made of them.                                 *)

LEMMA AppendElements ==
  ASSUME NEW S, NEW s \in Seq(S), NEW e \in S
  PROVE  /\ Append(s, e) \in Seq(S) /\ Len(Append(s, e)) = Len(s) + 1
         /\ \A i \in 1 .. Len(s) : Append(s, e)[i] = s[i]
         /\ Append(s, e)[Len(s) + 1] = e
         /\ DOMAIN s = 1 .. Len(s) /\ DOMAIN Append(s, e) = 1 .. Len(s) + 1
  OBVIOUS

LEMMA TailElements ==
  ASSUME NEW S, NEW s \in Seq(S), s # <<>>
  PROVE  /\ Tail(s) \in Seq(S) /\ Head(s) \in S /\ Head(s) = s[1]
         /\ Len(s) \in Nat \ {0}
         /\ DOMAIN s = 1 .. Len(s) /\ DOMAIN Tail(s) = 1 .. Len(s) - 1
         /\ \A i \in 1 .. Len(s) - 1 : Tail(s)[i] = s[i + 1]
  OBVIOUS

LEMMA ExceptElements ==
  ASSUME NEW S, NEW s \in Seq(S), NEW c, NEW e \in S
  PROVE  /\ [s EXCEPT ![c] = e] \in Seq(S) /\ Len([s EXCEPT ![c] = e]) = Len(s)
         /\ \A i \in 1 .. Len(s) : [s EXCEPT ![c] = e][i] = IF i = c THEN e ELSE s[i]
<1> DEFINE t == [s EXCEPT ![c] = e]
<1>1. Len(s) \in Nat /\ DOMAIN s = 1 .. Len(s) /\ DOMAIN t = 1 .. Len(s)
  OBVIOUS
<1>2. CASE c \in 1 .. Len(s)
  BY <1>2, ExceptSeq
<1>3. CASE c \notin 1 .. Len(s)
  <2>1. t = s
    BY <1>1, <1>3
  <2> QED
    BY <1>1, <1>3, <2>1
<1> QED
  BY <1>2, <1>3

LEMMA ElementOf ==
  ASSUME NEW S, NEW s \in Seq(S), NEW i \in 1 .. Len(s)
  PROVE  s[i] \in S
  OBVIOUS

\* A step that enqueues k adds k to the kernels of its queue, after the others.
LEMMA Enqueued ==
  ASSUME Typed, NEW q \in Queues, NEW k \in KernelRecords,
         stream' = [stream EXCEPT ![q] = Append(@, k)]
  PROVE  /\ stream' \in [Queues -> Seq(KernelRecords)]
         /\ Kernels(q)' = Kernels(q) \cup {k}
         /\ \A p \in Queues \ {q} : stream'[p] = stream[p] /\ Kernels(p)' = Kernels(p)
<1> DEFINE s == stream[q]
<1>1. s \in Seq(KernelRecords)
  BY DEF Typed
<1>2. stream'[q] = Append(s, k)
  BY DEF Typed
<1>3. Kernels(q)' = {Append(s, k)[i] : i \in 1 .. Len(s) + 1}
  BY <1>1, <1>2, AppendElements DEF Kernels
<1>4. Kernels(q) = {s[i] : i \in 1 .. Len(s)}
  BY <1>1, AppendElements DEF Kernels
<1>5. Len(s) \in Nat /\ 1 .. Len(s) + 1 = (1 .. Len(s)) \cup {Len(s) + 1}
  BY <1>1
<1>6. /\ \A i \in 1 .. Len(s) : Append(s, k)[i] = s[i]
      /\ Append(s, k)[Len(s) + 1] = k
  BY <1>1, AppendElements
<1>7. Kernels(q)' = Kernels(q) \cup {k}
  BY <1>3, <1>4, <1>5, <1>6
<1>8. stream' \in [Queues -> Seq(KernelRecords)]
  BY <1>1, AppendElements DEF Typed
<1>9. \A p \in Queues \ {q} : stream'[p] = stream[p]
  BY DEF Typed
<1>10. \A p \in Queues \ {q} : Kernels(p)' = Kernels(p)
  BY <1>9, Zenon DEF Kernels
<1> QED
  BY <1>7, <1>8, <1>9, <1>10, Zenon

\* A kernel that finishes was the first of its stream, the others stay.
LEMMA Dequeued ==
  ASSUME Typed, NEW q \in Queues, stream[q] # <<>>,
         stream' = [stream EXCEPT ![q] = Tail(@)]
  PROVE  /\ stream' \in [Queues -> Seq(KernelRecords)]
         /\ Head(stream[q]) \in Kernels(q)
         /\ Kernels(q) = Kernels(q)' \cup {Head(stream[q])}
         /\ \A p \in Queues \ {q} : stream'[p] = stream[p] /\ Kernels(p)' = Kernels(p)
<1> DEFINE s == stream[q]
<1>1. s \in Seq(KernelRecords) /\ s # <<>>
  BY DEF Typed
<1>2. stream'[q] = Tail(s)
  BY DEF Typed
<1>3. Kernels(q)' = {Tail(s)[i] : i \in 1 .. Len(s) - 1}
  <2>1. DOMAIN Tail(s) = 1 .. Len(s) - 1
    BY <1>1, TailElements
  <2> QED
    BY <1>2, <2>1, Zenon DEF Kernels
<1>4. Kernels(q) = {s[i] : i \in 1 .. Len(s)}
  BY <1>1, TailElements DEF Kernels
<1>5. Len(s) \in Nat \ {0} /\ \A i \in 1 .. Len(s) - 1 : Tail(s)[i] = s[i + 1]
  BY <1>1, TailElements
<1>6. Head(s) = s[1]
  BY <1>1, TailElements
<1>7. \A x \in Kernels(q)' : x \in Kernels(q)
  BY <1>3, <1>4, <1>5
<1>8. \A x \in Kernels(q) : x = Head(s) \/ x \in Kernels(q)'
  <2> SUFFICES ASSUME NEW i \in 1 .. Len(s), i # 1
               PROVE  \E j \in 1 .. Len(s) - 1 : Tail(s)[j] = s[i]
    BY <1>3, <1>4, <1>6
  <2>1. i - 1 \in 1 .. Len(s) - 1 /\ (i - 1) + 1 = i
    BY <1>5
  <2> WITNESS i - 1 \in 1 .. Len(s) - 1
  <2> QED
    BY <1>5, <2>1
<1>9. Head(s) \in Kernels(q)
  BY <1>4, <1>5, <1>6
<1>10. stream' \in [Queues -> Seq(KernelRecords)]
  BY <1>1, TailElements DEF Typed
<1>11. \A p \in Queues \ {q} : stream'[p] = stream[p]
  BY DEF Typed
<1> QED
  BY <1>7, <1>8, <1>9, <1>10, <1>11, Zenon DEF Kernels

LEMMA KernelsTyped ==
  ASSUME Typed, NEW q \in Queues
  PROVE  Kernels(q) \subseteq KernelRecords /\ (stream[q] = <<>> <=> Kernels(q) = {})
<1>1. stream[q] \in Seq(KernelRecords)
  BY DEF Typed
<1>2. DOMAIN stream[q] = 1 .. Len(stream[q]) /\ Len(stream[q]) \in Nat
  BY <1>1
<1>3. \A i \in DOMAIN stream[q] : stream[q][i] \in KernelRecords
  BY <1>1
<1>4. stream[q] = <<>> <=> Len(stream[q]) = 0
  BY <1>1
<1>5. Kernels(q) \subseteq KernelRecords
  BY <1>3 DEF Kernels
<1>6. CASE stream[q] = <<>>
  <2>1. DOMAIN stream[q] = {}
    BY <1>2, <1>4, <1>6
  <2> QED
    BY <1>5, <1>6, <2>1, Zenon DEF Kernels
<1>7. CASE stream[q] # <<>>
  <2>1. 1 \in DOMAIN stream[q]
    BY <1>2, <1>4, <1>7
  <2> QED
    BY <1>5, <1>7, <2>1, Zenon DEF Kernels
<1> QED
  BY <1>6, <1>7

-----------------------------------------------------------------------------
(* Types.                                                                   *)

\* The action of a step, and the queue that acts.
LEMMA Steps ==
  ASSUME [Next]_vars
  PROVE  \/ \E q \in Queues : Construct(q)
         \/ \E q \in Queues : Destroy(q)
         \/ \E q \in Queues, routine \in Routines[backend] :
            \E need \in Lengths(routine) :
              AskSize(q, routine, need)
         \/ \E q \in Queues, routine \in Routines[backend] :
            \E need \in Lengths(routine) :
            \E legal \in {TRUE, backend \notin Careless}, info \in Infos[backend] :
              Call(q, routine, need, legal, info)
         \/ Unavailable \/ GetHandle \/ SetDevice \/ QuerySize \/ EnsureWork
         \/ Launch \/ ClearInfo
         \/ \E q \in Queues : Run(q)
         \/ UNCHANGED vars
  BY DEF Next, Begin, Proceed

LEMMA Proceeding ==
  ASSUME Typed, host # Idle
  PROVE  host \in Busy /\ host.step # "idle"
  BY DEF Typed, Busy

LEMMA Named ==
  ASSUME Typed
  PROVE  /\ host.step \in {"handle", "device", "query", "workspace", "launch", "clear"}
              <=> host # Idle
         /\ Idle.step = "idle"
  BY DEF Typed, Busy, Idle

\* solver_params_ is created on the queue's device.
LEMMA ParamsStep ==
  ASSUME Typed, NEW q \in Queues, GetParams(q)
  PROVE  /\ active' \in {active, DeviceOf[q]} /\ active' \in Devices
         /\ params' \in [Queues -> BOOLEAN]
         /\ \A p \in Queues : params'[p] => params[p] \/ p = q
<1>1. CASE backend = "cuda11" /\ ~params[q]
  <2>1. active' = DeviceOf[q] /\ params' = [params EXCEPT ![q] = TRUE]
    BY <1>1 DEF GetParams
  <2> QED
    BY <2>1, DeviceAssumption DEF Typed
<1>2. CASE ~(backend = "cuda11" /\ ~params[q])
  BY <1>2 DEF Typed, GetParams
<1> QED
  BY <1>1, <1>2

LEMMA TypedInit == Init => Typed
  BY DEF Init, Typed

LEMMA TypedNext == Typed /\ KernelsRight /\ [Next]_vars => Typed'
<1> SUFFICES ASSUME Typed, KernelsRight, [Next]_vars PROVE Typed'
  OBVIOUS
<1>a. /\ Needs \subseteq Nat /\ 0 \in Nat
      /\ \A b \in Backends : Infos[b] \subseteq Nat
  BY NumbersAssumption
<1>b. \A q \in Queues : DeviceOf[q] \in Devices /\ Chosen(q) \in Devices
  BY DeviceAssumption DEF Typed, Chosen
<1>1. ASSUME NEW q \in Queues, Construct(q) PROVE Typed'
  BY <1>1, <1>b DEF Construct, Typed, Busy, CallRecords, KernelRecords
<1>2. ASSUME NEW q \in Queues, Destroy(q) PROVE Typed'
  BY <1>2, <1>b DEF Destroy, Typed, Busy, CallRecords, KernelRecords
<1>3. ASSUME NEW q \in Queues, NEW routine \in Routines[backend],
             NEW need \in Lengths(routine),
             AskSize(q, routine, need)
      PROVE  Typed'
  <2>1. need \in Nat
    BY <1>a DEF Lengths
  <2>2. CASE backend \in {"rocm", "stub"}
    BY <1>3, <2>1, <2>2 DEF AskSize, Typed, Busy, CallRecords, KernelRecords, queueVars
  <2>3. CASE backend \notin {"rocm", "stub"}
    <3>1. host' = [step |-> "handle", task |-> "size", queue |-> q,
                   routine |-> routine, need |-> need, legal |-> TRUE]
      BY <1>3, <2>3 DEF AskSize
    <3>2. host' \in Busy
      BY <2>1, <3>1 DEF Busy
    <3> QED
      BY <1>3, <2>3, <3>2 DEF AskSize, Typed, Busy, CallRecords, KernelRecords, queueVars
  <2> QED
    BY <2>2, <2>3
<1>4. ASSUME NEW q \in Queues, NEW routine \in Routines[backend],
             NEW need \in Lengths(routine),
             NEW legal \in {TRUE, backend \notin Careless}, NEW info \in Infos[backend],
             Call(q, routine, need, legal, info)
      PROVE  Typed'
  <2>1. need \in Nat /\ info \in Nat /\ legal \in BOOLEAN
    BY <1>a DEF Typed, Lengths
  <2> DEFINE c == [queue |-> q, routine |-> routine, need |-> need,
                   legal |-> legal, info |-> info]
  <2>2. c \in CallRecords
    BY <2>1 DEF CallRecords
  <2>3. host' \in Busy
    BY <1>4, <2>1 DEF Call, Busy
  <2>4. calls' \in Seq(CallRecords) /\ Len(calls') = Len(calls) + 1
    BY <1>4, <2>2, AppendElements DEF Call, Typed
  <2>5. ended' \in Seq(Endings) /\ Len(ended') = Len(ended) + 1
    BY <1>4, AppendElements DEF Call, Typed, Endings
  <2>6. dev_info' \in Seq(Nat \cup {Unset}) /\ Len(dev_info') = Len(dev_info) + 1
    BY <1>4 DEF Call, Typed
  <2> QED
    BY <1>4, <2>3, <2>4, <2>5, <2>6 DEF Call, Typed, Busy, CallRecords, KernelRecords,
         queueVars
<1>c. ended' = ended \/ (\E e \in Endings : ended' = [ended EXCEPT ![Current] = e])
             => ended' \in Seq(Endings) /\ Len(ended') = Len(ended)
  <2> SUFFICES ASSUME \/ ended' = ended
                      \/ \E e \in Endings : ended' = [ended EXCEPT ![Current] = e]
               PROVE  ended' \in Seq(Endings) /\ Len(ended') = Len(ended)
    OBVIOUS
  <2>1. ended \in Seq(Endings)
    BY DEF Typed
  <2> QED
    BY <2>1, ExceptElements
<1>5. CASE Unavailable
  BY <1>5, <1>c DEF Unavailable, End, Endings, Errors, Typed, Busy, CallRecords,
     KernelRecords, queueVars
<1>d. CASE UNCHANGED vars
  BY <1>d DEF Typed, Busy, CallRecords, KernelRecords, queueVars, vars
<1>6. CASE GetHandle
  <2>1. host \in Busy
    BY <1>6, Named, Proceeding DEF GetHandle
  <2>2. active' \in Devices /\ solver' \in [Queues -> Devices \cup {NoDevice}]
    BY <1>6, <2>1, <1>b DEF GetHandle, Typed, Busy
  <2>3. host' \in Busy
    BY <1>6, <2>1 DEF GetHandle, Busy
  <2> QED
    BY <1>6, <2>2, <2>3 DEF GetHandle, Typed, Busy, CallRecords, KernelRecords, queueVars
<1>7. CASE SetDevice
  <2>1. host \in Busy
    BY <1>7, Named, Proceeding DEF SetDevice
  <2>2. host' \in Busy /\ active' \in Devices
    BY <1>7, <2>1, <1>b DEF SetDevice, Busy
  <2> QED
    BY <1>7, <2>2 DEF SetDevice, Typed, Busy, CallRecords, KernelRecords, queueVars
<1>8. CASE QuerySize
  <2>1. host \in Busy
    BY <1>8, Named, Proceeding DEF QuerySize
  <2>2. host.queue \in Queues
    BY <2>1 DEF Busy
  <2>3. active' \in Devices /\ params' \in [Queues -> BOOLEAN]
    BY <1>8, <2>2, ParamsStep DEF QuerySize
  <2>4. host' \in Busy \cup {Idle} /\ lent' \in [Queues -> Nat]
    BY <1>8, <2>1 DEF QuerySize, Busy, Typed, End
  <2>5. ended' \in Seq(Endings) /\ Len(ended') = Len(ended)
    BY <1>8, <1>c DEF QuerySize, End, Endings, Errors
  <2> QED
    BY <1>8, <2>3, <2>4, <2>5 DEF QuerySize, Typed, Busy, CallRecords, KernelRecords,
         queueVars
<1>9. CASE EnsureWork
  <2>1. host \in Busy
    BY <1>9, Named, Proceeding DEF EnsureWork
  <2>2. host' \in Busy \cup {Idle}
    BY <1>9, <2>1 DEF EnsureWork, Busy, End
  <2>3. ended' \in Seq(Endings) /\ Len(ended') = Len(ended)
    BY <1>9, <1>c DEF EnsureWork, End, Endings, Errors
  <2> DEFINE q == host.queue
             grown == [count |-> work[q].count + 1, length |-> host.need]
  <2>4. work' \in [Queues -> [count : Nat, length : Nat]]
    <3>1. q \in Queues /\ host.need \in Nat /\ work[q].count \in Nat
      BY <2>1 DEF Busy, Typed
    <3>2. grown \in [count : Nat, length : Nat]
      BY <3>1
    <3>3. work' = work \/ work' = [work EXCEPT ![q] = grown]
      BY <1>9 DEF EnsureWork
    <3> QED
      BY <3>2, <3>3 DEF Typed
  <2> QED
    BY <1>9, <2>2, <2>3, <2>4 DEF EnsureWork, Typed, Busy, CallRecords, KernelRecords,
         queueVars
<1>10. CASE Launch
  <2>1. host \in Busy
    BY <1>10, Named, Proceeding DEF Launch
  <2>2. host.queue \in Queues
    BY <2>1 DEF Busy
  <2>3. active' \in Devices /\ params' \in [Queues -> BOOLEAN]
    BY <1>10, <2>2, ParamsStep DEF Launch
  <2>4. Kernel("compute", host.queue) \in KernelRecords
    BY <1>b, <2>2, <2>3 DEF Kernel, KernelRecords, Typed, Current
  <2>5. stream' \in [Queues -> Seq(KernelRecords)]
    BY <1>10, <2>2, <2>4, Enqueued DEF Launch, Typed
  <2>6. host' \in Busy \cup {Idle}
    BY <1>10, <2>1 DEF Launch, Busy, End
  <2>7. ended' \in Seq(Endings) /\ Len(ended') = Len(ended)
    BY <1>10, <1>c DEF Launch, End, Endings, Errors
  <2> QED
    BY <1>10, <2>3, <2>5, <2>6, <2>7 DEF Launch, Typed, Busy, CallRecords, KernelRecords,
         queueVars
<1>11. CASE ClearInfo
  <2>1. host \in Busy
    BY <1>11, Named, Proceeding DEF ClearInfo
  <2>2. host.queue \in Queues
    BY <2>1 DEF Busy
  <2>3. active' \in Devices
    BY <1>11, <1>b, <2>2 DEF ClearInfo
  <2>4. Kernel("clear", host.queue) \in KernelRecords
    BY <1>b, <2>2, <2>3 DEF Kernel, KernelRecords, Typed, Current
  <2>5. stream' \in [Queues -> Seq(KernelRecords)]
    BY <1>11, <2>2, <2>4, Enqueued DEF ClearInfo, Typed
  <2>6. ended' \in Seq(Endings) /\ Len(ended') = Len(ended)
    BY <1>11, <1>c DEF ClearInfo, End, Endings
  <2> QED
    BY <1>11, <2>3, <2>5, <2>6 DEF ClearInfo, End, Typed, Busy, CallRecords,
         KernelRecords, queueVars
<1>12. ASSUME NEW q \in Queues, Run(q) PROVE Typed'
  <2>1. stream' \in [Queues -> Seq(KernelRecords)]
    BY <1>12, Dequeued DEF Run
  <2> DEFINE k == Head(stream[q])
             result == IF k.task = "clear" THEN 0
                       ELSE IF Clears(calls[k.call].routine) THEN dev_info[k.call]
                       ELSE calls[k.call].info
  <2>2. k.call \in Made
    BY <1>12, Dequeued DEF Run, KernelsRight
  <2>3. calls[k.call].info \in Nat /\ dev_info[k.call] \in Nat \cup {Unset}
    <3>1. calls[k.call] \in CallRecords /\ dev_info[k.call] \in Nat \cup {Unset}
      BY <2>2, ElementOf DEF Typed, Made
    <3> QED
      BY <3>1 DEF CallRecords
  <2>4. result \in Nat \cup {Unset} /\ dev_info' = [dev_info EXCEPT ![k.call] = result]
    BY <1>12, <2>3 DEF Run
  <2> HIDE DEF k, result
  <2>5. dev_info' \in Seq(Nat \cup {Unset}) /\ Len(dev_info') = Len(dev_info)
    <3>1. dev_info \in Seq(Nat \cup {Unset})
      BY DEF Typed
    <3> QED
      BY <2>4, <3>1, ExceptElements
  <2> QED
    BY <1>12, <2>1, <2>5 DEF Run, Typed, Busy, CallRecords, KernelRecords, queueVars
<1> QED
  BY Steps, <1>1, <1>2, <1>3, <1>4, <1>5, <1>6, <1>7, <1>8, <1>9, <1>10, <1>11, <1>12,
     <1>d

-----------------------------------------------------------------------------
(* What steps leave alone.                                                  *)

\* The backend never changes, nor does a call that was made.
LEMMA Kept ==
  ASSUME Typed, [Next]_vars
  PROVE  /\ backend' = backend
         /\ Current \in Nat /\ Current' \in Nat /\ Current <= Current'
         /\ \A c \in Made : c \in Made' /\ calls'[c] = calls[c]
<1>1. backend' = backend
  <2>1. ASSUME NEW p, NEW routine, NEW need, NEW legal, NEW info,
               \/ Construct(p) \/ Destroy(p) \/ AskSize(p, routine, need)
               \/ Call(p, routine, need, legal, info) \/ Run(p)
        PROVE  backend' = backend
    BY <2>1 DEF Construct, Destroy, AskSize, Call, Run
  <2>2. ASSUME \/ Unavailable \/ GetHandle \/ SetDevice \/ QuerySize \/ EnsureWork
               \/ Launch \/ ClearInfo \/ UNCHANGED vars
        PROVE  backend' = backend
    BY <2>2 DEF Unavailable, GetHandle, SetDevice, QuerySize, EnsureWork, Launch,
       ClearInfo, vars
  <2> QED
    BY <2>1, <2>2, Steps
<1>2. calls' = calls \/ \E q, routine, need, legal, info : Call(q, routine, need, legal, info)
  BY Steps DEF Construct, Destroy, AskSize, Unavailable, GetHandle, SetDevice,
     QuerySize, EnsureWork, Launch, ClearInfo, Run, vars
<1>3. calls' = calls \/ \E c : calls' = Append(calls, c)
  <2> SUFFICES ASSUME NEW q, NEW routine, NEW need, NEW legal, NEW info,
                      Call(q, routine, need, legal, info)
               PROVE  \E c : calls' = Append(calls, c)
    BY <1>2
  <2> QED
    BY DEF Call
<1>4. calls \in Seq(CallRecords)
  BY DEF Typed
<1>5. CASE calls' = calls
  BY <1>1, <1>4, <1>5 DEF Made, Current
<1>6. ASSUME NEW c, calls' = Append(calls, c)
      PROVE  /\ Len(calls') = Len(calls) + 1 /\ Len(calls) \in Nat
             /\ \A d \in 1 .. Len(calls) : calls'[d] = calls[d]
  <2>1. calls \in Seq(CallRecords \cup {c})
    BY <1>4
  <2> QED
    BY <1>6, <2>1, AppendElements
<1> QED
  BY <1>1, <1>3, <1>5, <1>6 DEF Made, Current

\* Whether a kernel is its call's last one stays as it is.
LEMMA LastKept ==
  ASSUME Typed, KernelsRight, [Next]_vars, NEW q \in Queues, NEW k \in Kernels(q)
  PROVE  Last(k)' <=> Last(k)
<1>1. calls'[k.call] = calls[k.call] /\ backend' = backend
  BY Kept DEF KernelsRight
<1> QED
  BY <1>1 DEF Last, Clears

\* The actions that touch a stream.
LEMMA StreamsKept ==
  ASSUME Typed, [Next]_vars
  PROVE  \/ stream' = stream
         \/ Launch /\ host.legal
         \/ ClearInfo
         \/ \E q \in Queues : Run(q)
<1>1. CASE Launch
  BY <1>1 DEF Launch
<1>2. ASSUME NEW p, NEW routine, NEW need, NEW legal, NEW info,
             \/ Construct(p) \/ Destroy(p) \/ AskSize(p, routine, need)
             \/ Call(p, routine, need, legal, info)
      PROVE  stream' = stream
  BY <1>2 DEF Construct, Destroy, AskSize, Call
<1>3. ASSUME \/ Unavailable \/ GetHandle \/ SetDevice \/ QuerySize \/ EnsureWork
             \/ UNCHANGED vars
      PROVE  stream' = stream
  BY <1>3 DEF Unavailable, GetHandle, SetDevice, QuerySize, EnsureWork, vars
<1> QED
  BY <1>1, <1>2, <1>3, Steps

LEMMA LaunchEnqueues ==
  ASSUME Typed, Launch, host.legal
  PROVE  \E q \in Queues, k \in KernelRecords :
           /\ host \in Busy /\ q = host.queue /\ k = Kernel("compute", q)
           /\ stream' = [stream EXCEPT ![q] = Append(@, k)]
           /\ Kernels(q)' = Kernels(q) \cup {k}
           /\ \A p \in Queues \ {q} : stream'[p] = stream[p] /\ Kernels(p)' = Kernels(p)
<1>1. host \in Busy
  BY Named, Proceeding DEF Launch
<1>2. PICK q \in Queues : q = host.queue
  BY <1>1 DEF Busy
<1>3. active' \in Devices
  BY <1>2, ParamsStep DEF Launch
<1>4. Kernel("compute", q) \in KernelRecords
  BY <1>3, DeviceAssumption DEF Kernel, KernelRecords, Typed, Current
<1>5. PICK k \in KernelRecords : k = Kernel("compute", q)
  BY <1>4
<1>6. stream' = [stream EXCEPT ![q] = Append(@, k)]
  BY <1>2, <1>5 DEF Launch
<1>7. /\ Kernels(q)' = Kernels(q) \cup {k}
      /\ \A p \in Queues \ {q} : stream'[p] = stream[p] /\ Kernels(p)' = Kernels(p)
  BY <1>6, Enqueued
<1> QED
  BY <1>1, <1>2, <1>5, <1>6, <1>7, Zenon

LEMMA ClearEnqueues ==
  ASSUME Typed, ClearInfo
  PROVE  \E q \in Queues, k \in KernelRecords :
           /\ host \in Busy /\ q = host.queue /\ k = Kernel("clear", q)
           /\ stream' = [stream EXCEPT ![q] = Append(@, k)]
           /\ Kernels(q)' = Kernels(q) \cup {k}
           /\ \A p \in Queues \ {q} : stream'[p] = stream[p] /\ Kernels(p)' = Kernels(p)
<1>1. host \in Busy
  BY Named, Proceeding DEF ClearInfo
<1>2. PICK q \in Queues : q = host.queue
  BY <1>1 DEF Busy
<1>3. active' \in Devices
  BY <1>2, DeviceAssumption DEF ClearInfo, Chosen, Typed
<1>4. Kernel("clear", q) \in KernelRecords
  BY <1>3, DeviceAssumption DEF Kernel, KernelRecords, Typed, Current
<1>5. PICK k \in KernelRecords : k = Kernel("clear", q)
  BY <1>4
<1>6. stream' = [stream EXCEPT ![q] = Append(@, k)]
  BY <1>2, <1>5 DEF ClearInfo
<1>7. /\ Kernels(q)' = Kernels(q) \cup {k}
      /\ \A p \in Queues \ {q} : stream'[p] = stream[p] /\ Kernels(p)' = Kernels(p)
  BY <1>6, Enqueued
<1> QED
  BY <1>1, <1>2, <1>5, <1>6, <1>7, Zenon

-----------------------------------------------------------------------------
(* Handles.                                                                 *)

LEMMA HandlesNext ==
  ASSUME Typed, HandlesRight, HostRight, [Next]_vars
  PROVE  HandlesRight'
<1>0. backend' = backend /\ Cuda' = Cuda
  BY Kept DEF Cuda
<1>1. ASSUME NEW q \in Queues, Construct(q) PROVE HandlesRight'
  BY <1>0, <1>1 DEF Construct, HandlesRight, Typed
<1>2. ASSUME NEW q \in Queues, Destroy(q) PROVE HandlesRight'
  <2> SUFFICES ASSUME NEW p \in Queues
               PROVE  /\ solver'[p] # NoDevice => Cuda /\ solver'[p] = DeviceOf[p] /\ open'[p]
                      /\ params'[p] \/ stream'[p] # <<>> => open'[p]
    BY <1>0 DEF HandlesRight
  <2>1. CASE p = q
    BY <1>2, <2>1 DEF Destroy, Typed
  <2>2. CASE p # q
    BY <1>2, <2>2 DEF Destroy, HandlesRight, Typed
  <2> QED
    BY <2>1, <2>2
<1>3. CASE GetHandle
  <2>1. host \in Busy /\ host.queue \in Queues /\ open[host.queue]
    BY <1>3, Named, Proceeding DEF GetHandle, Busy, HostRight
  <2> SUFFICES ASSUME NEW p \in Queues
               PROVE  solver'[p] # NoDevice => Cuda /\ solver'[p] = DeviceOf[p] /\ open[p]
    BY <1>0, <1>3 DEF HandlesRight, GetHandle
  <2>2. CASE p = host.queue /\ Cuda /\ solver[p] = NoDevice
    BY <1>3, <2>1, <2>2 DEF GetHandle, Typed
  <2>3. CASE ~(p = host.queue /\ Cuda /\ solver[p] = NoDevice)
    <3>1. solver'[p] = solver[p]
      BY <1>3, <2>1, <2>3 DEF GetHandle, Typed
    <3> QED
      BY <3>1 DEF HandlesRight
  <2> QED
    BY <2>2, <2>3
<1>4. CASE QuerySize
  <2>1. host.queue \in Queues /\ open[host.queue]
    BY <1>4, Named, Proceeding DEF QuerySize, Busy, HostRight
  <2>2. \A p \in Queues : params'[p] => params[p] \/ p = host.queue
    BY <1>4, <2>1, ParamsStep DEF QuerySize
  <2> QED
    BY <1>0, <1>4, <2>1, <2>2 DEF QuerySize, HandlesRight
<1>5. CASE Launch
  <2>1. host.queue \in Queues /\ open[host.queue]
    BY <1>5, Named, Proceeding DEF Launch, Busy, HostRight
  <2>2. \A p \in Queues : params'[p] => params[p] \/ p = host.queue
    BY <1>5, <2>1, ParamsStep DEF Launch
  <2>3. \A p \in Queues : stream'[p] = stream[p] \/ p = host.queue
    BY <1>5, <2>1 DEF Launch, Typed
  <2> QED
    BY <1>0, <1>5, <2>1, <2>2, <2>3 DEF Launch, HandlesRight
<1>6. CASE ClearInfo
  <2>1. host.queue \in Queues /\ open[host.queue]
    BY <1>6, Named, Proceeding DEF ClearInfo, Busy, HostRight
  <2>2. \A p \in Queues : stream'[p] = stream[p] \/ p = host.queue
    BY <1>6, <2>1 DEF ClearInfo, Typed
  <2> QED
    BY <1>0, <1>6, <2>1, <2>2 DEF ClearInfo, HandlesRight, queueVars
<1>7. ASSUME NEW q \in Queues, Run(q) PROVE HandlesRight'
  <2>1. \A p \in Queues : stream'[p] = stream[p] \/ stream[p] # <<>>
    BY <1>7 DEF Run, Typed
  <2> QED
    BY <1>0, <1>7, <2>1 DEF Run, HandlesRight, queueVars
<1>8. CASE UNCHANGED <<solver, params, open, stream>>
  BY <1>0, <1>8 DEF HandlesRight
<1>9. ASSUME NEW q, NEW routine, NEW need,
             \/ AskSize(q, routine, need)
             \/ \E legal, info : Call(q, routine, need, legal, info)
             \/ Unavailable \/ SetDevice \/ EnsureWork \/ UNCHANGED vars
      PROVE  UNCHANGED <<solver, params, open, stream>>
  BY <1>9 DEF AskSize, Call, Unavailable, SetDevice, EnsureWork, queueVars, vars
<1> QED
  BY Steps, <1>1, <1>2, <1>3, <1>4, <1>5, <1>6, <1>7, <1>8, <1>9

-----------------------------------------------------------------------------
(* The call in progress.                                                    *)

LEMMA HostNext ==
  ASSUME Typed, HandlesRight, HostRight, [Next]_vars
  PROVE  HostRight'
<1>0. backend' = backend
  BY Kept
<1>a. CASE host' = Idle
  BY <1>a DEF HostRight
<1>1. ASSUME NEW q \in Queues, NEW routine, NEW need, AskSize(q, routine, need)
      PROVE  HostRight'
  BY <1>0, <1>a, <1>1 DEF AskSize, HostRight, queueVars
<1>2. ASSUME NEW q \in Queues, NEW routine, NEW need, NEW legal, NEW info,
             Call(q, routine, need, legal, info)
      PROVE  HostRight'
  BY <1>0, <1>2 DEF Call, HostRight, queueVars
<1>3. CASE GetHandle
  <2>1. host \in Busy /\ host.queue \in Queues /\ host # Idle
    BY <1>3, Named, Proceeding DEF GetHandle, Busy
  <2>2. /\ host'.queue = host.queue /\ host'.step = "device" /\ host'.task = host.task
        /\ host'.legal = host.legal /\ backend # "stub"
    BY <1>3, <2>1 DEF GetHandle, Busy
  <2>3. Cuda => solver'[host.queue] = DeviceOf[host.queue]
    BY <1>3, <2>1 DEF GetHandle, Typed, HandlesRight
  <2> QED
    BY <1>0, <1>3, <2>1, <2>2, <2>3 DEF GetHandle, HostRight, Cuda
<1>4. CASE SetDevice
  <2>1. host \in Busy /\ host.queue \in Queues /\ host # Idle
    BY <1>4, Named, Proceeding DEF SetDevice, Busy
  <2>2. /\ host'.queue = host.queue /\ host'.task = host.task /\ host'.legal = host.legal
        /\ host'.step \in {"query", "launch"}
        /\ host.task = "size" => host'.step = "query"
    BY <1>4, <2>1 DEF SetDevice, Busy
  <2>3. backend # "stub" /\ (Cuda => solver[host.queue] = DeviceOf[host.queue])
    BY <1>4, <2>1 DEF SetDevice, HostRight
  <2>4. backend # "onemkl" => active' = DeviceOf[host.queue]
    BY <1>4, <2>3 DEF SetDevice, Chosen
  <2> QED
    BY <1>0, <1>4, <2>1, <2>2, <2>3, <2>4 DEF SetDevice, HostRight, Cuda, queueVars
<1>5. CASE QuerySize
  <2>1. host \in Busy /\ host.queue \in Queues /\ host # Idle
    BY <1>5, Named, Proceeding DEF QuerySize, Busy
  <2> SUFFICES ASSUME host' # Idle PROVE HostRight'
    BY <1>a
  <2>2. /\ host'.queue = host.queue /\ host'.task = host.task /\ host'.legal = host.legal
        /\ host.task = "compute" /\ host'.step = "workspace"
    BY <1>5, <2>1 DEF QuerySize, End, Busy
  <2>3. backend # "onemkl" => active' = DeviceOf[host.queue]
    BY <1>5, <2>1, ParamsStep DEF QuerySize, HostRight
  <2> QED
    BY <1>0, <1>5, <2>1, <2>2, <2>3 DEF QuerySize, HostRight, Cuda
<1>6. CASE EnsureWork
  <2>1. host \in Busy /\ host.queue \in Queues /\ host # Idle
    BY <1>6, Named, Proceeding DEF EnsureWork, Busy
  <2> SUFFICES ASSUME host' # Idle PROVE HostRight'
    BY <1>a
  <2>2. /\ host'.queue = host.queue /\ host'.task = host.task /\ host'.legal = host.legal
        /\ host'.step = "launch"
    BY <1>6, <2>1 DEF EnsureWork, End, Busy
  <2> QED
    BY <1>0, <1>6, <2>1, <2>2 DEF EnsureWork, HostRight, Cuda
<1>7. CASE Launch
  <2>1. host \in Busy /\ host.queue \in Queues /\ host # Idle
    BY <1>7, Named, Proceeding DEF Launch, Busy
  <2> SUFFICES ASSUME host' # Idle PROVE HostRight'
    BY <1>a
  <2>2. /\ host'.queue = host.queue /\ host'.task = host.task /\ host'.legal = host.legal
        /\ host'.routine = host.routine /\ host'.step = "clear"
    BY <1>7, <2>1 DEF Launch, End, Busy
  <2>3. backend # "onemkl" => active' = DeviceOf[host.queue]
    BY <1>7, <2>1, ParamsStep DEF Launch, HostRight
  <2>4. Clears(host.routine) /\ (host.legal \/ ~Guarded(host.routine))
    BY <1>7 DEF Launch, End
  <2>5. host.task # "size"
    BY <1>7, <2>1 DEF Launch, HostRight
  <2> QED
    BY <1>0, <1>7, <2>1, <2>2, <2>3, <2>4, <2>5
       DEF Launch, HostRight, Cuda, Clears, Guarded
<1>8. ASSUME NEW q \in Queues, Run(q) PROVE HostRight'
  <2>1. \A p \in Queues : stream[p] = <<>> => stream'[p] = stream[p]
    BY <1>8 DEF Run, Typed
  <2>2. host # Idle => host.queue \in Queues
    BY Proceeding DEF Busy
  <2> QED
    BY <1>0, <1>8, <2>1, <2>2 DEF Run, HostRight, queueVars, Cuda, Clears, Guarded
<1>9. CASE UNCHANGED vars
  BY <1>9 DEF HostRight, queueVars, vars, Cuda, Clears, Guarded
<1> QED
  BY Steps, <1>a, <1>1, <1>2, <1>3, <1>4, <1>5, <1>6, <1>7, <1>8, <1>9
     DEF Construct, Destroy, Unavailable, ClearInfo, End

-----------------------------------------------------------------------------
(* Kernels and calls.                                                       *)

\* Where kernels come from.
LEMMA NewKernels ==
  ASSUME Typed, [Next]_vars, NEW q \in Queues, NEW k \in Kernels(q)'
  PROVE  \/ k \in Kernels(q)
         \/ /\ Launch /\ host.legal
            /\ host \in Busy /\ q = host.queue /\ k = Kernel("compute", q)
         \/ /\ ClearInfo
            /\ host \in Busy /\ q = host.queue /\ k = Kernel("clear", q)
<1>1. CASE stream' = stream
  BY <1>1, Zenon DEF Kernels
<1>2. CASE Launch /\ host.legal
  BY <1>2, LaunchEnqueues
<1>3. CASE ClearInfo
  BY <1>3, ClearEnqueues
<1>4. ASSUME NEW p \in Queues, Run(p) PROVE k \in Kernels(q)
  BY <1>4, Dequeued DEF Run
<1> QED
  BY StreamsKept, <1>1, <1>2, <1>3, <1>4

\* Only kernels that run go away.
LEMMA OldKernels ==
  ASSUME Typed, [Next]_vars, NEW q \in Queues, NEW k \in Kernels(q)
  PROVE  k \in Kernels(q)' \/ (Run(q) /\ k = Head(stream[q]))
<1>1. CASE stream' = stream
  BY <1>1, Zenon DEF Kernels
<1>2. CASE Launch /\ host.legal
  BY <1>2, LaunchEnqueues
<1>3. CASE ClearInfo
  BY <1>3, ClearEnqueues
<1>4. ASSUME NEW p \in Queues, Run(p) PROVE k \in Kernels(q)' \/ (p = q /\ k = Head(stream[q]))
  BY <1>4, Dequeued DEF Run
<1> QED
  BY StreamsKept, <1>1, <1>2, <1>3, <1>4

LEMMA KernelsNext ==
  ASSUME Typed, HostRight, CallRight, KernelsRight, [Next]_vars
  PROVE  KernelsRight'
<1> SUFFICES ASSUME NEW q \in Queues, NEW k \in Kernels(q)'
             PROVE  /\ k.call \in Made' /\ calls'[k.call].queue = q
                    /\ k.task = "clear" => Clears(calls'[k.call].routine)
  BY Kept DEF KernelsRight, Clears
<1>1. CASE k \in Kernels(q)
  BY <1>1, Kept DEF KernelsRight
<1>2. CASE Launch /\ host.legal /\ host \in Busy /\ q = host.queue /\ k = Kernel("compute", q)
  <2>1. host # Idle /\ host.task = "compute"
    BY <1>2, Named DEF Launch, HostRight, Busy
  <2> QED
    BY <1>2, <2>1, Kept DEF CallRight, Kernel
<1>3. CASE ClearInfo /\ host \in Busy /\ q = host.queue /\ k = Kernel("clear", q)
  <2>1. host # Idle /\ host.task = "compute" /\ Clears(host.routine)
    BY <1>3, Named DEF ClearInfo, HostRight, Busy
  <2> QED
    BY <1>3, <2>1, Kept DEF CallRight, Kernel
<1> QED
  BY NewKernels, <1>1, <1>2, <1>3

LEMMA OnItsDeviceNext ==
  ASSUME Typed, HandlesRight, HostRight, OnItsDevice, [Next]_vars
  PROVE  OnItsDevice'
<1> SUFFICES ASSUME NEW q \in Queues, NEW k \in Kernels(q)'
             PROVE  k.device = DeviceOf[q] /\ k.handle = DeviceOf[q]
  BY DEF OnItsDevice
<1>1. CASE k \in Kernels(q)
  BY <1>1 DEF OnItsDevice
<1>2. CASE Launch /\ host.legal /\ host \in Busy /\ q = host.queue /\ k = Kernel("compute", q)
  <2>1. /\ backend # "onemkl" => active = DeviceOf[q]
        /\ Cuda => solver[q] = DeviceOf[q]
    BY <1>2, Named DEF Launch, HostRight
  <2>2. active' \in {active, DeviceOf[q]}
    BY <1>2, ParamsStep DEF Launch
  <2> QED
    BY <1>2, <2>1, <2>2 DEF Kernel
<1>3. CASE ClearInfo /\ host \in Busy /\ q = host.queue /\ k = Kernel("clear", q)
  <2>1. backend # "stub" /\ (Cuda => solver[q] = DeviceOf[q])
    BY <1>3, Named DEF ClearInfo, HostRight
  <2>2. backend # "onemkl" => active' = DeviceOf[q]
    BY <1>3, <2>1 DEF ClearInfo, Chosen
  <2> QED
    BY <1>3, <2>1, <2>2 DEF Kernel
<1> QED
  BY NewKernels, <1>1, <1>2, <1>3

\* What a step may do to workspaces: those of a queue with work stay.
LEMMA WorkspacesKept ==
  ASSUME Typed, HostRight, [Next]_vars, NEW q \in Queues
  PROVE  \/ work'[q] = work[q] /\ lent'[q] = lent[q]
         \/ stream[q] = <<>>
<1>1. ASSUME NEW p \in Queues, Destroy(p)
      PROVE  (work'[q] = work[q] /\ lent'[q] = lent[q]) \/ stream[q] = <<>>
  BY <1>1 DEF Destroy, Typed
<1>2. ASSUME NEW p \in Queues, NEW routine, NEW need, AskSize(p, routine, need)
      PROVE  (work'[q] = work[q] /\ lent'[q] = lent[q]) \/ stream[q] = <<>>
  BY <1>2 DEF AskSize, Typed, queueVars
<1>3. CASE QuerySize
  <2>1. host \in Busy /\ host # Idle /\ host.queue \in Queues
    BY <1>3, Named, Proceeding DEF QuerySize, Busy
  <2>2. CASE host.task = "size"
    BY <1>3, <2>1, <2>2 DEF QuerySize, HostRight, Typed
  <2>3. CASE host.task # "size"
    BY <1>3, <2>3 DEF QuerySize, End
  <2> QED
    BY <2>2, <2>3
<1>4. CASE EnsureWork
  <2>1. host \in Busy /\ host.queue \in Queues
    BY <1>4, Named, Proceeding DEF EnsureWork, Busy
  <2>2. work' = work \/ \E w : stream[host.queue] = <<>> /\ work' = [work EXCEPT ![host.queue] = w]
    BY <1>4 DEF EnsureWork
  <2> QED
    BY <1>4, <2>1, <2>2 DEF EnsureWork, Typed
<1>5. ASSUME NEW p \in Queues,
             \/ Construct(p) \/ Unavailable \/ GetHandle \/ SetDevice \/ Launch \/ ClearInfo
             \/ \E routine, need, legal, info : Call(p, routine, need, legal, info)
             \/ Run(p) \/ UNCHANGED vars
      PROVE  UNCHANGED <<work, lent>>
  BY <1>5 DEF Construct, Unavailable, GetHandle, SetDevice, Launch, ClearInfo, Call, Run,
     vars, queueVars
<1> QED
  BY Steps, <1>1, <1>2, <1>3, <1>4, <1>5

\* The steps of a call go forward, for the same call.
LEMMA CallGoesOn ==
  ASSUME Typed, [Next]_vars, host # Idle, host' # Idle
  PROVE  /\ host \in Busy /\ host' \in Busy
         /\ host'.queue = host.queue /\ host'.routine = host.routine
         /\ host'.task = host.task /\ host'.need = host.need /\ host'.legal = host.legal
         /\ calls' = calls /\ ended' = ended
<1>1. host \in Busy
  BY Proceeding
<1>2. CASE GetHandle
  BY <1>1, <1>2 DEF GetHandle, Busy
<1>3. CASE SetDevice
  BY <1>1, <1>3 DEF SetDevice, Busy
<1>4. CASE QuerySize
  BY <1>1, <1>4 DEF QuerySize, Busy, End
<1>5. CASE EnsureWork
  BY <1>1, <1>5 DEF EnsureWork, Busy, End
<1>6. CASE Launch
  BY <1>1, <1>6 DEF Launch, Busy, End
<1>7. ASSUME NEW q, Run(q) \/ UNCHANGED vars
      PROVE  host' = host /\ calls' = calls /\ ended' = ended /\ backend' = backend
  BY <1>7 DEF Run, vars
<1>8. ASSUME NEW q, NEW routine, NEW need, NEW legal, NEW info,
             \/ Construct(q) \/ Destroy(q) \/ AskSize(q, routine, need)
             \/ Call(q, routine, need, legal, info)
             \/ Unavailable \/ ClearInfo
      PROVE  host = Idle \/ host' = Idle
  BY <1>8 DEF Construct, Destroy, AskSize, Call, Unavailable, ClearInfo, End
<1> QED
  BY Steps, <1>1, <1>2, <1>3, <1>4, <1>5, <1>6, <1>7, <1>8 DEF Busy

LEMMA CallNext ==
  ASSUME Typed, HostRight, CallRight, KernelsRight, [Next]_vars
  PROVE  CallRight'
<1> SUFFICES ASSUME host' # Idle, host'.task = "compute"
             PROVE  LET q == host'.queue
                        c == calls'[Current']
                    IN  /\ Current' \in Made'
                        /\ c.queue = q /\ c.routine = host'.routine
                        /\ c.need = host'.need /\ c.legal = host'.legal
                        /\ ~Internal(c.routine) =>
                             IF OwnWork(c.routine)
                             THEN host'.step \in {"launch", "clear"} =>
                                    c.need <= work'[q].length
                             ELSE c.need <= lent'[q]
                        /\ \A p \in Queues : p = q =>
                             \A k \in Kernels(p)' : Last(k)' => k.call # Current'
  <2> SUFFICES ASSUME host' # Idle, host'.task = "compute" PROVE CallRight'
    BY DEF CallRight
  <2>1. host' \in Busy'
    BY TypedNext, Proceeding DEF Typed
  <2>2. host'.queue \in Queues
    BY <2>1 DEF Busy
  <2> QED
    BY <2>2, Kept DEF CallRight, Internal, OwnWork, Kernels
<1>1. CASE host = Idle
  <2>0. PICK q \in Queues : \E routine, need, legal, info :
          Call(q, routine, need, legal, info)
    <3>1. ASSUME NEW q, NEW routine, NEW need,
                 \/ Construct(q) \/ Destroy(q) \/ AskSize(q, routine, need) \/ Run(q)
                 \/ UNCHANGED vars
          PROVE  host' = Idle \/ host'.task = "size"
      BY <1>1, <3>1 DEF Construct, Destroy, AskSize, Run, vars
    <3>2. ~(\/ Unavailable \/ GetHandle \/ SetDevice \/ QuerySize \/ EnsureWork
            \/ Launch \/ ClearInfo)
      BY <1>1, Named DEF Unavailable, GetHandle, SetDevice, QuerySize, EnsureWork, Launch,
         ClearInfo
    <3> QED
      BY <3>1, <3>2, Steps
  <2>1. PICK routine, need, legal, info : Call(q, routine, need, legal, info)
    BY <2>0
  <2> DEFINE c == [queue |-> q, routine |-> routine, need |-> need, legal |-> legal,
                   info |-> info]
  <2>2. calls' = Append(calls, c)
    BY <2>1 DEF Call
  <2>3. Len(calls') = Len(calls) + 1 /\ Len(calls) \in Nat /\ calls'[Len(calls')] = c
    <3>1. calls \in Seq(CallRecords \cup {c})
      BY DEF Typed
    <3> HIDE DEF c
    <3> QED
      BY <2>2, <3>1, AppendElements
  <2>4. stream' = stream /\ lent' = lent
    BY <2>1 DEF Call
  <2>5. \A p \in Queues : \A k \in Kernels(p)' : k.call # Current'
    <3>1. \A p \in Queues : Kernels(p)' = Kernels(p)
      BY <2>4, Zenon DEF Kernels
    <3> QED
      BY <2>3, <3>1 DEF KernelsRight, Made, Current
  <2>6. host' = [step |-> "handle", task |-> "compute", queue |-> q,
                 routine |-> routine, need |-> need, legal |-> legal]
    BY <2>1 DEF Call
  <2>7. OwnWork(routine) \/ Internal(routine) \/ (lent[q] = need /\ need \in Nat)
    BY <2>1 DEF Call, Typed
  <2> QED
    BY <2>3, <2>4, <2>5, <2>6, <2>7 DEF Made, Current
<1>2. CASE host # Idle
  <2> DEFINE q == host.queue
             c == calls[Current]
  <2>1. /\ host \in Busy /\ host' \in Busy
        /\ host'.queue = q /\ host'.routine = host.routine /\ host.task = "compute"
        /\ host'.need = host.need /\ host'.legal = host.legal
        /\ calls' = calls /\ Current' = Current /\ Made' = Made
    BY <1>2, CallGoesOn DEF Current, Made
  <2>2. /\ Current \in Made
        /\ c.queue = q /\ c.routine = host.routine
        /\ c.need = host.need /\ c.legal = host.legal
    BY <1>2, <2>1 DEF CallRight
  <2>3. ASSUME ~Internal(c.routine), OwnWork(c.routine), host'.step \in {"launch", "clear"}
        PROVE  c.need <= work'[q].length
    <3>1. CASE EnsureWork
      BY <2>1, <2>2, <3>1 DEF EnsureWork, End, Busy, Typed
    <3>2. ASSUME ~EnsureWork PROVE host.step \in {"launch", "clear"} /\ work' = work
      <4>1. CASE GetHandle
        BY <2>1, <2>3, <4>1 DEF GetHandle, Busy
      <4>2. CASE SetDevice
        BY <2>1, <2>2, <2>3, <4>2 DEF SetDevice, Busy
      <4>3. CASE QuerySize
        BY <2>1, <2>3, <4>3 DEF QuerySize, End, Busy
      <4>4. CASE Launch
        BY <4>4 DEF Launch
      <4>5. ASSUME NEW p, Run(p) \/ UNCHANGED vars PROVE host' = host /\ work' = work
        BY <4>5 DEF Run, vars, queueVars
      <4>6. ASSUME NEW p, NEW routine, NEW need, NEW legal, NEW info,
                   \/ Construct(p) \/ Destroy(p) \/ AskSize(p, routine, need)
                   \/ Call(p, routine, need, legal, info)
                   \/ Unavailable \/ ClearInfo
            PROVE  host = Idle \/ host' = Idle
        BY <4>6 DEF Construct, Destroy, AskSize, Call, Unavailable, ClearInfo, End
      <4> QED
        BY <1>2, <2>3, <3>2, Steps, <4>1, <4>2, <4>3, <4>4, <4>5, <4>6
    <3> QED
      BY <1>2, <2>1, <2>2, <2>3, <3>1, <3>2 DEF CallRight
  <2>4. ASSUME ~Internal(c.routine), ~OwnWork(c.routine) PROVE c.need <= lent'[q]
    <3>1. lent' = lent
      <4>1. ASSUME NEW p, NEW routine, NEW need, NEW legal, NEW info,
                   \/ Construct(p) \/ Destroy(p) \/ AskSize(p, routine, need)
                   \/ Call(p, routine, need, legal, info) \/ Run(p)
            PROVE  host = Idle \/ lent' = lent
        BY <4>1 DEF Construct, Destroy, AskSize, Call, Run
      <4>2. ASSUME \/ Unavailable \/ GetHandle \/ SetDevice \/ QuerySize \/ EnsureWork
                   \/ Launch \/ ClearInfo \/ UNCHANGED vars
            PROVE  host = Idle \/ lent' = lent
        BY <4>2 DEF Unavailable, GetHandle, SetDevice, QuerySize, EnsureWork, Launch,
           ClearInfo, vars
      <4> QED
        BY <1>2, <4>1, <4>2, Steps
    <3> QED
      BY <1>2, <2>1, <2>2, <2>4, <3>1 DEF CallRight
  <2>5. ASSUME NEW p \in Queues, p = q, NEW k \in Kernels(p)', Last(k)'
        PROVE  k.call # Current
    <3>1. CASE k \in Kernels(p)
      BY <1>2, <2>1, <2>5, <3>1, LastKept DEF CallRight
    <3>2. CASE Launch /\ k = Kernel("compute", p)
      <4>1. Clears(c.routine)
        BY <2>2, <3>2 DEF Launch, End
      <4>2. k.task = "compute" /\ k.call = Current
        BY <3>2 DEF Kernel
      <4>3. ~Last(k)'
        BY <2>1, <4>1, <4>2, Kept DEF Last, Clears
      <4> QED
        BY <2>5, <4>3
    <3>3. ~ClearInfo
      BY DEF ClearInfo, End
    <3> QED
      BY <3>1, <3>2, <3>3, NewKernels
  <2> QED
    BY <2>1, <2>2, <2>3, <2>4, <2>5
<1> QED
  BY <1>1, <1>2

InCall == host # Idle /\ host.task = "compute"

\* What a step may do to the calls: nothing, begin one, or end the one in
\* progress.
GoesOn ==
  /\ calls' = calls /\ ended' = ended /\ (InCall' <=> InCall)
  /\ \/ UNCHANGED <<stream, dev_info>>
     \/ Launch /\ Clears(host.routine) /\ dev_info' = dev_info /\ InCall
     \/ \E q \in Queues : Run(q)

Begins ==
  \E q \in Queues, routine \in Routines[backend],
     legal \in {TRUE, backend \notin Careless}, info \in Infos[backend] : \E need :
    Call(q, routine, need, legal, info)

Throws ==
  /\ InCall /\ host' = Idle /\ UNCHANGED <<calls, stream, dev_info>>
  /\ \E e \in Errors :
       /\ ended' = [ended EXCEPT ![Current] = e]
       /\ e = "lapack::Error" => backend = "stub"

Returns ==
  /\ InCall /\ host' = Idle /\ UNCHANGED <<calls, dev_info>>
  /\ ended' = [ended EXCEPT ![Current] = "returned"]
  /\ Launch \/ ClearInfo
  /\ host.legal \/ ~Guarded(host.routine)
  /\ Clears(host.routine) <=> ClearInfo

LEMMA Outcomes ==
  ASSUME Typed, HostRight, [Next]_vars
  PROVE  GoesOn \/ Begins \/ Throws \/ Returns
<1> DEFINE Quiet == /\ calls' = calls /\ ended' = ended /\ (InCall' <=> InCall)
                    /\ UNCHANGED <<stream, dev_info>>
<1>a. host # Idle => host \in Busy /\ host.task \in {"size", "compute"}
  BY Proceeding DEF Busy
<1>1. ASSUME NEW q \in Queues, NEW routine, NEW need,
             Construct(q) \/ Destroy(q) \/ AskSize(q, routine, need) \/ UNCHANGED vars
      PROVE  Quiet
  <2>1. CASE AskSize(q, routine, need)
    BY <2>1 DEF AskSize, InCall
  <2>2. CASE Construct(q) \/ Destroy(q) \/ UNCHANGED vars
    BY <2>2 DEF Construct, Destroy, InCall, vars
  <2> QED
    BY <1>1, <2>1, <2>2
<1>2. CASE Unavailable
  <2>1. host # Idle
    BY <1>2, Named DEF Unavailable
  <2> QED
    BY <1>2, <1>a, <2>1 DEF Unavailable, InCall, End, HostRight, Throws, Errors
<1>3. ASSUME GetHandle \/ SetDevice PROVE Quiet
  <2>1. host # Idle /\ calls' = calls /\ ended' = ended /\ UNCHANGED <<stream, dev_info>>
    BY <1>3, Named DEF GetHandle, SetDevice
  <2>2. host' \in Busy /\ host'.step # "idle" /\ host'.task = host.task
    BY <1>3, <1>a, <2>1 DEF GetHandle, SetDevice, Busy
  <2>3. host' # Idle
    BY <2>2 DEF Idle
  <2> QED
    BY <2>1, <2>2, <2>3 DEF InCall
<1>4. ASSUME QuerySize PROVE Quiet \/ Throws
  <2>1. host # Idle /\ calls' = calls /\ UNCHANGED <<stream, dev_info>>
    BY <1>4, Named DEF QuerySize
  <2>2. CASE ~host.legal /\ End("blas::Error")
    <3>1. host.task = "compute"
      BY <1>a, <2>1, <2>2 DEF HostRight
    <3> QED
      BY <2>1, <2>2, <3>1 DEF InCall, End, Throws, Errors
  <2>3. CASE host.task = "compute" /\ host' = [host EXCEPT !.step = "workspace"]
              /\ ended' = ended
    <3>1. host'.step = "workspace" /\ host'.task = "compute"
      BY <1>a, <2>1, <2>3 DEF Busy
    <3>2. host' # Idle
      BY <3>1 DEF Idle
    <3> QED
      BY <2>1, <2>3, <3>1, <3>2 DEF InCall
  <2>4. CASE host.task = "size" /\ host' = Idle /\ ended' = ended
    BY <2>1, <2>4 DEF InCall
  <2> QED
    BY <1>4, <2>2, <2>3, <2>4 DEF QuerySize
<1>5. ASSUME EnsureWork PROVE Quiet \/ Throws
  <2>1. host # Idle /\ calls' = calls /\ UNCHANGED <<stream, dev_info>> /\ host.task = "compute"
    BY <1>5, <1>a, Named DEF EnsureWork, HostRight
  <2>2. CASE host' = [host EXCEPT !.step = "launch"] /\ ended' = ended
    <3>1. host'.step = "launch" /\ host'.task = "compute"
      BY <1>a, <2>1, <2>2 DEF Busy
    <3>2. host' # Idle
      BY <3>1 DEF Idle
    <3> QED
      BY <2>1, <2>2, <3>1, <3>2 DEF InCall
  <2>3. CASE End("blas::Error")
    BY <2>1, <2>3 DEF InCall, End, Throws, Errors
  <2> QED
    BY <1>5, <2>2, <2>3 DEF EnsureWork
<1>6. CASE Launch
  <2>1. InCall /\ calls' = calls /\ dev_info' = dev_info
    BY <1>6, <1>a, Named DEF Launch, HostRight, InCall
  <2>2. CASE ~host.legal /\ Guarded(host.routine) /\ End("blas::Error")
    BY <1>6, <2>1, <2>2 DEF Launch, End, Throws, Errors
  <2>3. CASE /\ Clears(host.routine) /\ host' = [host EXCEPT !.step = "clear"]
             /\ ended' = ended
    <3>1. host'.step = "clear" /\ host'.task = "compute"
      BY <1>a, <2>1, <2>3 DEF Busy, InCall
    <3>2. host' # Idle
      BY <3>1 DEF Idle
    <3> QED
      BY <1>6, <2>1, <2>3, <3>1, <3>2 DEF InCall, GoesOn
  <2>4. CASE /\ host.legal \/ ~Guarded(host.routine)
             /\ ~Clears(host.routine) /\ End("returned")
    <3>1. ~ClearInfo
      BY <1>6 DEF Launch, ClearInfo
    <3> QED
      BY <1>6, <2>1, <2>4, <3>1 DEF End, Returns
  <2> QED
    BY <1>6, <2>2, <2>3, <2>4 DEF Launch
<1>7. CASE ClearInfo
  BY <1>7, <1>a, Named DEF ClearInfo, HostRight, InCall, End, Returns, queueVars
<1>8. ASSUME NEW q \in Queues, Run(q) PROVE GoesOn
  BY <1>8 DEF Run, InCall, GoesOn
<1>9. ASSUME NEW q \in Queues, NEW routine \in Routines[backend],
             NEW legal \in {TRUE, backend \notin Careless}, NEW info \in Infos[backend],
             NEW need, Call(q, routine, need, legal, info)
      PROVE  Begins
  BY <1>9 DEF Begins
<1>10. Quiet => GoesOn
  BY DEF GoesOn
<1> HIDE DEF Quiet
<1>11. CASE Begin
  <2>1. PICK q \in Queues :
          \/ Construct(q)
          \/ Destroy(q)
          \/ \E routine \in Routines[backend] :
             \E need \in Lengths(routine) :
               \/ AskSize(q, routine, need)
               \/ \E legal \in {TRUE, backend \notin Careless}, info \in Infos[backend] :
                    Call(q, routine, need, legal, info)
    BY <1>11 DEF Begin
  <2> QED
    BY <2>1, <1>1, <1>9, <1>10
<1>12. CASE Proceed
  BY <1>12, <1>2, <1>3, <1>4, <1>5, <1>6, <1>7, <1>10 DEF Proceed
<1>13. CASE UNCHANGED vars
  <2>1. Quiet
    BY <1>13 DEF vars, Quiet, InCall
  <2> QED
    BY <2>1, <1>10
<1> QED
  BY <1>8, <1>11, <1>12, <1>13 DEF Next

LEMMA CallsNext ==
  ASSUME Typed, HostRight, CallRight, CallsRight, [Next]_vars
  PROVE  CallsRight'
<1>0. backend' = backend
  BY Kept
<1>a. ended \in Seq(Endings) /\ Len(ended) = Current
  BY DEF Typed, Current
<1> SUFFICES ASSUME NEW c \in Made'
             PROVE  /\ ended'[c] = "calling" <=> InCall' /\ c = Current'
                    /\ calls'[c].info \in Infos[backend]
                    /\ calls'[c].routine = "geqrf" => calls'[c].info = 0
                    /\ ~calls'[c].legal => backend \in Careless
                    /\ ended'[c] = "returned" =>
                         calls'[c].legal \/ ~Guarded(calls'[c].routine)
                    /\ ended'[c] = "lapack::Error" => backend = "stub"
  BY <1>0 DEF CallsRight, InCall, Guarded
<1>1. CASE calls' = calls /\ ended' = ended /\ (InCall' <=> InCall)
  BY <1>1 DEF CallsRight, Made, Current, InCall
<1>2. ASSUME NEW q \in Queues, NEW routine \in Routines[backend],
             NEW legal \in {TRUE, backend \notin Careless}, NEW info \in Infos[backend],
             NEW need, Call(q, routine, need, legal, info)
      PROVE  /\ ended'[c] = "calling" <=> InCall' /\ c = Current'
             /\ calls'[c].info \in Infos[backend]
             /\ calls'[c].routine = "geqrf" => calls'[c].info = 0
             /\ ~calls'[c].legal => backend \in Careless
             /\ ended'[c] = "returned" =>
                  calls'[c].legal \/ ~Guarded(calls'[c].routine)
             /\ ended'[c] = "lapack::Error" => backend = "stub"
  <2> DEFINE r == [queue |-> q, routine |-> routine, need |-> need, legal |-> legal,
                   info |-> info]
  <2>1. calls' = Append(calls, r) /\ ended' = Append(ended, "calling") /\ ~InCall
    BY <1>2 DEF Call, InCall
  <2>2. InCall'
    BY <1>2 DEF Call, InCall, Idle
  <2>3. r.info = info /\ r.routine = routine /\ r.legal = legal
    OBVIOUS
  <2>4. routine = "geqrf" => info = 0
    BY <1>2, NumbersAssumption DEF Call, Typed
  <2> HIDE DEF r
  <2>5. /\ Current' = Current + 1 /\ Current \in Nat
        /\ calls'[Current + 1] = r /\ \A d \in 1 .. Current : calls'[d] = calls[d]
    <3>1. calls \in Seq(CallRecords \cup {r})
      BY DEF Typed
    <3> QED
      BY <2>1, <3>1, AppendElements DEF Current
  <2>6. ended'[Current + 1] = "calling" /\ \A d \in 1 .. Current : ended'[d] = ended[d]
    BY <1>a, <2>1, AppendElements DEF Endings
  <2>7. CASE c = Current + 1
    BY <2>2, <2>3, <2>4, <2>5, <2>6, <2>7
  <2>8. CASE c # Current + 1
    <3>1. c \in Made /\ c # Current'
      BY <2>5, <2>8 DEF Made, Current
    <3> QED
      BY <2>1, <2>5, <2>6, <3>1 DEF CallsRight, Made, Current, InCall
  <2> QED
    BY <2>7, <2>8
<1>3. CASE /\ calls' = calls /\ InCall /\ host' = Idle
           /\ \/ \E e \in Errors :
                   /\ ended' = [ended EXCEPT ![Current] = e]
                   /\ e = "lapack::Error" => backend = "stub"
              \/ /\ ended' = [ended EXCEPT ![Current] = "returned"]
                 /\ host.legal \/ ~Guarded(host.routine)
  <2>1. c \in Made /\ ~InCall'
    BY <1>3 DEF Made, InCall
  <2>2. c # Current => ended'[c] = ended[c]
    BY <1>3, <1>a, <2>1 DEF Made, Current
  <2>3. \/ /\ ended'[Current] \in Errors
           /\ ended'[Current] = "lapack::Error" => backend = "stub"
        \/ ended'[Current] = "returned" /\ (host.legal \/ ~Guarded(host.routine))
    <3>1. Current \in 1 .. Len(ended)
      BY <1>a, <1>3 DEF CallRight, InCall, Made, Current
    <3> QED
      BY <1>a, <1>3, <3>1
  <2> QED
    BY <1>3, <2>1, <2>2, <2>3 DEF CallsRight, CallRight, InCall, Errors
<1> QED
  BY Outcomes, <1>1, <1>2, <1>3 DEF GoesOn, Begins, Throws, Returns

LEMMA WorkspaceNext ==
  ASSUME Typed, HostRight, CallRight, KernelsRight, WorkspaceLive, [Next]_vars
  PROVE  WorkspaceLive'
<1>0. backend' = backend
  BY Kept
<1> SUFFICES ASSUME NEW q \in Queues, NEW k \in Kernels(q)',
                    ~Internal(calls'[k.call].routine), k.task = "compute"
             PROVE  IF OwnWork(calls'[k.call].routine)
                    THEN /\ k.count = work'[q].count
                         /\ calls'[k.call].need <= work'[q].length
                    ELSE calls'[k.call].need <= lent'[q]
  BY <1>0 DEF WorkspaceLive, Internal, OwnWork
<1>1. CASE k \in Kernels(q)
  <2>1. stream[q] # <<>>
    BY <1>1, KernelsTyped
  <2>2. work'[q] = work[q] /\ lent'[q] = lent[q]
    BY <2>1, WorkspacesKept
  <2>3. calls'[k.call] = calls[k.call]
    BY <1>1, Kept DEF KernelsRight
  <2> QED
    BY <1>1, <2>2, <2>3 DEF WorkspaceLive
<1>2. CASE Launch /\ host.legal /\ host \in Busy /\ q = host.queue /\ k = Kernel("compute", q)
  <2>1. InCall /\ host.step = "launch"
    BY <1>2, Named DEF Launch, HostRight, Busy, InCall
  <2>2. work' = work /\ lent' = lent /\ calls' = calls
    BY <1>2 DEF Launch
  <2>3. k.call = Current /\ k.count = IF OwnWork(host.routine) THEN work[q].count ELSE 0
    BY <1>2 DEF Kernel
  <2> QED
    BY <1>2, <2>1, <2>2, <2>3 DEF CallRight, InCall
<1>3. CASE ClearInfo /\ k = Kernel("clear", q)
  BY <1>3 DEF Kernel
<1> QED
  BY NewKernels, <1>1, <1>2, <1>3

-----------------------------------------------------------------------------
(* Results, and their order.                                                *)

\* oneMKL's wrappers lose what their kernel finds: nothing is said of results
\* but 0 with it.
Found == "onemkl" \in Backends => Infos["onemkl"] = {0}

\* The kernel that runs writes its call's result, or nothing yet.
LEMMA RunWrites ==
  ASSUME Found, Typed, CallsRight, KernelsRight, [Next]_vars, NEW q \in Queues, Run(q)
  PROVE  LET k == Head(stream[q])
         IN  /\ k \in Kernels(q) /\ k.call \in Made
             /\ dev_info' = IF Last(k) THEN [dev_info EXCEPT ![k.call] = calls[k.call].info]
                            ELSE dev_info
<1> DEFINE k == Head(stream[q])
           c == calls[k.call]
<1>1. k \in Kernels(q) /\ k \in KernelRecords
  BY Dequeued, KernelsTyped DEF Run
<1>2. k.call \in Made /\ (k.task = "clear" => Clears(c.routine))
  BY <1>1 DEF KernelsRight
<1>3. c.info \in Infos[backend] /\ (c.routine = "geqrf" => c.info = 0)
  BY <1>2 DEF CallsRight
<1>4. Clears(c.routine) => c.info = 0
  <2>1. backend = "onemkl" => c.info = 0
    BY <1>3 DEF Found, Typed
  <2> QED
    BY <1>3, <2>1 DEF Clears
<1>5. dev_info' = [dev_info EXCEPT ![k.call] =
        IF k.task = "clear" THEN 0
        ELSE IF Clears(c.routine) THEN dev_info[k.call] ELSE c.info]
  BY DEF Run
<1>6. k.task \in {"compute", "clear"}
  BY <1>1 DEF KernelRecords
<1> DEFINE v == IF k.task = "clear" THEN 0
                ELSE IF Clears(c.routine) THEN dev_info[k.call] ELSE c.info
<1>7. dev_info' = [dev_info EXCEPT ![k.call] = v]
  BY <1>5
<1>8. v = IF Last(k) THEN c.info ELSE dev_info[k.call]
  BY <1>2, <1>4, <1>6 DEF Last
<1>9. k.call \in DOMAIN dev_info => [dev_info EXCEPT ![k.call] = dev_info[k.call]] = dev_info
  BY DEF Typed
<1>10. k.call \in DOMAIN dev_info
  BY <1>2 DEF Typed, Made
<1> HIDE DEF k, c, v
<1>11. CASE Last(k)
  BY <1>1, <1>2, <1>7, <1>8, <1>11, Zenon DEF c, k
<1>12. CASE ~Last(k)
  BY <1>1, <1>2, <1>7, <1>8, <1>9, <1>10, <1>12, Zenon DEF c, k
<1> QED
  BY <1>11, <1>12

LEMMA ResultsNext ==
  ASSUME Found, Typed, HostRight, CallRight, CallsRight, KernelsRight, ResultsComing,
         [Next]_vars
  PROVE  ResultsComing'
<1>a. /\ ended \in Seq(Endings) /\ Len(ended) = Current
      /\ dev_info \in Seq(Nat \cup {Unset}) /\ Len(dev_info) = Current
  BY DEF Typed, Current
<1> SUFFICES ASSUME NEW c \in Made', calls'[c].legal, ended'[c] = "returned"
             PROVE  \/ dev_info'[c] = calls'[c].info
                    \/ \E q \in Queues : \E k \in Kernels(q)' : k.call = c /\ Last(k)'
  BY Zenon DEF ResultsComing
<1>0. c \in Made => calls'[c] = calls[c]
  BY Kept
\* A call that had returned before a step which does not run its last kernel.
<1>1. ASSUME c \in Made, ended[c] = "returned", dev_info'[c] = dev_info[c],
             \A q \in Queues :
               Run(q) => ~(Head(stream[q]).call = c /\ Last(Head(stream[q])))
      PROVE  \/ dev_info'[c] = calls'[c].info
             \/ \E q \in Queues : \E k \in Kernels(q)' : k.call = c /\ Last(k)'
  <2>1. CASE dev_info[c] = calls[c].info
    BY <1>0, <1>1, <2>1
  <2>2. CASE dev_info[c] # calls[c].info
    <3>1. PICK q \in Queues : \E k \in Kernels(q) : k.call = c /\ Last(k)
      BY <1>0, <1>1, <2>2 DEF ResultsComing
    <3>2. PICK k \in Kernels(q) : k.call = c /\ Last(k)
      BY <3>1
    <3>3. k \in Kernels(q)'
      BY <1>1, <3>2, OldKernels
    <3> QED
      BY <3>2, <3>3, LastKept
  <2> QED
    BY <2>1, <2>2
<1>2. CASE GoesOn
  <2>1. c \in Made /\ ended[c] = "returned"
    BY <1>2 DEF GoesOn, Made
  <2>2. CASE dev_info' = dev_info /\ \A q \in Queues : ~Run(q)
    BY <1>1, <2>1, <2>2
  <2>3. ASSUME NEW q \in Queues, Run(q)
        PROVE  \/ dev_info'[c] = calls'[c].info
               \/ \E p \in Queues : \E k \in Kernels(p)' : k.call = c /\ Last(k)'
    <3> DEFINE h == Head(stream[q])
    <3>1. /\ h \in Kernels(q) /\ h.call \in Made
          /\ dev_info' = IF Last(h) THEN [dev_info EXCEPT ![h.call] = calls[h.call].info]
                         ELSE dev_info
      BY <2>3, RunWrites
    <3> HIDE DEF h
    <3>2. CASE Last(h) /\ h.call = c
      BY <1>a, <1>0, <2>1, <3>1, <3>2 DEF Made, Current
    <3>3. CASE ~(Last(h) /\ h.call = c)
      <4>1. dev_info'[c] = dev_info[c]
        BY <1>a, <2>1, <3>1, <3>3 DEF Made, Current
      <4>2. \A p \in Queues : Run(p) => p = q
        BY <2>3 DEF Run, Typed
      <4> QED
        BY <1>1, <2>1, <3>3, <4>1, <4>2 DEF h
    <3> QED
      BY <3>2, <3>3
  <2> QED
    BY <1>2, <2>2, <2>3 DEF GoesOn
<1>3. CASE Begins
  <2>1. PICK r : calls' = Append(calls, r)
    BY <1>3 DEF Begins, Call
  <2>2. ended' = Append(ended, "calling") /\ dev_info' = Append(dev_info, Unset)
    BY <1>3 DEF Begins, Call
  <2>3. Len(calls') = Current + 1 /\ Current \in Nat
    <3>1. calls \in Seq(CallRecords \cup {r})
      BY DEF Typed
    <3> QED
      BY <2>1, <3>1, AppendElements DEF Current
  <2>4. c # Current + 1
    BY <1>a, <2>2, AppendElements
  <2>5. c \in Made
    BY <2>3, <2>4 DEF Made, Current
  <2>6. ended[c] = "returned" /\ dev_info'[c] = dev_info[c]
    BY <1>a, <2>2, <2>5 DEF Made, Current
  <2>7. host = Idle /\ host' # Idle
    BY <1>3 DEF Begins, Call, Idle
  <2>8. \A q : ~Run(q)
    BY <2>7 DEF Run
  <2> QED
    BY <1>1, <2>5, <2>6, <2>8
<1>4. CASE Throws
  <2>1. c \in Made /\ dev_info' = dev_info
    BY <1>4 DEF Throws, Made
  <2>2. c # Current /\ ended[c] = "returned"
    BY <1>a, <1>4, <2>1 DEF Throws, Errors, Made, Current
  <2>3. \A q : ~Run(q)
    BY <1>4 DEF Throws, Run, InCall
  <2> QED
    BY <1>1, <2>1, <2>2, <2>3
<1>5. CASE Returns
  <2>1. c \in Made /\ dev_info' = dev_info
    BY <1>5 DEF Returns, Made
  <2>2. \A q : ~Run(q)
    BY <1>5 DEF Returns, Run, InCall
  <2>3. CASE c # Current
    <3>1. ended[c] = "returned"
      BY <1>a, <1>5, <2>1, <2>3 DEF Returns, Made, Current
    <3> QED
      BY <1>1, <2>1, <2>2, <3>1
  <2>4. CASE c = Current
    <3>1. /\ calls[c].queue = host.queue /\ calls[c].routine = host.routine
          /\ calls[c].legal = host.legal /\ calls' = calls /\ backend' = backend
      BY <1>5, <2>4, Kept DEF Returns, CallRight, InCall
    <3>2. host.legal
      BY <3>1
    <3>3. CASE Launch
      <4>1. ~Clears(host.routine)
        BY <1>5, <3>3 DEF Returns, Launch, ClearInfo
      <4>2. PICK q \in Queues, k \in KernelRecords :
              q = host.queue /\ k = Kernel("compute", q) /\ Kernels(q)' = Kernels(q) \cup {k}
        BY <3>2, <3>3, LaunchEnqueues
      <4>3. k.call = c
        BY <2>4, <4>2 DEF Kernel
      <4>4. Last(k)'
        BY <3>1, <4>1, <4>3 DEF Last, Clears
      <4> QED
        BY <3>1, <4>2, <4>3, <4>4
    <3>4. CASE ClearInfo
      <4>1. PICK q \in Queues, k \in KernelRecords :
              q = host.queue /\ k = Kernel("clear", q) /\ Kernels(q)' = Kernels(q) \cup {k}
        BY <3>4, ClearEnqueues
      <4>2. k.call = c /\ k.task = "clear"
        BY <2>4, <4>1 DEF Kernel
      <4>3. Last(k)'
        BY <4>2 DEF Last
      <4> QED
        BY <3>1, <4>1, <4>2, <4>3
    <3> QED
      BY <1>5, <3>3, <3>4 DEF Returns
  <2> QED
    BY <2>3, <2>4
<1> QED
  BY Outcomes, <1>2, <1>3, <1>4, <1>5

LEMMA OldestNext ==
  ASSUME Typed, HostRight, CallRight, KernelsRight, OldestFirst, [Next]_vars
  PROVE  OldestFirst'
<1> SUFFICES ASSUME NEW q \in Queues,
                    NEW i \in DOMAIN stream'[q], NEW j \in DOMAIN stream'[q], i < j,
                    NEW x, NEW y, x = stream'[q][i], y = stream'[q][j], Last(x)', Last(y)'
             PROVE  x.call < y.call
  BY DEF OldestFirst, Last
<1>a. stream[q] \in Seq(KernelRecords)
  BY DEF Typed
<1>b. Len(stream[q]) \in Nat /\ DOMAIN stream[q] = 1 .. Len(stream[q])
  BY <1>a
\* Two kernels that were there, in this order.
<1>1. ASSUME NEW m \in DOMAIN stream[q], NEW n \in DOMAIN stream[q], m < n,
             x = stream[q][m], y = stream[q][n]
      PROVE  x.call < y.call
  <2>1. x \in Kernels(q) /\ y \in Kernels(q)
    BY <1>1 DEF Kernels
  <2>2. Last(x) /\ Last(y)
    BY <2>1, LastKept
  <2> QED
    BY <1>1, <2>2, SMTT(20) DEF OldestFirst
<1>2. CASE stream'[q] = stream[q]
  BY <1>1, <1>2
\* The second one is new, and of the call in progress.
<1>3. ASSUME NEW k \in KernelRecords, stream'[q] = Append(stream[q], k),
             q = host.queue, k.call = Current, InCall
      PROVE  x.call < y.call
  <2>1. /\ DOMAIN stream'[q] = 1 .. Len(stream[q]) + 1
        /\ \A l \in 1 .. Len(stream[q]) : stream'[q][l] = stream[q][l]
        /\ stream'[q][Len(stream[q]) + 1] = k
    BY <1>a, <1>3, AppendElements
  <2>2. CASE j # Len(stream[q]) + 1
    <3>1. /\ i \in DOMAIN stream[q] /\ j \in DOMAIN stream[q]
          /\ x = stream[q][i] /\ y = stream[q][j]
      BY <1>b, <2>1, <2>2
    <3> QED
      BY <1>1, <3>1
  <2>3. CASE j = Len(stream[q]) + 1
    <3>1. y.call = Current
      BY <1>3, <2>1, <2>3
    <3>2. i \in DOMAIN stream[q] /\ x = stream[q][i]
      BY <1>b, <2>1, <2>3
    <3>3. x \in Kernels(q)
      BY <3>2 DEF Kernels
    <3>4. Last(x)
      BY <3>3, LastKept
    <3>5. x.call # Current
      BY <1>3, <3>3, <3>4 DEF CallRight, InCall
    <3>6. x.call \in Made
      BY <3>3 DEF KernelsRight
    <3> QED
      BY <3>1, <3>5, <3>6, Kept DEF Made, Current
  <2> QED
    BY <2>2, <2>3
<1>4. CASE Launch /\ host.legal
  <2>1. PICK p \in Queues, k \in KernelRecords :
          /\ host \in Busy /\ p = host.queue /\ k = Kernel("compute", p)
          /\ stream' = [stream EXCEPT ![p] = Append(@, k)]
    BY <1>4, LaunchEnqueues
  <2>2. InCall
    BY <1>4, <2>1, Named DEF Launch, HostRight, InCall, Busy
  <2>3. k.call = Current
    BY <2>1 DEF Kernel
  <2>4. CASE p = q
    <3>1. stream'[q] = Append(stream[q], k)
      BY <2>1, <2>4 DEF Typed
    <3> QED
      BY <1>3, <2>1, <2>2, <2>3, <2>4, <3>1
  <2>5. CASE p # q
    BY <1>2, <2>1, <2>5 DEF Typed
  <2> QED
    BY <2>4, <2>5
<1>5. CASE ClearInfo
  <2>1. PICK p \in Queues, k \in KernelRecords :
          /\ host \in Busy /\ p = host.queue /\ k = Kernel("clear", p)
          /\ stream' = [stream EXCEPT ![p] = Append(@, k)]
    BY <1>5, ClearEnqueues
  <2>2. InCall
    BY <1>5, <2>1, Named DEF ClearInfo, HostRight, InCall, Busy
  <2>3. k.call = Current
    BY <2>1 DEF Kernel
  <2>4. CASE p = q
    <3>1. stream'[q] = Append(stream[q], k)
      BY <2>1, <2>4 DEF Typed
    <3> QED
      BY <1>3, <2>1, <2>2, <2>3, <2>4, <3>1
  <2>5. CASE p # q
    BY <1>2, <2>1, <2>5 DEF Typed
  <2> QED
    BY <2>4, <2>5
<1>6. ASSUME NEW p \in Queues, Run(p) PROVE x.call < y.call
  <2>1. CASE p = q
    <3>1. stream'[q] = Tail(stream[q]) /\ stream[q] # <<>>
      BY <1>6, <2>1 DEF Run, Typed
    <3>2. /\ i + 1 \in DOMAIN stream[q] /\ j + 1 \in DOMAIN stream[q] /\ i + 1 < j + 1
          /\ x = stream[q][i + 1] /\ y = stream[q][j + 1]
      BY <1>a, <3>1, TailElements
    <3> QED
      BY <1>1, <3>2
  <2>2. CASE p # q
    BY <1>2, <1>6, <2>2 DEF Run, Typed
  <2> QED
    BY <2>1, <2>2
<1> QED
  BY StreamsKept, <1>2, <1>4, <1>5, <1>6

\* Of the last kernels in a stream the oldest has the smallest call, and alone.
LEMMA OldestIsFirst ==
  ASSUME Typed, OldestFirst, NEW q \in Queues, stream[q] # <<>>,
         Last(Head(stream[q])), NEW k \in Kernels(q), Last(k)
  PROVE  k = Head(stream[q]) \/ Head(stream[q]).call < k.call
<1>1. stream[q] \in Seq(KernelRecords)
  BY DEF Typed
<1>2. PICK i \in DOMAIN stream[q] : k = stream[q][i]
  BY DEF Kernels
<1>3. Head(stream[q]) = stream[q][1] /\ 1 \in DOMAIN stream[q] /\ (i = 1 \/ 1 < i)
  BY <1>1, TailElements
<1> QED
  BY <1>2, <1>3 DEF OldestFirst

-----------------------------------------------------------------------------
(* The theorems.                                                            *)

Inv ==
  /\ Typed /\ HandlesRight /\ HostRight /\ CallRight /\ CallsRight /\ KernelsRight
  /\ OnItsDevice /\ WorkspaceLive /\ OldestFirst

LEMMA InvInit == Init => Inv
<1> SUFFICES ASSUME Init PROVE Inv
  OBVIOUS
<1>1. \A q \in Queues : stream[q] = <<>> /\ Kernels(q) = {}
  BY TypedInit, KernelsTyped DEF Init
<1>2. Made = {}
  BY DEF Init, Made
<1>3. \A q \in Queues : DOMAIN stream[q] = {}
  <2>1. DOMAIN <<>> = {}
    OBVIOUS
  <2> QED
    BY <1>1, <2>1
<1> QED
  BY <1>1, <1>2, <1>3, TypedInit
     DEF Inv, Init, HandlesRight, HostRight, CallRight, CallsRight, KernelsRight,
         OnItsDevice, WorkspaceLive, OldestFirst

LEMMA InvNext == Inv /\ [Next]_vars => Inv'
  BY TypedNext, HandlesNext, HostNext, CallNext, CallsNext, KernelsNext, OnItsDeviceNext,
     WorkspaceNext, OldestNext DEF Inv

\* The wrappers keep their state whatever is called when: at every moment all
\* that was said above of handles, of the call in progress and of the kernels
\* in the streams is so.
THEOREM Invariance == Spec => []Inv
  BY InvInit, InvNext, PTL DEF Spec

LEMMA InvTypes == Inv => TypeOK
<1> SUFFICES ASSUME Inv PROVE TypeOK
  OBVIOUS
<1>1. Typed /\ KernelsRight
  BY DEF Inv
<1>2. host.step \in {"idle", "handle", "device", "query", "workspace", "launch", "clear"}
  BY <1>1 DEF Typed, Busy, Idle
<1>3. host # Idle => host.queue \in Queues /\ host.routine \in Routines[backend]
  BY <1>1, Proceeding DEF Busy
<1>4. \A q \in Queues : \A k \in Kernels(q) :
        k.call \in Made /\ k.task \in {"compute", "clear"} /\ k.device \in Devices
  BY <1>1, KernelsTyped DEF KernelsRight, KernelRecords
<1>5. ended \in [Made -> Endings]
  BY <1>1 DEF Typed, Made
<1>6. dev_info \in [Made -> Nat \cup {Unset}]
  BY <1>1 DEF Typed, Made
<1> QED
  BY <1>1, <1>2, <1>3, <1>4, <1>5, <1>6 DEF TypeOK, Typed, Endings

\* The state of queues, streams and calls has its type in every program that
\* uses device queues.
THEOREM DeviceTypes == Spec => []TypeOK
  BY Invariance, InvTypes, PTL

\* Kernels run where their queue is: in every program, every kernel of a stream
\* was launched with its queue's device current, and with a handle of it.
THEOREM RunsOnItsDevice == Spec => []OnItsDevice
<1>1. Inv => OnItsDevice
  BY DEF Inv
<1> QED
  BY <1>1, Invariance, PTL

\* No workspace is taken from under a kernel: however calls on a queue follow
\* each other, each kernel in its stream has the length it needs.
THEOREM KeepsWorkspaces == Spec => []WorkspaceLive
<1>1. Inv => WorkspaceLive
  BY DEF Inv
<1> QED
  BY <1>1, Invariance, PTL

\* A queue that is not open has no handle, no parameters and no kernels.
THEOREM ReleasesHandles == Spec => []HandlesReleased
<1>1. Inv => HandlesReleased
  BY DEF Inv, HandlesRight, HandlesReleased
<1> QED
  BY <1>1, Invariance, PTL

\* Only ~Queue gives up a handle, with the device current that it is on.
THEOREM ReleasesWhereMade == Spec => ReleasedWhereMade
<1> DEFINE Released ==
      \A q \in Queues : solver[q] # NoDevice /\ solver'[q] = NoDevice => active' = solver[q]
<1>1. ASSUME Inv, [Next]_vars PROVE [Released]_vars
  <2> SUFFICES ASSUME NEW q \in Queues, solver[q] # NoDevice, solver'[q] = NoDevice
               PROVE  active' = solver[q]
    OBVIOUS
  <2>1. HandlesRight /\ Typed
    BY <1>1 DEF Inv
  <2>2. Cuda /\ solver[q] = DeviceOf[q]
    BY <2>1 DEF HandlesRight
  <2>3. ASSUME NEW p \in Queues, Destroy(p) PROVE active' = solver[q]
    <3>1. p = q
      BY <2>1, <2>3 DEF Destroy, Typed
    <3> QED
      BY <2>3, <2>2, <3>1 DEF Destroy
  <2>4. ~GetHandle
    <3> SUFFICES ASSUME GetHandle PROVE FALSE
      OBVIOUS
    <3>1. solver'[q] = solver[q] \/ solver'[q] = DeviceOf[q]
      BY <2>1 DEF GetHandle, Typed
    <3> QED
      BY <2>2, <3>1
  <2>5. ASSUME NEW p, NEW routine, NEW need, NEW legal, NEW info,
               \/ Construct(p) \/ AskSize(p, routine, need)
               \/ Call(p, routine, need, legal, info) \/ Run(p)
               \/ Unavailable \/ SetDevice \/ QuerySize \/ EnsureWork \/ Launch \/ ClearInfo
               \/ UNCHANGED vars
        PROVE  solver' = solver
    BY <2>5 DEF Construct, AskSize, Call, Run, Unavailable, SetDevice, QuerySize,
       EnsureWork, Launch, ClearInfo, vars, queueVars
  <2> QED
    BY <1>1, Steps, <2>3, <2>4, <2>5
<1> QED
  BY <1>1, Invariance, PTL DEF Spec, ReleasedWhereMade

\* Illegal arguments never go unnoticed with cuSolver or oneMKL: each call that
\* has them ends with a blas::Error.  rocSolver's wrappers do not look, and a
\* stub throws before it could.
THEOREM ThrowsOnIllegal ==
  ASSUME Careless \cap {"rocm", "stub"} = {} PROVE Spec => []IllegalThrows
<1>1. Inv => IllegalThrows
  <2> SUFFICES ASSUME Inv, NEW c \in Made, ~calls[c].legal
               PROVE  ended[c] \in {"calling", "blas::Error"}
    BY DEF IllegalThrows
  <2>1. ended[c] \in Endings
    BY DEF Inv, Typed, Made
  <2>2. ended[c] # "returned" /\ ended[c] # "lapack::Error"
    BY DEF Inv, CallsRight, Guarded
  <2> QED
    BY <2>1, <2>2 DEF Endings, Errors
<1> QED
  BY <1>1, Invariance, PTL

LEMMA ResultsInit == Init => ResultsComing
  BY DEF Init, ResultsComing, Made

\* Wherever the wrappers pass on what their kernel finds (all but oneMKL's),
\* the result of a call is in its dev_info when its last kernel has finished,
\* whatever else was enqueued before or after it.
THEOREM DeliversInfo == ASSUME Found PROVE Spec => []InfoDelivered
<1>1. Init => Inv /\ ResultsComing
  BY InvInit, ResultsInit
<1>2. Inv /\ ResultsComing /\ [Next]_vars => (Inv /\ ResultsComing)'
  BY InvNext, ResultsNext DEF Inv
<1>3. Inv /\ ResultsComing => InfoDelivered
  BY DEF Inv, ResultsComing, InfoDelivered, Finished, KernelsRight
<1> QED
  BY <1>1, <1>2, <1>3, PTL DEF Spec

-----------------------------------------------------------------------------
(* The wrappers implement InOrderQueue.                                     *)

LEMMA WaitingKept ==
  ASSUME Typed, KernelsRight, [Next]_vars, NEW q \in Queues, Kernels(q)' = Kernels(q)
  PROVE  Waiting(q)' = Waiting(q)
<1>1. \A k \in Kernels(q) : Last(k)' <=> Last(k)
  BY LastKept
<1>2. Waiting(q)' = {k.call : k \in {x \in Kernels(q)' : Last(x)'}}
  BY DEF Waiting
<1> QED
  BY <1>1, <1>2 DEF Waiting

LEMMA WaitingMore ==
  ASSUME Typed, KernelsRight, [Next]_vars, NEW q \in Queues, NEW k,
         Kernels(q)' = Kernels(q) \cup {k}
  PROVE  Waiting(q)' = IF Last(k)' THEN Waiting(q) \cup {k.call} ELSE Waiting(q)
<1>1. \A x \in Kernels(q) : Last(x)' <=> Last(x)
  BY LastKept
<1>2. Waiting(q)' = {x.call : x \in {y \in Kernels(q) \cup {k} : Last(y)'}}
  BY DEF Waiting
<1> QED
  BY <1>1, <1>2 DEF Waiting

\* The call of the kernel that runs is before all others that wait, and once.
LEMMA WaitingLess ==
  ASSUME Typed, KernelsRight, OldestFirst, [Next]_vars, NEW q \in Queues, Run(q),
         NEW h, h = Head(stream[q])
  PROVE  /\ Last(h) => /\ h.call \in Waiting(q) /\ \A c \in Waiting(q) : h.call <= c
                       /\ Waiting(q)' = Waiting(q) \ {h.call}
         /\ ~Last(h) => Waiting(q)' = Waiting(q)
<1> DEFINE s == stream[q]
<1>1. s \in Seq(KernelRecords) /\ s # <<>> /\ stream'[q] = Tail(s)
  BY DEF Run, Typed
<1>2. h \in Kernels(q) /\ Kernels(q) = Kernels(q)' \cup {h}
  BY Dequeued DEF Run
<1>3. \A k \in Kernels(q) : (Last(k)' <=> Last(k)) /\ k.call \in Nat
  BY LastKept, KernelsTyped DEF KernelRecords
<1>4. Waiting(q)' = {k.call : k \in {x \in Kernels(q)' : Last(x)'}}
  BY DEF Waiting
<1>5. CASE Last(h)
  <2>1. \A k \in Kernels(q)' : Last(k) => h.call < k.call
    <3> SUFFICES ASSUME NEW k \in Kernels(q)', Last(k) PROVE h.call < k.call
      OBVIOUS
    <3>1. PICK i \in DOMAIN stream'[q] : k = stream'[q][i]
      BY DEF Kernels
    <3>2. /\ i + 1 \in DOMAIN s /\ 1 \in DOMAIN s /\ 1 < i + 1
          /\ k = s[i + 1] /\ h = s[1]
      BY <1>1, <3>1, TailElements
    <3> QED
      BY <1>5, <3>2 DEF OldestFirst
  <2>2. \A k \in Kernels(q) : Last(k) => k = h \/ h.call < k.call
    BY <1>2, <2>1
  <2>3. h.call \in Waiting(q) /\ \A c \in Waiting(q) : h.call <= c
    BY <1>2, <1>3, <1>5, <2>2 DEF Waiting
  <2>4. \A c : c \in Waiting(q)' => c \in Waiting(q) /\ c # h.call
    BY <1>2, <1>3, <1>4, <2>1 DEF Waiting
  <2>5. \A c : c \in Waiting(q) /\ c # h.call => c \in Waiting(q)'
    BY <1>2, <1>3, <1>4 DEF Waiting
  <2> QED
    BY <1>5, <2>3, <2>4, <2>5
<1>6. CASE ~Last(h)
  BY <1>2, <1>3, <1>4, <1>6 DEF Waiting
<1> QED
  BY <1>5, <1>6

LEMMA OrderInit == Init => InOrder!Init
<1> SUFFICES ASSUME Init PROVE InOrder!Init
  OBVIOUS
<1>1. \A q \in Queues : Kernels(q) = {}
  BY TypedInit, KernelsTyped DEF Init
<1>2. \A q \in Queues : Waiting(q) = {}
  BY <1>1 DEF Waiting
<1> QED
  BY <1>2 DEF Init, InOrder!Init

\* A step of the wrappers or of a device is one step of the abstract queue: a
\* call made, thrown, accepted or finished; or none.
LEMMA OrderNext ==
  ASSUME Found, "rocm" \notin Careless, Inv, [Next]_vars
  PROVE  [InOrder!Next]_(InOrder!vars)
<1> DEFINE w == [q \in Queues |-> Waiting(q)]
<1>0. /\ Typed /\ HostRight /\ CallRight /\ CallsRight /\ KernelsRight /\ OldestFirst
      /\ backend' = backend
  BY Kept DEF Inv
<1>a. (\A q \in Queues : Kernels(q)' = Kernels(q)) => w' = w
  BY <1>0, WaitingKept
<1>b. stream' = stream => \A q \in Queues : Kernels(q)' = Kernels(q)
  BY Zenon DEF Kernels
<1>c. ASSUME w' = w, calls' = calls, ended' = ended, dev_info' = dev_info
      PROVE  UNCHANGED InOrder!vars
  BY <1>c DEF InOrder!vars
<1>d. InCall => /\ Current \in 1 .. Len(calls) /\ ended[Current] = "calling"
                /\ calls[Current].queue = host.queue
  BY <1>0 DEF CallRight, CallsRight, InCall, Made
<1>1. CASE GoesOn
  <2>1. CASE UNCHANGED <<stream, dev_info>>
    BY <1>1, <1>a, <1>b, <1>c, <2>1 DEF GoesOn
  <2>2. CASE Launch /\ Clears(host.routine) /\ dev_info' = dev_info /\ InCall
    <3>1. CASE ~host.legal
      BY <1>1, <1>a, <1>b, <1>c, <2>2, <3>1 DEF GoesOn, Launch
    <3>2. CASE host.legal
      <4>1. PICK q \in Queues, k \in KernelRecords :
              /\ k = Kernel("compute", q) /\ Kernels(q)' = Kernels(q) \cup {k}
              /\ \A p \in Queues \ {q} : Kernels(p)' = Kernels(p)
        BY <1>0, <2>2, <3>2, LaunchEnqueues
      <4>2. k.call = Current /\ k.task = "compute"
        BY <4>1 DEF Kernel
      <4>3. ~Last(k)'
        BY <1>0, <1>1, <2>2, <4>2 DEF GoesOn, Last, Clears, CallRight, InCall
      <4>4. \A p \in Queues : Waiting(p)' = Waiting(p)
        BY <1>0, <4>1, <4>3, WaitingMore, WaitingKept
      <4> QED
        BY <1>1, <1>c, <2>2, <4>4 DEF GoesOn
    <3> QED
      BY <3>1, <3>2
  <2>3. ASSUME NEW q \in Queues, Run(q) PROVE [InOrder!Next]_(InOrder!vars)
    <3>1. PICK h : h = Head(stream[q])
      OBVIOUS
    <3>2. \A p \in Queues \ {q} : Waiting(p)' = Waiting(p)
      BY <1>0, <2>3, Dequeued, WaitingKept DEF Run
    <3>3. dev_info' = IF Last(h) THEN [dev_info EXCEPT ![h.call] = calls[h.call].info]
                      ELSE dev_info
      BY <1>0, <2>3, <3>1, RunWrites
    <3>4. CASE ~Last(h)
      <4>1. Waiting(q)' = Waiting(q)
        BY <1>0, <2>3, <3>1, <3>4, WaitingLess
      <4>2. w' = w
        BY <3>2, <4>1
      <4> QED
        BY <1>1, <1>c, <3>3, <3>4, <4>2 DEF GoesOn
    <3>5. CASE Last(h)
      <4>1. /\ h.call \in Waiting(q) /\ \A c \in Waiting(q) : h.call <= c
            /\ Waiting(q)' = Waiting(q) \ {h.call}
        BY <1>0, <2>3, <3>1, <3>5, WaitingLess
      <4>2. w' = [w EXCEPT ![q] = @ \ {h.call}]
        BY <3>2, <4>1
      <4>3. InOrder!Finish
        BY <1>1, <3>3, <3>5, <4>1, <4>2 DEF GoesOn, InOrder!Finish
      <4> QED
        BY <4>3 DEF InOrder!Next
    <3> QED
      BY <3>4, <3>5
  <2> QED
    BY <1>1, <2>1, <2>2, <2>3 DEF GoesOn
<1>2. CASE Begins
  <2>0. PICK q \in Queues : \E r :
          /\ r.queue = q /\ calls' = Append(calls, r) /\ ended' = Append(ended, "calling")
          /\ dev_info' = Append(dev_info, Unset) /\ stream' = stream /\ host = Idle
    BY <1>2 DEF Begins, Call
  <2>1. PICK r :
          /\ r.queue = q /\ calls' = Append(calls, r) /\ ended' = Append(ended, "calling")
          /\ dev_info' = Append(dev_info, Unset) /\ stream' = stream /\ host = Idle
    BY <2>0
  <2>2. /\ Len(calls') = Len(calls) + 1 /\ calls'[Len(calls')] = r
        /\ calls' = Append(calls, calls'[Len(calls')])
    <3>1. calls \in Seq(CallRecords \cup {r})
      BY <1>0 DEF Typed
    <3> QED
      BY <2>1, <3>1
  <2>3. \A c \in 1 .. Len(ended) : ended[c] # "calling"
    BY <1>0, <2>1 DEF CallsRight, Made, Typed
  <2>4. w' = w
    BY <1>a, <1>b, <2>1
  <2>5. InOrder!Ask
    BY <2>1, <2>2, <2>3, <2>4 DEF InOrder!Ask
  <2> QED
    BY <2>5 DEF InOrder!Next
<1>3. CASE Throws
  <2>1. w' = w
    BY <1>3, <1>a, <1>b DEF Throws
  <2>2. InOrder!Throw
    BY <1>3, <1>d, <2>1 DEF Throws, Errors, InOrder!Throw, InOrder!Thrown
  <2> QED
    BY <2>2 DEF InOrder!Next
<1>4. CASE Returns
  <2>1. host.legal
    BY <1>0, <1>4 DEF Returns, CallRight, CallsRight, InCall, Guarded
  <2>2. PICK q \in Queues, k \in KernelRecords :
          /\ q = host.queue /\ k.call = Current /\ Last(k)'
          /\ Kernels(q)' = Kernels(q) \cup {k}
          /\ \A p \in Queues \ {q} : Kernels(p)' = Kernels(p)
    <3>1. CASE Launch
      <4>1. ~Clears(host.routine)
        BY <1>4, <3>1 DEF Returns, Launch, ClearInfo
      <4>2. PICK q \in Queues, k \in KernelRecords :
              /\ q = host.queue /\ k = Kernel("compute", q)
              /\ Kernels(q)' = Kernels(q) \cup {k}
              /\ \A p \in Queues \ {q} : Kernels(p)' = Kernels(p)
        BY <1>0, <2>1, <3>1, LaunchEnqueues
      <4>3. k.call = Current
        BY <4>2 DEF Kernel
      <4>4. Last(k)'
        BY <1>0, <1>4, <4>1, <4>3 DEF Returns, Last, Clears, CallRight, InCall
      <4> QED
        BY <4>2, <4>3, <4>4
    <3>2. CASE ClearInfo
      <4>1. PICK q \in Queues, k \in KernelRecords :
              /\ q = host.queue /\ k = Kernel("clear", q)
              /\ Kernels(q)' = Kernels(q) \cup {k}
              /\ \A p \in Queues \ {q} : Kernels(p)' = Kernels(p)
        BY <1>0, <3>2, ClearEnqueues
      <4>2. k.call = Current /\ Last(k)'
        BY <4>1 DEF Kernel, Last
      <4> QED
        BY <4>1, <4>2
    <3> QED
      BY <1>4, <3>1, <3>2 DEF Returns
  <2>3. Waiting(q)' = Waiting(q) \cup {Current}
    BY <1>0, <2>2, WaitingMore
  <2>4. \A p \in Queues \ {q} : Waiting(p)' = Waiting(p)
    BY <1>0, <2>2, WaitingKept
  <2>5. w' = [w EXCEPT ![q] = @ \cup {Current}]
    BY <2>3, <2>4
  <2>6. InOrder!Accept
    BY <1>4, <1>d, <2>2, <2>5 DEF Returns, InOrder!Accept
  <2> QED
    BY <2>6 DEF InOrder!Next
<1> QED
  BY <1>0, Outcomes, <1>1, <1>2, <1>3, <1>4

\* A device queue is an in-order queue: the calls of each finish in the order
\* they were made, each once, each with its own result, on every backend, with
\* any number of queues.  What oneMKL's and rocSolver's wrappers do not promise
\* is left out: results other than 0 with the first, illegal arguments with the
\* second.
THEOREM ImplementsInOrderQueue ==
  ASSUME Found, "rocm" \notin Careless PROVE Spec => KeepsOrder
<1>1. Inv /\ [Next]_vars => [InOrder!Next]_(InOrder!vars)
  BY OrderNext
<1> QED
  BY <1>1, OrderInit, Invariance, PTL DEF Spec, KeepsOrder, InOrder!Spec

\* What is proved of an InOrderQueue.
Promise == INSTANCE InOrderProofs WITH
  asked <- calls,
  answer <- ended,
  waiting <- [q \in Queues |-> Waiting(q)],
  result <- dev_info

\* A call of a device queue whose kernels have run: none that was accepted before
\* it, on the same queue, has not.  Its dev_info has what its own kernel found, and
\* no later call, on whatever queue, changes that.
THEOREM CallsFinishInOrder ==
  ASSUME Found, "rocm" \notin Careless
  PROVE  Spec => []Promise!NoneOvertakes /\ []Promise!ResultsRight /\ Promise!ResultsStay
<1>1. InOrder!Init => Promise!Init
  BY DEF InOrder!Init, Promise!Init
<1>2. [InOrder!Next]_(InOrder!vars) => [Promise!Next]_(Promise!vars)
  BY DEF InOrder!Next, InOrder!Ask, InOrder!Throw, InOrder!Accept, InOrder!Finish, InOrder!vars,
         Promise!Next, Promise!Ask, Promise!Throw, Promise!Accept, Promise!Finish, Promise!vars,
         InOrder!Thrown, Promise!Thrown
<1>3. InOrder!Spec => Promise!Spec
  BY <1>1, <1>2, PTL DEF InOrder!Spec, Promise!Spec
<1>4. Spec => Promise!Spec
  BY <1>3, ImplementsInOrderQueue, PTL DEF KeepsOrder
<1> QED
  BY <1>4, Promise!KeepsTurns, Promise!GivesResults, Promise!KeepsResults, PTL
-----------------------------------------------------------------------------
(* What the liveness of calls rests on.                                     *)

\* The most steps that the call in progress has before it.
StepsLeft ==
  CASE host.step = "idle" -> 0
    [] host.step = "clear" -> 1
    [] host.step = "launch" -> 2
    [] host.step = "workspace" -> 3
    [] host.step = "query" -> 4
    [] host.step = "device" -> 5
    [] host.step = "handle" -> 6

\* While a call is in progress it makes a step, of the few it has, or a device
\* finishes a kernel.  Nothing is enqueued while it waits for its workspace.
GetsOn ==
  [][host # Idle =>
       \/ /\ StepsLeft' < StepsLeft
          /\ host.step = "workspace" => stream' = stream
       \/ /\ host' = host
          /\ \E q \in Queues :
               /\ Len(stream'[q]) = Len(stream[q]) - 1
               /\ \A p \in Queues \ {q} : stream'[p] = stream[p]]_vars

\* A call that waits waits for kernels that are in a stream already; it ends
\* after no more than six steps of its own, and no other call begins before.
THEOREM CallsGetOn == Spec => GetsOn
<1>1. ASSUME Typed, [Next]_vars, ~UNCHANGED vars, host # Idle
      PROVE  \/ /\ StepsLeft' < StepsLeft
                /\ host.step = "workspace" => stream' = stream
             \/ /\ host' = host
                /\ \E q \in Queues :
                     /\ Len(stream'[q]) = Len(stream[q]) - 1
                     /\ \A p \in Queues \ {q} : stream'[p] = stream[p]
  <2>0. host \in Busy /\ Idle.step = "idle"
    BY <1>1, Proceeding, Named
  <2>1. CASE Unavailable
    BY <2>0, <2>1 DEF Unavailable, End, StepsLeft
  <2>2. CASE GetHandle
    BY <2>0, <2>2 DEF GetHandle, StepsLeft, Busy
  <2>3. CASE SetDevice
    <3>1. host.step = "device" /\ host'.step \in {"query", "launch"}
      BY <2>0, <2>3 DEF SetDevice, Busy
    <3> QED
      BY <3>1 DEF StepsLeft
  <2>4. CASE QuerySize
    <3>1. host.step = "query" /\ host'.step \in {"idle", "workspace"}
      BY <2>0, <2>4 DEF QuerySize, Busy, End
    <3> QED
      BY <3>1 DEF StepsLeft
  <2>5. CASE EnsureWork
    <3>1. host.step = "workspace" /\ host'.step \in {"idle", "launch"} /\ stream' = stream
      BY <2>0, <2>5 DEF EnsureWork, Busy, End
    <3> QED
      BY <3>1 DEF StepsLeft
  <2>6. CASE Launch
    <3>1. host.step = "launch" /\ host'.step \in {"idle", "clear"}
      BY <2>0, <2>6 DEF Launch, Busy, End
    <3> QED
      BY <3>1 DEF StepsLeft
  <2>7. CASE ClearInfo
    <3>1. host.step = "clear" /\ host'.step = "idle"
      BY <2>0, <2>7 DEF ClearInfo, End
    <3> QED
      BY <3>1 DEF StepsLeft
  <2>8. ASSUME NEW q \in Queues, Run(q)
        PROVE  /\ host' = host
               /\ Len(stream'[q]) = Len(stream[q]) - 1
               /\ \A p \in Queues \ {q} : stream'[p] = stream[p]
    <3>1. stream[q] \in Seq(KernelRecords) /\ stream[q] # <<>>
      BY <1>1, <2>8 DEF Typed, Run
    <3>2. host' = host /\ stream' = [stream EXCEPT ![q] = Tail(@)]
      BY <2>8 DEF Run
    <3>3. stream'[q] = Tail(stream[q]) /\ \A p \in Queues \ {q} : stream'[p] = stream[p]
      BY <1>1, <3>2 DEF Typed
    <3>4. \A s \in Seq(KernelRecords) : s # <<>> => Len(Tail(s)) = Len(s) - 1
      OBVIOUS
    <3> QED
      BY <3>1, <3>2, <3>3, <3>4, Zenon
  <2>9. ~Begin
    <3>1. \A q : Construct(q) \/ Destroy(q) => host = Idle
      BY Zenon DEF Construct, Destroy
    <3>2. \A q, routine, need : AskSize(q, routine, need) => host = Idle
      BY Zenon DEF AskSize
    <3>3. \A q, routine, need, legal, info : Call(q, routine, need, legal, info) => host = Idle
      BY Zenon DEF Call
    <3> QED
      BY <1>1, <3>1, <3>2, <3>3, Zenon DEF Begin
  <2> QED
    BY <1>1, <2>1, <2>2, <2>3, <2>4, <2>5, <2>6, <2>7, <2>8, <2>9 DEF Next, Proceed
<1>2. Inv => Typed
  BY DEF Inv
<1>3. Typed /\ [Next]_vars =>
        [host # Idle =>
           \/ /\ StepsLeft' < StepsLeft
              /\ host.step = "workspace" => stream' = stream
           \/ /\ host' = host
              /\ \E q \in Queues :
                   /\ Len(stream'[q]) = Len(stream[q]) - 1
                   /\ \A p \in Queues \ {q} : stream'[p] = stream[p]]_vars
  BY <1>1
<1> QED
  BY <1>2, <1>3, Invariance, PTL DEF Spec, GetsOn
=============================================================================
