------------------------ MODULE GenerationStreamProofs ------------------------
(* Theorems about GenerationStream, for every set of runs, clients and     *)
(* buffers, and for any limits of a buffer and sizes of events.            *)
EXTENDS GenerationStream, SumProofs

(* The part of TypeOK the argument needs.                                  *)
Shape ==
    /\ store \in Buffers \cup {NoBuffer}
    /\ done \in [Buffers -> BOOLEAN]
    /\ failed \in [Buffers -> {"none", "empty", "text"}]
    /\ timers \in Nat
    /\ rpc \in [Runs -> RunPCs]
    /\ kind \in [Runs -> Kinds]
    /\ buf \in [Runs -> Buffers \cup {NoBuffer}]
    /\ cpc \in [Clients -> ClientPCs]
    /\ cbuf \in [Clients -> Buffers \cup {NoBuffer}]

Writing == {"streaming", "storing", "completing", "completingLate", "failing",
            "failingLate"}
Closing == {"completing", "completingLate", "failing", "failingLate"}

(* A run holds a buffer exactly from its opening on, and only a reply does. *)
Holding ==
    \A r \in Runs :
        /\ rpc[r] \in {"idle", "preparing", "tracked"} => buf[r] = NoBuffer
        /\ kind[r] = "greeting" => buf[r] = NoBuffer
        /\ rpc[r] \in Writing /\ kind[r] = "reply" => buf[r] \in Buffers
        /\ rpc[r] \in Closing => kind[r] = "reply"

(* A client that is about to read, or reads, has a buffer.                 *)
Reading ==
    \A k \in Clients : cpc[k] \in {"resolved", "live"} => cbuf[k] \in Buffers

(* A stored buffer that has given no signal has a writer that will.        *)
StoredTended ==
    store # NoBuffer /\ ~Finished(store) =>
        \E r \in Runs : buf[r] = store /\ Pending(r)

IInv == Shape /\ Holding /\ Reading /\ NoListenerOnFinished /\ StoredTended
              /\ StoreWillBeCleaned

(* The buffer an operation takes from the store is the stored one, or one  *)
(* that nobody has seen.                                                   *)
LEMMA TakenBuffer ==
    ASSUME Shape, CanCreate
    PROVE  /\ GetOrCreateBuffer \in Buffers
           /\ \/ store # NoBuffer /\ GetOrCreateBuffer = store
              \/ store = NoBuffer /\ GetOrCreateBuffer \notin Created
<1>1. CASE store # NoBuffer
  BY <1>1 DEF GetOrCreateBuffer, Shape
<1>2. CASE store = NoBuffer
  <2>1. \E b \in Buffers : b \notin Created
    BY <1>2 DEF CanCreate
  <2>2. FreshBuffer \in Buffers /\ FreshBuffer \notin Created
    BY <2>1 DEF FreshBuffer
  <2> QED
    BY <1>2, <2>2 DEF GetOrCreateBuffer
<1> QED
  BY <1>1, <1>2

(* A buffer nobody has seen has given no signal and has no listener.       *)
LEMMA UnseenBuffer ==
    ASSUME NEW b \in Buffers, b \notin Created
    PROVE  /\ ~Finished(b)
           /\ \A r \in Runs : buf[r] # b
           /\ \A k \in Clients : cbuf[k] # b
BY DEF Created, Finished

LEMMA InvInit == Init => IInv
BY AbsentAssumption
   DEF Init, IInv, Shape, Holding, Reading, NoListenerOnFinished, StoredTended,
       StoreWillBeCleaned, Finished, Pending, RunPCs, Kinds, ClientPCs, Writing,
       Closing

USE DEF RunPCs, Kinds, ClientPCs, Writing, Closing, Finished, Pending, Closed

LEMMA InvStep == IInv /\ [Next]_vars => IInv'
<1> SUFFICES ASSUME IInv, [Next]_vars PROVE IInv'
  OBVIOUS
<1> USE AbsentAssumption DEF IInv
<1>1. CASE RemoveBuffer
  BY <1>1 DEF RemoveBuffer, buffer, run, client, Shape, Holding, Reading,
              NoListenerOnFinished, StoredTended, StoreWillBeCleaned
<1>2. CASE Cancel
  BY <1>2 DEF Cancel, buffer, client, Shape, Holding, Reading,
              NoListenerOnFinished, StoredTended, StoreWillBeCleaned
<1>3. ASSUME NEW r \in Runs, Begin(r) PROVE IInv'
  BY <1>3 DEF Begin, buffer, client, Shape, Holding, Reading,
              NoListenerOnFinished, StoredTended, StoreWillBeCleaned
<1>4. ASSUME NEW r \in Runs, GiveUp(r) PROVE IInv'
  BY <1>4 DEF GiveUp, buffer, client, Shape, Holding, Reading,
              NoListenerOnFinished, StoredTended, StoreWillBeCleaned
<1>5. ASSUME NEW r \in Runs, Track(r) PROVE IInv'
  BY <1>5 DEF Track, buffer, client, Shape, Holding, Reading,
              NoListenerOnFinished, StoredTended, StoreWillBeCleaned
<1>6. ASSUME NEW r \in Runs, Open(r) PROVE IInv'
  <2>1. CASE kind[r] = "reply"
    <3> DEFINE b == GetOrCreateBuffer
    <3>1. /\ b \in Buffers
          /\ \/ store # NoBuffer /\ b = store
             \/ store = NoBuffer /\ b \notin Created
      BY <1>6, <2>1, TakenBuffer DEF Open
    <3>2. /\ store' = b /\ buf' = [buf EXCEPT ![r] = b]
          /\ rpc' = [rpc EXCEPT ![r] = "streaming"]
          /\ rpc[r] = "tracked"
          /\ UNCHANGED <<done, failed, timers, kind, cpc, cbuf>>
      BY <1>6, <2>1 DEF Open, buffer, client
    <3> HIDE DEF b
    <3>3. Shape' /\ Holding' /\ Reading'
      BY <2>1, <3>1, <3>2 DEF Shape, Holding, Reading
    <3>4. NoListenerOnFinished'
      BY <3>2 DEF NoListenerOnFinished
    <3>5. buf'[r] = store' /\ rpc'[r] = "streaming"
      BY <3>1, <3>2 DEF Shape
    <3>6. \E q \in Runs : buf'[q] = store' /\ rpc'[q] \notin {"idle", "ended"}
      BY <3>5
    <3>7. StoredTended'
      BY <3>6 DEF StoredTended
    <3>8. StoreWillBeCleaned'
      BY <3>6 DEF StoreWillBeCleaned
    <3> QED
      BY <3>3, <3>4, <3>7, <3>8
  <2>2. CASE kind[r] # "reply"
    BY <1>6, <2>2 DEF Open, buffer, client, Shape, Holding, Reading,
                      NoListenerOnFinished, StoredTended, StoreWillBeCleaned
  <2> QED
    BY <2>1, <2>2
<1>7. ASSUME NEW r \in Runs, Emit(r) PROVE IInv'
  BY <1>7 DEF Emit, run, Shape, Holding, Reading,
              NoListenerOnFinished, StoredTended, StoreWillBeCleaned
<1>8. ASSUME NEW r \in Runs, Answer(r) PROVE IInv'
  BY <1>8 DEF Answer, Shape, Holding, Reading,
              NoListenerOnFinished, StoredTended, StoreWillBeCleaned
<1>9. ASSUME NEW r \in Runs, Store(r) PROVE IInv'
  <2> DEFINE after == IF kind[r] = "greeting" THEN "ended"
                      ELSE IF r \in Active THEN "completing"
                      ELSE "completingLate"
  <2>1. /\ rpc[r] = "storing" /\ rpc' = [rpc EXCEPT ![r] = after]
        /\ UNCHANGED <<store, done, failed, timers, kind, buf, cpc, cbuf>>
    BY <1>9 DEF Store, buffer, client
  <2>2. /\ after \in {"ended", "completing", "completingLate"}
        /\ after = "ended" <=> kind[r] = "greeting"
    OBVIOUS
  <2> HIDE DEF after
  <2>3. Shape' /\ Holding'
    BY <2>1, <2>2 DEF Shape, Holding
  <2>4. Reading' /\ NoListenerOnFinished'
    BY <2>1 DEF Reading, NoListenerOnFinished
  <2>5. \A q \in Runs : buf[q] \in Buffers /\ Pending(q)
                          => buf'[q] = buf[q] /\ Pending(q)'
    BY <2>1, <2>2 DEF Shape, Holding
  <2>6. StoredTended' /\ StoreWillBeCleaned'
    BY <2>1, <2>5 DEF StoredTended, StoreWillBeCleaned, Shape
  <2> QED
    BY <2>3, <2>4, <2>6
<1>10. ASSUME NEW r \in Runs, End(r) PROVE IInv'
  <2>1. /\ rpc[r] \in Closing /\ rpc' = [rpc EXCEPT ![r] = "ended"]
        /\ done' = [done EXCEPT ![buf[r]] = TRUE]
        /\ failed' = failed
        /\ cpc' = [k \in Clients |-> IF cpc[k] = "live" /\ cbuf[k] = buf[r]
                                     THEN "done" ELSE cpc[k]]
        /\ timers' = timers + 1
        /\ UNCHANGED <<store, kind, buf, cbuf>>
    BY <1>10 DEF End, SignalDone, ScheduleBufferCleanup, Listeners
  <2>2. buf[r] \in Buffers
    BY <2>1 DEF Shape, Holding
  <2>3. Shape' /\ Holding' /\ Reading'
    BY <2>1, <2>2 DEF Shape, Holding, Reading
  <2>4. NoListenerOnFinished'
    BY <2>1, <2>2 DEF NoListenerOnFinished, Shape, Reading
  <2>5. StoredTended'
    BY <2>1, <2>2 DEF StoredTended, Shape
  <2>6. StoreWillBeCleaned'
    BY <2>1 DEF StoreWillBeCleaned, Shape
  <2> QED
    BY <2>3, <2>4, <2>5, <2>6
<1>11. ASSUME NEW r \in Runs, Throw(r) PROVE IInv'
  BY <1>11 DEF Throw, buffer, client, Shape, Holding, Reading,
               NoListenerOnFinished, StoredTended, StoreWillBeCleaned
<1>12. ASSUME NEW r \in Runs, Fail(r) PROVE IInv'
  <2> DEFINE b == GetOrCreateBuffer
  <2>1. b \in Buffers
    BY <1>12, TakenBuffer DEF Fail
  <2>2. /\ rpc' = [rpc EXCEPT ![r] = "ended"]
        /\ store' = b
        /\ \E message \in {"empty", "text"} : failed' = [failed EXCEPT ![b] = message]
        /\ done' = done
        /\ cpc' = [k \in Clients |-> IF cpc[k] = "live" /\ cbuf[k] = b
                                     THEN "error" ELSE cpc[k]]
        /\ timers' = timers + 1
        /\ UNCHANGED <<kind, buf, cbuf>>
    BY <1>12 DEF Fail, SignalError, ErrorMessages, ScheduleBufferCleanup, Listeners
  <2> HIDE DEF b
  <2>3. Shape' /\ Holding' /\ Reading'
    BY <2>1, <2>2 DEF Shape, Holding, Reading
  <2>4. NoListenerOnFinished'
    BY <2>1, <2>2 DEF NoListenerOnFinished, Shape, Reading
  <2>5. StoredTended' /\ StoreWillBeCleaned'
    BY <2>1, <2>2 DEF StoredTended, StoreWillBeCleaned, Shape
  <2> QED
    BY <2>3, <2>4, <2>5
<1>13. ASSUME NEW k \in Clients, Connect(k) PROVE IInv'
  BY <1>13 DEF Connect, buffer, run, Shape, Holding, Reading,
               NoListenerOnFinished, StoredTended, StoreWillBeCleaned
<1>14. ASSUME NEW k \in Clients, WaitForBuffer(k) PROVE IInv'
  BY <1>14 DEF WaitForBuffer, buffer, run, Shape, Holding, Reading,
               NoListenerOnFinished, StoredTended, StoreWillBeCleaned
<1>15. ASSUME NEW k \in Clients, Resume(k) PROVE IInv'
  BY <1>15 DEF Resume, Replay, buffer, run, Shape, Holding, Reading,
               NoListenerOnFinished, StoredTended, StoreWillBeCleaned
<1>16. ASSUME NEW k \in Clients, Disconnect(k) PROVE IInv'
  BY <1>16 DEF Disconnect, buffer, run, Shape, Holding, Reading,
               NoListenerOnFinished, StoredTended, StoreWillBeCleaned
<1>17. CASE UNCHANGED vars
  BY <1>17 DEF vars, Shape, Holding, Reading, NoListenerOnFinished,
               StoredTended, StoreWillBeCleaned
<1> QED
  BY <1>1, <1>2, <1>3, <1>4, <1>5, <1>6, <1>7, <1>8, <1>9, <1>10, <1>11, <1>12,
     <1>13, <1>14, <1>15, <1>16, <1>17 DEF Next

-----------------------------------------------------------------------------
(* The rings.  Their account is exact because what the trimming loop drops *)
(* and what it keeps make up what there was.                               *)

Sizes(s) == [i \in DOMAIN s |-> s[i].size]

LEMMA SizesOf ==
    ASSUME NEW s \in Seq(Event)
    PROVE  /\ Sizes(s) \in Seq(Nat) /\ Len(Sizes(s)) = Len(s)
           /\ Size(s) = SumFunction(Sizes(s)) /\ Size(s) \in Nat
<1>1. Len(s) \in Nat /\ DOMAIN s = 1 .. Len(s) /\ \A i \in 1 .. Len(s) : s[i] \in Event
  BY LenProperties, ElementOfSeq
<1>2. \A i \in 1 .. Len(s) : s[i].size \in Nat
  BY <1>1, LimitsAssumption DEF Event
<1>3. Sizes(s) \in [1 .. Len(s) -> Nat]
  BY <1>1, <1>2 DEF Sizes
<1>4. Sizes(s) \in Seq(Nat)
  BY <1>1, <1>3, SeqDef
<1>5. Len(Sizes(s)) = Len(s)
  BY <1>1, <1>3, <1>4, LenProperties
<1>6. Size(s) = SumFunction(Sizes(s))
  BY DEF Size, Sizes
<1> QED
  BY <1>4, <1>5, <1>6, SumSeqNat

LEMMA SizeOfAppend ==
    ASSUME NEW s \in Seq(Event), NEW e \in Event
    PROVE  Size(Append(s, e)) = Size(s) + e.size
<1> DEFINE t == Append(s, e)
<1>1. e.size \in Nat
  BY LimitsAssumption DEF Event
<1>2. /\ t \in Seq(Event) /\ Len(t) = Len(s) + 1 /\ t[Len(s) + 1] = e
      /\ \A i \in 1 .. Len(s) : t[i] = s[i]
  BY AppendProperties
<1>3. Sizes(s) \in Seq(Nat) /\ Len(Sizes(s)) = Len(s) /\ Sizes(t) \in Seq(Nat) /\ Len(Sizes(t)) = Len(t)
  BY <1>2, SizesOf
<1>4. /\ Len(s) \in Nat /\ DOMAIN s = 1 .. Len(s)
      /\ DOMAIN t = 1 .. Len(s) + 1
  BY <1>2, LenProperties
<1> DEFINE u == Append(Sizes(s), e.size)
<1>5. /\ u \in Seq(Nat) /\ Len(u) = Len(s) + 1 /\ u[Len(s) + 1] = e.size
      /\ \A i \in 1 .. Len(s) : u[i] = Sizes(s)[i]
  BY <1>1, <1>3, AppendProperties
<1>6. \A i \in 1 .. Len(s) : Sizes(t)[i] = u[i]
  BY <1>2, <1>4, <1>5 DEF Sizes
<1>7. Sizes(t)[Len(s) + 1] = u[Len(s) + 1]
  BY <1>2, <1>4, <1>5 DEF Sizes
<1> HIDE DEF t, u
<1>8. \A i \in 1 .. Len(s) + 1 : i \in 1 .. Len(s) \/ i = Len(s) + 1
  BY <1>4
<1>9. \A i \in 1 .. Len(Sizes(t)) : Sizes(t)[i] = u[i]
  BY <1>2, <1>3, <1>6, <1>7, <1>8
<1>10. Sizes(t) = u
  BY <1>2, <1>3, <1>5, <1>9, SeqEqual
<1>11. SumFunction(u) = SumFunction(Sizes(s)) + e.size
  BY <1>1, <1>3, SumAppend DEF u
<1>12. Size(t) = SumFunction(Sizes(t)) /\ Size(s) = SumFunction(Sizes(s))
  BY <1>2, SizesOf
<1> QED
  BY <1>10, <1>11, <1>12 DEF t

LEMMA CutLength ==
    \A l, n \in Nat : n <= l => (IF n + 1 <= l THEN l - (n + 1) + 1 ELSE 0) = l - n
OBVIOUS

(* What a cut drops and what it keeps.                                     *)
LEMMA SizeOfCut ==
    ASSUME NEW s \in Seq(Event), NEW n \in 0 .. Len(s)
    PROVE  /\ SubSeq(s, 1, n) \in Seq(Event) /\ SubSeq(s, n + 1, Len(s)) \in Seq(Event)
           /\ Len(SubSeq(s, n + 1, Len(s))) = Len(s) - n
           /\ \A i \in 1 .. Len(s) - n : SubSeq(s, n + 1, Len(s))[i] = s[n + i]
           /\ Size(s) = Size(SubSeq(s, 1, n)) + Size(SubSeq(s, n + 1, Len(s)))
<1> DEFINE low == SubSeq(s, 1, n)
           high == SubSeq(s, n + 1, Len(s))
<1>1. /\ Len(s) \in Nat /\ n \in Nat /\ n <= Len(s) /\ DOMAIN s = 1 .. Len(s)
      /\ \A i \in 1 .. Len(s) : s[i] \in Event
  BY LenProperties, ElementOfSeq
<1>2. low \in Seq(Event) /\ Len(low) = n /\ \A i \in 1 .. n : low[i] = s[i]
  <2>1. \A i \in 1 .. n : s[i] \in Event
    BY <1>1
  <2>2. /\ low \in Seq(Event) /\ Len(low) = IF 1 <= n THEN n - 1 + 1 ELSE 0
        /\ \A i \in 1 .. n - 1 + 1 : low[i] = s[1 + i - 1]
    BY <1>1, <2>1, SubSeqProperties
  <2> HIDE DEF low
  <2>3. Len(low) = n
    BY <1>1, <2>2
  <2>4. \A i \in 1 .. n : i \in 1 .. n - 1 + 1 /\ 1 + i - 1 = i
    BY <1>1
  <2> QED
    BY <2>2, <2>3, <2>4
<1>3. high \in Seq(Event) /\ Len(high) = Len(s) - n /\ \A i \in 1 .. Len(s) - n : high[i] = s[n + i]
  <2>1. \A i \in n + 1 .. Len(s) : s[i] \in Event
    BY <1>1
  <2>2. /\ high \in Seq(Event) /\ Len(high) = IF n + 1 <= Len(s) THEN Len(s) - (n + 1) + 1 ELSE 0
        /\ \A i \in 1 .. Len(s) - (n + 1) + 1 : high[i] = s[(n + 1) + i - 1]
    BY <1>1, <2>1, SubSeqProperties
  <2> HIDE DEF high
  <2>3. Len(high) = Len(s) - n
    BY <1>1, <2>2, CutLength
  <2>4. \A i \in 1 .. Len(s) - n : i \in 1 .. Len(s) - (n + 1) + 1 /\ (n + 1) + i - 1 = n + i
    BY <1>1
  <2> QED
    BY <2>2, <2>3, <2>4
<1>4. Sizes(s) \in Seq(Nat) /\ Len(Sizes(s)) = Len(s)
  BY SizesOf
<1>5. Sizes(low) = SubSeq(Sizes(s), 1, n)
  <2>1. Sizes(low) \in Seq(Nat) /\ Len(Sizes(low)) = n
    BY <1>2, SizesOf
  <2>2. \A i \in 1 .. n : Sizes(s)[i] \in Nat
    BY <1>1, <1>4, ElementOfSeq
  <2>3. /\ SubSeq(Sizes(s), 1, n) \in Seq(Nat)
        /\ Len(SubSeq(Sizes(s), 1, n)) = IF 1 <= n THEN n - 1 + 1 ELSE 0
        /\ \A i \in 1 .. n - 1 + 1 : SubSeq(Sizes(s), 1, n)[i] = Sizes(s)[1 + i - 1]
    BY <1>1, <2>2, SubSeqProperties
  <2>4. \A i \in 1 .. n : i \in 1 .. n - 1 + 1 /\ 1 + i - 1 = i
    BY <1>1
  <2>5. Len(SubSeq(Sizes(s), 1, n)) = n
    BY <1>1, <2>3
  <2>6. DOMAIN low = 1 .. n
    BY <1>2, LenProperties
  <2>7. \A i \in 1 .. n : Sizes(low)[i] = Sizes(s)[i]
    BY <1>1, <1>2, <2>6 DEF Sizes
  <2> HIDE DEF low
  <2>8. \A i \in 1 .. Len(Sizes(low)) : Sizes(low)[i] = SubSeq(Sizes(s), 1, n)[i]
    BY <2>1, <2>3, <2>4, <2>7
  <2> QED
    BY <2>1, <2>3, <2>5, <2>8, SeqEqual
<1>6. Sizes(high) = SubSeq(Sizes(s), n + 1, Len(s))
  <2>1. Sizes(high) \in Seq(Nat) /\ Len(Sizes(high)) = Len(s) - n
    BY <1>3, SizesOf
  <2>2. \A i \in n + 1 .. Len(s) : Sizes(s)[i] \in Nat
    BY <1>1, <1>4, ElementOfSeq
  <2> DEFINE rest == SubSeq(Sizes(s), n + 1, Len(s))
  <2>3. /\ rest \in Seq(Nat)
        /\ Len(rest) = IF n + 1 <= Len(s) THEN Len(s) - (n + 1) + 1 ELSE 0
        /\ \A i \in 1 .. Len(s) - (n + 1) + 1 : rest[i] = Sizes(s)[(n + 1) + i - 1]
    BY <1>1, <2>2, SubSeqProperties
  <2>4. \A i \in 1 .. Len(s) - n : i \in 1 .. Len(s) - (n + 1) + 1 /\ (n + 1) + i - 1 = n + i /\ n + i \in 1 .. Len(s)
    BY <1>1
  <2>5. Len(rest) = Len(s) - n
    <3> HIDE DEF rest
    <3> QED
      BY <1>1, <2>3, CutLength
  <2>6. DOMAIN high = 1 .. Len(s) - n
    BY <1>3, LenProperties
  <2>7. \A i \in 1 .. Len(s) - n : Sizes(high)[i] = Sizes(s)[n + i]
    BY <1>1, <1>3, <2>4, <2>6 DEF Sizes
  <2> HIDE DEF high, rest
  <2>8. \A i \in 1 .. Len(Sizes(high)) : Sizes(high)[i] = rest[i]
    BY <2>1, <2>3, <2>4, <2>7
  <2>9. Sizes(high) = rest
    BY <2>1, <2>3, <2>5, <2>8, SeqEqual
  <2> QED
    BY <2>9 DEF rest
<1>7. Size(s) = SumFunction(Sizes(s)) /\ Size(low) = SumFunction(Sizes(low)) /\ Size(high) = SumFunction(Sizes(high))
  BY <1>2, <1>3, SizesOf
<1>8. SumFunction(Sizes(s)) = SumFunction(SubSeq(Sizes(s), 1, n)) + SumFunction(SubSeq(Sizes(s), n + 1, Len(s)))
  BY <1>4, SumSplit
<1> QED
  BY <1>2, <1>3, <1>5, <1>6, <1>7, <1>8

(* The trimming loop stops: dropping everything is within both limits.     *)
LEMMA DropsFit ==
    ASSUME NEW s \in Seq(Event), NEW total, total = Size(s)
    PROVE  /\ Drops(s, total) \in 0 .. Len(s)
           /\ Len(s) - Drops(s, total) <= MaxEvents
           /\ total - Size(SubSeq(s, 1, Drops(s, total))) <= MaxBytes
<1> DEFINE Fit(n) == /\ Len(s) - n <= MaxEvents
                     /\ total - Size(SubSeq(s, 1, n)) <= MaxBytes
           Fitting == {n \in 0 .. Len(s) : Fit(n)}
<1>1. Len(s) \in Nat /\ MaxEvents \in Nat /\ MaxBytes \in Nat /\ Size(s) \in Nat
  BY LenProperties, SizesOf, LimitsAssumption
<1>2. Len(s) \in Fitting
  <2>1. SubSeq(s, 1, Len(s)) = s
    BY SubSeqFull
  <2>2. Len(s) - Len(s) = 0 /\ total - Size(s) = 0
    BY <1>1
  <2>3. 0 <= MaxEvents /\ 0 <= MaxBytes
    BY <1>1
  <2>4. Fit(Len(s))
    <3>1. Len(s) - Len(s) <= MaxEvents
      BY <2>2, <2>3
    <3>2. total - Size(SubSeq(s, 1, Len(s))) <= MaxBytes
      BY <2>1, <2>2, <2>3
    <3> QED
      BY <3>1, <3>2
  <2>5. Len(s) \in 0 .. Len(s)
    BY <1>1
  <2> HIDE DEF Fit
  <2> QED
    BY <2>4, <2>5
<1>3. PICK n \in Fitting : \A m \in 0 .. n - 1 : m \notin Fitting
  <2>1. Fitting \subseteq Nat /\ Fitting # {}
    BY <1>1, <1>2
  <2> QED
    BY <2>1, LeastNumber
<1>4. ASSUME NEW m \in 0 .. n - 1
      PROVE  Len(s) - m > MaxEvents \/ total - Size(SubSeq(s, 1, m)) > MaxBytes
  <2>1. n \in 0 .. Len(s) /\ m \in 0 .. Len(s)
    BY <1>1, <1>3, <1>4
  <2>2. ~Fit(m)
    BY <1>3, <1>4, <2>1
  <2>3. SubSeq(s, 1, m) \in Seq(Event)
    BY <2>1, SizeOfCut
  <2>4. Size(SubSeq(s, 1, m)) \in Nat
    BY <2>3, SizesOf
  <2> QED
    BY <1>1, <2>1, <2>2, <2>4
<1>5. /\ n \in 0 .. Len(s) /\ Len(s) - n <= MaxEvents
      /\ total - Size(SubSeq(s, 1, n)) <= MaxBytes
  BY <1>3
<1> HIDE DEF Fitting
<1> QED
  BY <1>4, <1>5 DEF Drops

(* The part of TypeOK that Shape leaves out.                               *)
RingTypes ==
    /\ events \in [Buffers -> Seq(Event)]
    /\ bytes \in [Buffers -> Nat]
    /\ sequence \in [Buffers -> Nat]
    /\ slot \in Runs \cup {NoRun}
    /\ stopped \in SUBSET Runs
    /\ next \in [Clients -> Nat]

RingInv == RingTypes /\ RingSound /\ LiveSeesLatest

(* The ring of a buffer that an event was appended to.                     *)
LEMMA PushedRing ==
    ASSUME RingTypes, RingSound, NEW b \in Buffers, NEW size \in EventSizes, Push(b, size)
    PROVE  /\ events'[b] \in Seq(Event) /\ events' = [events EXCEPT ![b] = events'[b]]
           /\ bytes'[b] \in Nat /\ bytes' = [bytes EXCEPT ![b] = bytes'[b]]
           /\ sequence' = [sequence EXCEPT ![b] = sequence[b] + 1]
           /\ Len(events'[b]) <= MaxEvents
           /\ bytes'[b] = Size(events'[b]) /\ bytes'[b] <= MaxBytes
           /\ \A i \in DOMAIN events'[b] :
                 events'[b][i].sequence = (sequence[b] + 1) - Len(events'[b]) + i - 1
<1> DEFINE old == events[b]
           e == [sequence |-> sequence[b], size |-> size]
           s == Append(old, e)
           total == bytes[b] + size
           n == Drops(s, total)
           ring == SubSeq(s, n + 1, Len(s))
<1>1. /\ events' = [events EXCEPT ![b] = ring]
      /\ bytes' = [bytes EXCEPT ![b] = total - Size(SubSeq(s, 1, n))]
      /\ sequence' = [sequence EXCEPT ![b] = sequence[b] + 1]
  <2>1. events' = [events EXCEPT ![b] = ring]
    BY DEF Push
  <2>2. bytes' = [bytes EXCEPT ![b] = total - Size(SubSeq(s, 1, n))]
    BY DEF Push
  <2>3. sequence' = [sequence EXCEPT ![b] = sequence[b] + 1]
    BY DEF Push
  <2> QED
    BY <2>1, <2>2, <2>3
<1>2. /\ old \in Seq(Event) /\ e \in Event /\ sequence[b] \in Nat /\ bytes[b] = Size(old)
      /\ size \in Nat /\ e.size = size /\ e.sequence = sequence[b] /\ MaxEvents \in Nat
      /\ \A i \in DOMAIN old : old[i].sequence = sequence[b] - Len(old) + i - 1
  BY LimitsAssumption DEF RingTypes, RingSound, Event
<1> HIDE DEF old, e
<1>3. /\ s \in Seq(Event) /\ Len(s) = Len(old) + 1 /\ s[Len(old) + 1] = e
      /\ \A i \in 1 .. Len(old) : s[i] = old[i]
  BY <1>2, AppendProperties
<1>4. total = Size(s)
  BY <1>2, SizeOfAppend
<1> HIDE DEF s, total
<1>5. /\ n \in 0 .. Len(s) /\ Len(s) - n <= MaxEvents
      /\ total - Size(SubSeq(s, 1, n)) <= MaxBytes
  BY <1>3, <1>4, DropsFit
<1> HIDE DEF n
<1>6. /\ SubSeq(s, 1, n) \in Seq(Event) /\ ring \in Seq(Event)
      /\ Len(ring) = Len(s) - n
      /\ \A i \in 1 .. Len(s) - n : ring[i] = s[n + i]
      /\ Size(s) = Size(SubSeq(s, 1, n)) + Size(ring)
  BY <1>3, <1>5, SizeOfCut
<1> HIDE DEF ring
<1>7. Size(ring) \in Nat /\ Size(SubSeq(s, 1, n)) \in Nat
  BY <1>6, SizesOf
<1>8. total - Size(SubSeq(s, 1, n)) = Size(ring)
  <2>1. \A k, l, m \in Nat : m = k + l => m - k = l
    OBVIOUS
  <2>2. Size(s) \in Nat
    BY <1>3, SizesOf
  <2> QED
    BY <1>4, <1>6, <1>7, <2>1, <2>2
<1>9. Len(old) \in Nat /\ DOMAIN old = 1 .. Len(old) /\ Len(s) \in Nat
      /\ DOMAIN ring = 1 .. Len(ring)
  BY <1>2, <1>3, <1>6, LenProperties
<1>10. \A j \in 1 .. Len(s) : s[j].sequence = sequence[b] - Len(old) + j - 1
  <2> TAKE j \in 1 .. Len(s)
  <2>1. CASE j <= Len(old)
    <3>1. j \in 1 .. Len(old)
      BY <1>9, <2>1
    <3> QED
      BY <1>2, <1>3, <1>9, <3>1
  <2>2. CASE ~(j <= Len(old))
    <3>1. j = Len(old) + 1
      BY <1>3, <1>9, <2>2
    <3>2. s[j].sequence = sequence[b]
      BY <1>2, <1>3, <3>1
    <3>3. \A q, k \in Nat : q - k + (k + 1) - 1 = q
      OBVIOUS
    <3> QED
      BY <1>2, <1>9, <3>1, <3>2, <3>3
  <2> QED
    BY <2>1, <2>2
<1>11. \A i \in DOMAIN ring : ring[i].sequence = (sequence[b] + 1) - Len(ring) + i - 1
  <2> TAKE i \in DOMAIN ring
  <2>1. i \in 1 .. Len(s) - n /\ n \in Nat /\ n + i \in 1 .. Len(s)
    BY <1>5, <1>6, <1>9
  <2>2. ring[i].sequence = sequence[b] - Len(old) + (n + i) - 1
    BY <1>6, <1>10, <2>1
  <2>3. Len(ring) = Len(old) + 1 - n
    BY <1>3, <1>6
  <2>4. sequence[b] \in Int /\ Len(old) \in Int /\ n \in Int /\ i \in Int
    BY <1>2, <1>9, <2>1
  <2>5. PICK q, k, m, l \in Int : q = sequence[b] /\ k = Len(old) /\ m = n /\ l = i
    BY <2>4
  <2>6. q - k + (m + l) - 1 = (q + 1) - (k + 1 - m) + l - 1
    OBVIOUS
  <2>7. ring[i].sequence = q - k + (m + l) - 1 /\ Len(ring) = k + 1 - m
    BY <2>2, <2>3, <2>5
  <2> QED
    BY <2>5, <2>6, <2>7
<1>12. events'[b] = ring /\ bytes'[b] = Size(ring)
  BY <1>1, <1>8 DEF RingTypes
<1>13. Size(ring) <= MaxBytes /\ Len(ring) <= MaxEvents
  BY <1>5, <1>6, <1>8
<1>14. events' = [events EXCEPT ![b] = events'[b]] /\ bytes' = [bytes EXCEPT ![b] = bytes'[b]]
  BY <1>1, <1>8, <1>12
<1> QED
  BY <1>1, <1>6, <1>7, <1>11, <1>12, <1>13, <1>14

LEMMA PushRing ==
    ASSUME Shape, RingTypes, RingSound, NEW b \in Buffers, NEW size \in EventSizes, Push(b, size)
    PROVE  /\ events' \in [Buffers -> Seq(Event)] /\ bytes' \in [Buffers -> Nat]
           /\ sequence' \in [Buffers -> Nat] /\ next' \in [Clients -> Nat]
           /\ RingSound'
<1>1. /\ events'[b] \in Seq(Event) /\ events' = [events EXCEPT ![b] = events'[b]]
      /\ bytes'[b] \in Nat /\ bytes' = [bytes EXCEPT ![b] = bytes'[b]]
      /\ sequence' = [sequence EXCEPT ![b] = sequence[b] + 1]
      /\ Len(events'[b]) <= MaxEvents
      /\ bytes'[b] = Size(events'[b]) /\ bytes'[b] <= MaxBytes
      /\ \A i \in DOMAIN events'[b] :
            events'[b][i].sequence = (sequence[b] + 1) - Len(events'[b]) + i - 1
  BY PushedRing
<1>2. next' = [k \in Clients |-> IF k \in Listeners(b) THEN sequence[b] + 1 ELSE next[k]]
  BY DEF Push
<1>3. sequence[b] \in Nat
  BY DEF RingTypes
<1>4. events' \in [Buffers -> Seq(Event)]
  BY <1>1 DEF RingTypes
<1>5. bytes' \in [Buffers -> Nat]
  BY <1>1 DEF RingTypes
<1>6. sequence' \in [Buffers -> Nat]
  BY <1>1, <1>3 DEF RingTypes
<1>7. next' \in [Clients -> Nat]
  BY <1>2, <1>3 DEF RingTypes
<1>8. sequence'[b] = sequence[b] + 1
  BY <1>1 DEF RingTypes
<1>9. ASSUME NEW c \in Buffers, c # b
      PROVE  events'[c] = events[c] /\ bytes'[c] = bytes[c] /\ sequence'[c] = sequence[c]
  BY <1>1, <1>9 DEF RingTypes
<1>10. ASSUME NEW c \in Buffers
       PROVE  /\ Len(events'[c]) <= MaxEvents
              /\ bytes'[c] = Size(events'[c]) /\ bytes'[c] <= MaxBytes
              /\ \A i \in DOMAIN events'[c] :
                    events'[c][i].sequence = sequence'[c] - Len(events'[c]) + i - 1
  <2>1. CASE c = b
    <3>1. \A i \in DOMAIN events'[b] :
             events'[b][i].sequence = (sequence[b] + 1) - Len(events'[b]) + i - 1
      BY <1>1
    <3>2. \A i \in DOMAIN events'[b] :
             events'[b][i].sequence = sequence'[b] - Len(events'[b]) + i - 1
      BY <1>8, <3>1
    <3> QED
      BY <1>1, <2>1, <3>2
  <2>2. CASE c # b
    BY <1>9, <2>2 DEF RingSound
  <2> QED
    BY <2>1, <2>2
<1>11. RingSound'
  BY <1>10 DEF RingSound, Size
<1> QED
  BY <1>4, <1>5, <1>6, <1>7, <1>11

(* Steps that append no event and subscribe no client.                     *)
Silent ==
    /\ UNCHANGED <<events, bytes, sequence, next>>
    /\ \A k \in Clients : cpc'[k] = "live" => cpc[k] = "live" /\ cbuf'[k] = cbuf[k]

(* Steps that append an event.                                             *)
Pushes ==
    /\ \E b \in Buffers, size \in EventSizes : Push(b, size)
    /\ cbuf' = cbuf
    /\ \A k \in Clients : cpc'[k] = "live" => cpc[k] = "live"

LEMMA RingStepKinds ==
    ASSUME IInv, [Next]_vars
    PROVE  Silent \/ Pushes \/ \E k \in Clients : Resume(k)
<1> USE DEF IInv
<1>1. CASE RemoveBuffer
  BY <1>1 DEF RemoveBuffer, buffer, client, Silent
<1>2. CASE Cancel
  BY <1>2 DEF Cancel, buffer, client, Silent
<1>3. ASSUME NEW r \in Runs, Begin(r) \/ GiveUp(r) \/ Track(r) \/ Open(r) \/ Store(r) \/ Throw(r)
      PROVE  Silent
  BY <1>3 DEF Begin, GiveUp, Track, Open, Store, Throw, buffer, client, Silent
<1>4. ASSUME NEW r \in Runs, Emit(r) PROVE Pushes
  <2>1. buf[r] \in Buffers
    BY <1>4 DEF Emit, Shape
  <2> QED
    BY <1>4, <2>1 DEF Emit, Pushes
<1>5. ASSUME NEW r \in Runs, Answer(r) PROVE Silent \/ Pushes
  <2>1. CASE UNCHANGED <<events, bytes, sequence, next>>
    BY <1>5, <2>1 DEF Answer, Silent
  <2>2. CASE buf[r] # NoBuffer /\ \E size \in EventSizes : Push(buf[r], size)
    <3>1. buf[r] \in Buffers
      BY <2>2 DEF Shape
    <3> QED
      BY <1>5, <2>2, <3>1 DEF Answer, Pushes
  <2> QED
    BY <1>5, <2>1, <2>2 DEF Answer
<1>6. ASSUME NEW r \in Runs, End(r) PROVE Pushes
  <2>1. rpc[r] \in Closing /\ cbuf' = cbuf /\ \E size \in EventSizes : Push(buf[r], size)
    BY <1>6 DEF End
  <2>2. buf[r] \in Buffers
    BY <2>1 DEF Shape, Holding
  <2>3. \A k \in Clients : cpc'[k] = "live" => cpc[k] = "live"
    BY <1>6 DEF End, SignalDone
  <2> QED
    BY <2>1, <2>2, <2>3 DEF Pushes
<1>7. ASSUME NEW r \in Runs, Fail(r) PROVE Silent
  BY <1>7 DEF Fail, SignalError, Silent
<1>8. ASSUME NEW k \in Clients, Connect(k) \/ WaitForBuffer(k) \/ Disconnect(k)
      PROVE  Silent
  BY <1>8 DEF Connect, WaitForBuffer, Disconnect, buffer, Silent, Shape
<1>9. CASE UNCHANGED vars
  BY <1>9 DEF vars, Silent
<1> QED
  BY <1>1, <1>2, <1>3, <1>4, <1>5, <1>6, <1>7, <1>8, <1>9 DEF Next

LEMMA SlotTypes ==
    ASSUME IInv, RingTypes, [Next]_vars
    PROVE  slot' \in Runs \cup {NoRun} /\ stopped' \in SUBSET Runs
<1> USE DEF RingTypes
<1>1. CASE RemoveBuffer
  BY <1>1 DEF RemoveBuffer, run
<1>2. CASE Cancel
  BY <1>2 DEF Cancel, Abort, Active
<1>3. ASSUME NEW r \in Runs, Begin(r) \/ GiveUp(r) \/ Track(r) \/ Open(r) \/ Store(r) \/ Throw(r)
      PROVE  slot' \in Runs \cup {NoRun} /\ stopped' \in SUBSET Runs
  BY <1>3 DEF Begin, GiveUp, Track, Open, Store, Throw, Abort, Active
<1>4. ASSUME NEW r \in Runs, Emit(r) \/ Answer(r)
      PROVE  slot' \in Runs \cup {NoRun} /\ stopped' \in SUBSET Runs
  BY <1>4 DEF Emit, Answer, run
<1>5. ASSUME NEW r \in Runs, End(r) \/ Fail(r)
      PROVE  slot' \in Runs \cup {NoRun} /\ stopped' \in SUBSET Runs
  BY <1>5 DEF End, Fail, Forget
<1>6. ASSUME NEW k \in Clients, Connect(k) \/ WaitForBuffer(k) \/ Resume(k) \/ Disconnect(k)
      PROVE  slot' \in Runs \cup {NoRun} /\ stopped' \in SUBSET Runs
  BY <1>6 DEF Connect, WaitForBuffer, Resume, Disconnect, run
<1>7. CASE UNCHANGED vars
  BY <1>7 DEF vars
<1> QED
  BY <1>1, <1>2, <1>3, <1>4, <1>5, <1>6, <1>7 DEF Next

(* What a replay leaves a client with: a place right after the last event. *)
LEMMA ReplayedPlace ==
    ASSUME Shape, Reading, RingTypes, RingSound, NEW k \in Clients, Resume(k)
    PROVE  /\ next' \in [Clients -> Nat]
           /\ \/ next'[k] = sequence[cbuf[k]]
              \/ events[cbuf[k]] = <<>> /\ next'[k] = 0
<1> DEFINE b == cbuf[k]
           ring == events[b]
           place == IF ring = <<>> THEN 0 ELSE Last(ring).sequence + 1
<1>1. b \in Buffers
  BY DEF Resume, Reading
<1>2. next' = [next EXCEPT ![k] = place]
  BY DEF Resume, Replay
<1>3. ring \in Seq(Event) /\ sequence[b] \in Nat
  BY <1>1 DEF RingTypes
<1>4. ring # <<>> => place = sequence[b]
  <2> SUFFICES ASSUME ring # <<>> PROVE place = sequence[b]
    OBVIOUS
  <2>1. Len(ring) \in DOMAIN ring /\ Len(ring) \in Nat
    BY <1>3, LenProperties, EmptySeq
  <2>2. ring[Len(ring)].sequence = sequence[b] - Len(ring) + Len(ring) - 1
    BY <1>1, <2>1 DEF RingSound
  <2>3. \A q, l \in Nat : q - l + l - 1 + 1 = q
    OBVIOUS
  <2>4. place = ring[Len(ring)].sequence + 1
    BY DEF Last
  <2>5. place = sequence[b] - Len(ring) + Len(ring) - 1 + 1
    BY <2>2, <2>4
  <2> HIDE DEF place, ring
  <2>6. sequence[b] - Len(ring) + Len(ring) - 1 + 1 = sequence[b]
    BY <1>3, <2>1, <2>3
  <2> QED
    BY <2>5, <2>6
<1>5. place \in Nat
  BY <1>3, <1>4
<1> HIDE DEF place
<1>6. next' \in [Clients -> Nat] /\ next'[k] = place
  BY <1>2, <1>5 DEF RingTypes
<1> QED
  BY <1>4, <1>6 DEF place

LEMMA RingStep == IInv /\ RingInv /\ [Next]_vars => RingInv'
<1> SUFFICES ASSUME IInv, RingInv, [Next]_vars PROVE RingInv'
  OBVIOUS
<1>0. Shape /\ Reading /\ RingTypes /\ RingSound /\ LiveSeesLatest
  BY DEF IInv, RingInv
<1>1. slot' \in Runs \cup {NoRun} /\ stopped' \in SUBSET Runs
  BY <1>0, SlotTypes
<1>2. CASE Silent
  <2>1. UNCHANGED <<events, bytes, sequence, next>>
    BY <1>2 DEF Silent
  <2>2. RingTypes'
    BY <1>0, <1>1, <2>1 DEF RingTypes
  <2>3. RingSound'
    BY <1>0, <2>1 DEF RingSound, Size
  <2>4. LiveSeesLatest'
    BY <1>0, <1>2, <2>1 DEF Silent, LiveSeesLatest
  <2> QED
    BY <2>2, <2>3, <2>4 DEF RingInv
<1>3. CASE Pushes
  <2>1. PICK b \in Buffers, size \in EventSizes : Push(b, size)
    BY <1>3 DEF Pushes
  <2>2. /\ events' \in [Buffers -> Seq(Event)] /\ bytes' \in [Buffers -> Nat]
        /\ sequence' \in [Buffers -> Nat] /\ next' \in [Clients -> Nat]
        /\ RingSound'
    BY <1>0, <2>1, PushRing
  <2>3. RingTypes'
    BY <1>1, <2>2 DEF RingTypes
  <2>4. /\ events' = [events EXCEPT ![b] = events'[b]]
        /\ sequence' = [sequence EXCEPT ![b] = sequence[b] + 1]
    BY <1>0, <2>1, PushedRing
  <2>5. next' = [k \in Clients |-> IF k \in Listeners(b) THEN sequence[b] + 1 ELSE next[k]]
    BY <2>1 DEF Push
  <2>6. ASSUME NEW k \in Clients, cpc'[k] = "live"
        PROVE  \/ next'[k] = sequence'[cbuf'[k]]
               \/ events'[cbuf'[k]] = <<>> /\ next'[k] = 0
    <3>1. cpc[k] = "live" /\ cbuf'[k] = cbuf[k] /\ cbuf[k] \in Buffers
      BY <1>0, <1>3, <2>6 DEF Pushes, Reading
    <3>2. CASE cbuf[k] = b
      <4>1. k \in Listeners(b)
        BY <3>1, <3>2 DEF Listeners
      <4>2. next'[k] = sequence[b] + 1 /\ sequence'[b] = sequence[b] + 1
        BY <1>0, <2>4, <2>5, <4>1 DEF RingTypes
      <4> QED
        BY <3>1, <3>2, <4>2
    <3>3. CASE cbuf[k] # b
      <4>1. next'[k] = next[k]
        BY <2>5, <3>3 DEF Listeners
      <4>2. sequence'[cbuf[k]] = sequence[cbuf[k]] /\ events'[cbuf[k]] = events[cbuf[k]]
        BY <1>0, <2>4, <3>1, <3>3 DEF RingTypes
      <4> QED
        BY <1>0, <3>1, <4>1, <4>2 DEF LiveSeesLatest
    <3> QED
      BY <3>2, <3>3
  <2>7. LiveSeesLatest'
    BY <2>6 DEF LiveSeesLatest
  <2> QED
    BY <2>2, <2>3, <2>7 DEF RingInv
<1>4. ASSUME NEW k \in Clients, Resume(k) PROVE RingInv'
  <2>1. UNCHANGED <<events, bytes, sequence>>
    BY <1>4 DEF Resume, buffer
  <2>2. /\ next' \in [Clients -> Nat]
        /\ \/ next'[k] = sequence[cbuf[k]]
           \/ events[cbuf[k]] = <<>> /\ next'[k] = 0
    BY <1>0, <1>4, ReplayedPlace
  <2>3. RingTypes'
    BY <1>0, <1>1, <2>1, <2>2 DEF RingTypes
  <2>4. RingSound'
    BY <1>0, <2>1 DEF RingSound, Size
  <2>5. /\ \A c \in Clients \ {k} : cpc'[c] = cpc[c] /\ cbuf'[c] = cbuf[c] /\ next'[c] = next[c]
        /\ cpc'[k] = "live" => cbuf'[k] = cbuf[k]
    BY <1>0, <1>4 DEF Resume, Replay, Shape, RingTypes
  <2>6. LiveSeesLatest'
    BY <1>0, <2>1, <2>2, <2>5 DEF LiveSeesLatest
  <2> QED
    BY <2>3, <2>4, <2>6 DEF RingInv
<1> QED
  BY <1>2, <1>3, <1>4, RingStepKinds

LEMMA RingInit == Init => RingInv
<1> SUFFICES ASSUME Init PROVE RingInv
  OBVIOUS
<1>1. RingTypes
  <2>1. <<>> \in Seq(Event)
    BY EmptySeq
  <2> QED
    BY <2>1 DEF Init, RingTypes
<1>2. Size(<<>>) = 0
  BY SumEmpty DEF Size, SumFunction
<1>3. RingSound
  <2>1. Len(<<>>) = 0 /\ DOMAIN <<>> = {}
    OBVIOUS
  <2> QED
    BY <1>2, <2>1, LimitsAssumption DEF Init, RingSound
<1>4. LiveSeesLatest
  BY DEF Init, LiveSeesLatest
<1> QED
  BY <1>1, <1>3, <1>4 DEF RingInv

-----------------------------------------------------------------------------
LEMMA Inductive == Spec => []IInv
BY InvInit, InvStep, PTL DEF Spec

LEMMA RingInductive == Spec => []RingInv
BY Inductive, RingInit, RingStep, PTL DEF Spec

(* Types of the buffers, the runs and the clients.                         *)
THEOREM TypesHold == Spec => []TypeOK
<1>1. IInv /\ RingInv => TypeOK
  BY DEF IInv, RingInv, Shape, RingTypes, TypeOK, ErrorMessages
<1> QED
  BY <1>1, Inductive, RingInductive, PTL

(* Every ring is within both limits, its byte account is exact, and it      *)
(* holds the latest events without a gap, for any limits and event sizes    *)
(* (StreamBuffer.append, src/generation/stream-buffer.ts).                  *)
THEOREM RingsAreSound == Spec => []RingSound
<1>1. RingInv => RingSound
  BY DEF RingInv
<1> QED
  BY <1>1, RingInductive, PTL

(* A subscribed client was sent everything up to the latest event: nothing  *)
(* falls between its replay and its subscription.                           *)
THEOREM SubscribersUpToDate == Spec => []LiveSeesLatest
<1>1. RingInv => LiveSeesLatest
  BY DEF RingInv
<1> QED
  BY <1>1, RingInductive, PTL

(* No client is ever subscribed to a buffer that is done, or failed with a  *)
(* message: an empty message is the one signal a client can miss for good.  *)
THEOREM NoListenerLeftBehind == Spec => []NoListenerOnFinished
<1>1. IInv => NoListenerOnFinished
  BY DEF IInv
<1> QED
  BY <1>1, Inductive, PTL

(* The listeners of the chat's current buffer are owed a signal by a run    *)
(* that has not ended: only a buffer out of the store, or one that failed   *)
(* without a message, can strand them.                                      *)
THEOREM ListenersTended == Spec => []StoredListenersTended
<1>1. IInv => StoredListenersTended
  BY AbsentAssumption DEF IInv, StoredListenersTended, StoredTended,
                          NoListenerOnFinished, Reading
<1> QED
  BY <1>1, Inductive, PTL

(* No buffer stays in the store for ever: a timer is set or will be.        *)
THEOREM BuffersAreCleaned == Spec => []StoreWillBeCleaned
<1>1. IInv => StoreWillBeCleaned
  BY DEF IInv
<1> QED
  BY <1>1, Inductive, PTL

=============================================================================
