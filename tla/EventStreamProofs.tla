-------------------------- MODULE EventStreamProofs --------------------------
(***************************************************************************)
(* Proof that whoever subscribes misses no event and gets those of one     *)
(* emitter in order, for any connections, emitters, limits and buffer.     *)
(***************************************************************************)
EXTENDS EventStream, TLAPS

\* An emitter with an event under way is the one that published it, and has
\* published nothing since.
EmissionsLatest ==
    \A e \in Emitters : emit[e].stage # "none" =>
        /\ emit[e].seq \in 1..CurrentSeq
        /\ published[emit[e].seq] = e
        /\ \A n \in 1..CurrentSeq : published[n] = e => n <= emit[e].seq

\* The store worker has one call of each emitter that waits for it.
Distinct(s) == \A i, j \in 1..Len(s) : s[i] = s[j] => i = j
QueueExact ==
    /\ Distinct(storeQueue)
    /\ \A e \in Emitters :
            Contains(storeQueue, e) => emit[e].stage = "store" /\ emit[e].calls >= 1

\* The replay buffer holds, in order, every event from its first one on, except
\* those that failed their schema.
Ascending(s) == \A i, j \in 1..Len(s) : i < j => s[i] < s[j]
BufferComplete ==
    /\ Ascending(events)
    /\ \A i \in 1..Len(events) : events[i] <= CurrentSeq
    /\ \A n \in 1..CurrentSeq :
            n >= FirstSeq => n \in dropped \/ \E i \in 1..Len(events) : events[i] = n

\* Nothing is sent to a connection that has not subscribed.
Quiet == \A c \in Connections : ~subscribed[c] => frames[c] = <<>> /\ writing[c].what # "event"

\* What a connection has on its way, the frames behind the one that is written
\* behind what was received, are published events, those of an emitter in order.
Before(m, n) == published[m] = published[n] => m <= n
Ordered(g, f, w) ==
    /\ \A i \in 1..Len(g) : g[i] <= CurrentSeq
    /\ \A i \in 1..Len(f) : f[i] <= CurrentSeq
    /\ \A i, j \in 1..Len(g) : i < j => Before(g[i], g[j])
    /\ \A i, j \in 1..Len(f) : i < j => Before(f[i], f[j])
    /\ \A i \in 1..Len(g), j \in 1..Len(f) : Before(g[i], f[j])
    /\ w.what = "event" =>
        /\ w.seq \in 1..CurrentSeq
        /\ \A i \in 1..Len(g) : Before(g[i], w.seq)
        /\ \A i \in 1..Len(f) : Before(w.seq, f[i])
Flow(c) == Ordered(got[c], frames[c], writing[c])
FlowInOrder == \A c \in Connections : Flow(c)

Numbers == EmissionsLatest /\ QueueExact /\ BufferComplete
IInv == TypeOK /\ Numbers /\ Quiet /\ FlowInOrder /\ NothingMissed

LEMMA Appended ==
    ASSUME NEW S, NEW s \in Seq(S), NEW x \in S
    PROVE  /\ Append(s, x) \in Seq(S)
           /\ Len(s) \in Nat /\ Len(Append(s, x)) = Len(s) + 1
           /\ \A i \in 1..Len(s) : Append(s, x)[i] = s[i]
           /\ Append(s, x)[Len(s) + 1] = x
OBVIOUS

LEMMA Beheaded ==
    ASSUME NEW S, NEW s \in Seq(S), s # <<>>
    PROVE  /\ Head(s) \in S /\ Head(s) = s[1]
           /\ Tail(s) \in Seq(S)
           /\ Len(s) \in Nat \ {0} /\ Len(Tail(s)) = Len(s) - 1
           /\ \A i \in 1..Len(s) - 1 : Tail(s)[i] = s[i + 1]
OBVIOUS

LEMMA Elements ==
    ASSUME NEW S, NEW s \in Seq(S)
    PROVE  /\ Len(s) \in Nat /\ \A i \in 1..Len(s) : s[i] \in S
           /\ s # <<>> <=> Len(s) > 0
           /\ s # <<>> => Head(s) = s[1]
OBVIOUS

LEMMA AppendContains ==
    ASSUME NEW S, NEW s \in Seq(S), NEW x
    PROVE  \A y : Contains(Append(s, x), y) <=> Contains(s, y) \/ y = x
<1>0. s \in Seq(S \cup {x}) /\ x \in S \cup {x}
  OBVIOUS
<1>1. /\ Len(s) \in Nat /\ Len(Append(s, x)) = Len(s) + 1
      /\ \A i \in 1..Len(s) : Append(s, x)[i] = s[i]
      /\ Append(s, x)[Len(s) + 1] = x
  BY <1>0, Appended
<1>2. \A i \in 1..Len(s) + 1 : i \in 1..Len(s) \/ i = Len(s) + 1
  BY <1>1
<1>3. 1..Len(s) \subseteq 1..Len(s) + 1 /\ Len(s) + 1 \in 1..Len(s) + 1
  BY <1>1
<1> QED BY <1>1, <1>2, <1>3 DEF Contains

LEMMA TailContains ==
    ASSUME NEW S, NEW s \in Seq(S), s # <<>>
    PROVE  \A y : Contains(s, y) <=> Contains(Tail(s), y) \/ y = Head(s)
<1>1. /\ Head(s) = s[1]
      /\ Len(s) \in Nat \ {0} /\ Len(Tail(s)) = Len(s) - 1
      /\ \A i \in 1..Len(s) - 1 : Tail(s)[i] = s[i + 1]
  BY Beheaded
<1>2. \A i \in 1..Len(s) - 1 : i + 1 \in 1..Len(s)
  BY <1>1
<1>3. \A i \in 1..Len(s) : i = 1 \/ (i - 1 \in 1..Len(s) - 1 /\ i - 1 + 1 = i)
  BY <1>1
<1>4. 1 \in 1..Len(s)
  BY <1>1
<1>5. ASSUME NEW y, Contains(s, y) PROVE Contains(Tail(s), y) \/ y = Head(s)
  BY <1>1, <1>3, <1>5 DEF Contains
<1>6. ASSUME NEW y, Contains(Tail(s), y) \/ y = Head(s) PROVE Contains(s, y)
  BY <1>1, <1>2, <1>4, <1>6 DEF Contains
<1> QED BY <1>5, <1>6

LEMMA AppendDistinct ==
    ASSUME NEW S, NEW s \in Seq(S), NEW x \in S, Distinct(s), ~Contains(s, x)
    PROVE  Distinct(Append(s, x))
<1>1. /\ Len(s) \in Nat /\ Len(Append(s, x)) = Len(s) + 1
      /\ \A i \in 1..Len(s) : Append(s, x)[i] = s[i]
      /\ Append(s, x)[Len(s) + 1] = x
  BY Appended
<1>2. \A i \in 1..Len(s) + 1 : i \in 1..Len(s) \/ i = Len(s) + 1
  BY <1>1
<1> QED BY <1>1, <1>2 DEF Contains, Distinct

LEMMA TailDistinct ==
    ASSUME NEW S, NEW s \in Seq(S), s # <<>>, Distinct(s)
    PROVE  Distinct(Tail(s)) /\ ~Contains(Tail(s), Head(s))
<1>1. /\ Head(s) = s[1]
      /\ Len(s) \in Nat \ {0} /\ Len(Tail(s)) = Len(s) - 1
      /\ \A i \in 1..Len(s) - 1 : Tail(s)[i] = s[i + 1]
  BY Beheaded
<1>2. \A i \in 1..Len(s) - 1 : i + 1 \in 1..Len(s) /\ i + 1 # 1
  BY <1>1
<1>3. \A i, j \in 1..Len(s) - 1 : i + 1 = j + 1 => i = j
  BY <1>1
<1>4. 1 \in 1..Len(s)
  BY <1>1
<1> QED BY <1>1, <1>2, <1>3, <1>4 DEF Contains, Distinct

\* The buffer is one longer, or loses its first event.
LEMMA Retaining ==
    ASSUME TypeOK, NEW n \in 1..MaxEvents
    PROVE  LET kept == Retain(Append(events, n))
           IN  /\ kept \in Seq(1..MaxEvents) /\ Len(kept) <= Retained /\ Len(kept) > 0
               /\ \/ /\ Len(kept) = Len(events) + 1
                     /\ \A i \in 1..Len(events) : kept[i] = events[i]
                  \/ /\ Len(kept) = Len(events) /\ Len(events) > 0
                     /\ \A i \in 1..Len(events) - 1 : kept[i] = events[i + 1]
               /\ kept[Len(kept)] = n
<1> DEFINE long == Append(events, n)
<1>1. events \in Seq(1..MaxEvents) /\ Len(events) <= Retained /\ Retained \in Nat \ {0}
  BY LimitsAssumption DEF TypeOK
<1>2. /\ long \in Seq(1..MaxEvents)
      /\ Len(events) \in Nat /\ Len(long) = Len(events) + 1
      /\ \A i \in 1..Len(events) : long[i] = events[i]
      /\ long[Len(events) + 1] = n
  BY <1>1, Appended
<1> HIDE DEF long
<1>3. CASE Len(long) > Retained
  <2>1. /\ Tail(long) \in Seq(1..MaxEvents) /\ Len(Tail(long)) = Len(events)
        /\ \A i \in 1..Len(events) : Tail(long)[i] = long[i + 1]
    <3>1. long # <<>>
      BY <1>2
    <3> QED BY <1>2, <3>1, Beheaded
  <2>2. Len(events) > 0
    BY <1>1, <1>2, <1>3
  <2>3. \A i \in 1..Len(events) - 1 : i + 1 \in 1..Len(events)
    BY <1>2
  <2>4. Len(events) \in 1..Len(events)
    BY <1>2, <2>2
  <2> QED BY <1>1, <1>2, <1>3, <2>1, <2>2, <2>3, <2>4 DEF Retain, long
<1>4. CASE ~(Len(long) > Retained)
  BY <1>1, <1>2, <1>4 DEF Retain, long
<1> QED BY <1>3, <1>4

LEMMA InitIInv == Init => IInv
<1> SUFFICES ASSUME Init PROVE IInv
  OBVIOUS
<1>1. TypeOK
  BY EmittersAssumption, LimitsAssumption
     DEF Init, TypeOK, Emission, NoEmission, Frame, Plain, Emitters
<1>2. Numbers
  BY DEF Init, Numbers, EmissionsLatest, QueueExact, Distinct, Contains,
         BufferComplete, Ascending, NoEmission, CurrentSeq
<1>3. Quiet /\ FlowInOrder /\ NothingMissed
  BY DEF Init, Quiet, FlowInOrder, Flow, Ordered, NothingMissed, Plain, Listens
<1> QED BY <1>1, <1>2, <1>3 DEF IInv

\* The worker's step: the head of the queue goes to its end, or leaves it.
LEMMA Worked ==
    ASSUME TypeOK, QueueExact, StoreStep
    PROVE  LET e == Head(storeQueue)
           IN  /\ e \in Emitters /\ emit[e].stage = "store"
               /\ emit' \in [Emitters -> Emission]
               /\ \A f \in Emitters \ {e} : emit'[f] = emit[f]
               /\ emit'[e].seq = emit[e].seq /\ emit'[e].stage \in {"store", "ready"}
               /\ storeQueue' \in Seq(Emitters)
               /\ QueueExact'
<1> DEFINE e == Head(storeQueue)
           more == emit[e].calls > 1 /\ ~cancelled[e]
           stage == IF more THEN "store" ELSE "ready"
           rest == Tail(storeQueue)
<1>1. storeQueue \in Seq(Emitters) /\ storeQueue # <<>> /\ emit \in [Emitters -> Emission]
  BY DEF TypeOK, StoreStep
<1>2. e \in Emitters /\ rest \in Seq(Emitters)
  BY <1>1, Beheaded
<1>3. /\ Distinct(rest) /\ ~Contains(rest, e)
      /\ \A f : Contains(storeQueue, f) <=> Contains(rest, f) \/ f = e
  BY <1>1, TailDistinct, TailContains DEF QueueExact
<1>4. emit[e] \in Emission /\ emit[e].stage = "store" /\ emit[e].calls \in Nat \ {0}
  <2>1. emit[e] \in Emission /\ emit[e].calls \in Nat
    BY <1>1, <1>2 DEF Emission
  <2> QED BY <1>2, <1>3, <2>1 DEF QueueExact
<1> DEFINE new == [emit[e] EXCEPT !.calls = emit[e].calls - 1, !.stage = stage]
<1>5. emit' = [emit EXCEPT ![e] = new]
  BY <1>1, <1>2 DEF StoreStep
<1>6. /\ new \in Emission /\ new.seq = emit[e].seq /\ new.stage = stage
      /\ new.calls = emit[e].calls - 1
  <2> DEFINE m == emit[e]
             n == emit[e].calls - 1
  <2>1. m \in Emission /\ n \in Nat /\ stage \in {"store", "ready"}
    BY <1>4
  <2> HIDE DEF m, n, stage
  <2>2. LET after == [m EXCEPT !.calls = n, !.stage = stage]
        IN  /\ after \in Emission
            /\ after.stage = stage /\ after.calls = n /\ after.seq = m.seq
    BY <2>1 DEF Emission
  <2> QED BY <2>2 DEF m, n
<1>7. storeQueue' = IF more THEN Append(rest, e) ELSE rest
  BY DEF StoreStep
<1>8. more => new.stage = "store" /\ new.calls >= 1
  BY <1>4, <1>6
<1>9. new.stage \in {"store", "ready"}
  BY <1>6
<1> HIDE DEF new, e, more, stage, rest
<1>10. /\ emit' \in [Emitters -> Emission] /\ emit'[e] = new
       /\ \A f \in Emitters \ {e} : emit'[f] = emit[f]
  BY <1>1, <1>2, <1>5, <1>6
<1>11. QueueExact' /\ storeQueue' \in Seq(Emitters)
  <2>1. CASE ~more
    BY <1>2, <1>3, <1>7, <1>10, <2>1 DEF QueueExact
  <2>2. CASE more
    <3>1. /\ storeQueue' \in Seq(Emitters) /\ Distinct(storeQueue')
          /\ \A f : Contains(storeQueue', f) <=> Contains(rest, f) \/ f = e
      BY <1>2, <1>3, <1>7, <2>2, Appended, AppendContains, AppendDistinct
    <3> QED BY <1>3, <1>8, <1>10, <2>2, <3>1 DEF QueueExact
  <2> QED BY <2>1, <2>2
<1> QED BY <1>2, <1>4, <1>6, <1>9, <1>10, <1>11 DEF e

\* A call that raises: its emitter leaves the queue and the event behind.
LEMMA WorkFailed ==
    ASSUME TypeOK, QueueExact, StoreFails
    PROVE  LET e == Head(storeQueue)
           IN  /\ e \in Emitters /\ emit[e].stage = "store"
               /\ emit' \in [Emitters -> Emission]
               /\ \A f \in Emitters \ {e} : emit'[f] = emit[f]
               /\ emit'[e] = NoEmission
               /\ dropped' = dropped \cup {emit[e].seq}
               /\ storeQueue' \in Seq(Emitters)
               /\ QueueExact'
<1> DEFINE e == Head(storeQueue)
           rest == Tail(storeQueue)
<1>1. storeQueue \in Seq(Emitters) /\ storeQueue # <<>> /\ emit \in [Emitters -> Emission]
  BY DEF TypeOK, StoreFails
<1>2. e \in Emitters /\ rest \in Seq(Emitters)
  BY <1>1, Beheaded
<1>3. /\ Distinct(rest) /\ ~Contains(rest, e)
      /\ \A f : Contains(storeQueue, f) <=> Contains(rest, f) \/ f = e
  BY <1>1, TailDistinct, TailContains DEF QueueExact
<1>4. /\ emit' = [emit EXCEPT ![e] = NoEmission] /\ storeQueue' = rest
      /\ dropped' = dropped \cup {emit[e].seq}
  BY DEF StoreFails
<1>5. emit[e].stage = "store"
  BY <1>2, <1>3 DEF QueueExact
<1>6. NoEmission \in Emission
  BY LimitsAssumption DEF NoEmission, Emission
<1> HIDE DEF e, rest
<1>7. /\ emit' \in [Emitters -> Emission] /\ emit'[e] = NoEmission
      /\ \A f \in Emitters \ {e} : emit'[f] = emit[f]
  BY <1>1, <1>2, <1>4, <1>6
<1>8. QueueExact'
  BY <1>3, <1>4, <1>7 DEF QueueExact
<1> QED BY <1>2, <1>4, <1>5, <1>7, <1>8 DEF e

LEMMA ConnectionTyped ==
    ASSUME TypeOK, NEW c \in Connections
    PROVE  /\ c \in Emitters
           /\ frames[c] \in Seq(1..MaxEvents) /\ got[c] \in Seq(1..MaxEvents)
           /\ replies[c] \in Seq({"reply", "reject"})
           /\ writing[c] \in Frame
BY DEF TypeOK, Emitters

LEMMA FramesTyped ==
    /\ \A what \in {"none", "gone", "lost", "reply", "reject"} :
            Plain(what) \in Frame /\ Plain(what).what = what
    /\ \A n \in 0..MaxEvents :
            Event(n) \in Frame /\ Event(n).what = "event" /\ Event(n).seq = n
<1>1. 0 \in 0..MaxEvents
  BY LimitsAssumption
<1> QED BY <1>1 DEF Frame, Plain, Event

\* The first of a queue of responses and the rest of it, or what an ended
\* request leaves in it.
LEMMA RepliesTyped ==
    ASSUME NEW s \in Seq({"reply", "reject"})
    PROVE  /\ Append(s, "reply") \in Seq({"reply", "reject"})
           /\ Append(s, "reject") \in Seq({"reply", "reject"})
           /\ <<>> \in Seq({"reply", "reject"}) /\ <<"reject">> \in Seq({"reply", "reject"})
           /\ s # <<>> => Head(s) \in {"reply", "reject"} /\ Tail(s) \in Seq({"reply", "reject"})
OBVIOUS

LEMMA PublishTyped == ASSUME TypeOK, NEW e \in Emitters, Publish(e) PROVE TypeOK'
<1>1. CurrentSeq + 1 \in 1..MaxEvents /\ published \in Seq(Emitters)
  BY LimitsAssumption DEF Publish, MayEmit, CurrentSeq, TypeOK
<1>2. published' \in Seq(Emitters) /\ Len(published') <= MaxEvents
  BY <1>1, Appended DEF Publish, CurrentSeq
<1>3. events' \in Seq(1..MaxEvents) /\ Len(events') <= Retained
  BY <1>1, Retaining DEF Publish
<1>4. emit' \in [Emitters -> Emission] /\ storeQueue' \in Seq(Emitters)
  <2>1. PICK n \in StoreCalls :
          /\ emit' = [emit EXCEPT ![e] = [stage |-> IF n = 0 THEN "ready" ELSE "store",
                                          seq |-> CurrentSeq + 1, calls |-> n]]
          /\ storeQueue' = IF n = 0 THEN storeQueue ELSE Append(storeQueue, e)
    BY DEF Publish
  <2>2. [stage |-> IF n = 0 THEN "ready" ELSE "store", seq |-> CurrentSeq + 1, calls |-> n] \in Emission
    BY <1>1, LimitsAssumption DEF Emission
  <2>3. storeQueue \in Seq(Emitters) /\ emit \in [Emitters -> Emission]
    BY DEF TypeOK
  <2> QED BY <2>1, <2>2, <2>3, Appended
<1> QED
  BY <1>2, <1>3, <1>4 DEF TypeOK, Publish, reading, closing, client, queues

LEMMA StartCloseTyped ==
    ASSUME TypeOK, NEW C \in SUBSET Connections, NEW by \in Emitters \cup {"writer"}, StartClose(C, by)
    PROVE  /\ phase' \in [Connections -> {"open", "closing", "closed", "mute"}]
           /\ closer' \in [Connections -> Emitters \cup {"writer", Nobody}]
           /\ waits' \in [Connections -> BOOLEAN]
           /\ cancelled' \in [Emitters -> BOOLEAN]
BY DEF TypeOK, StartClose

\* What Deliver does for the set of connections that the event reaches.
LEMMA DeliverTyped == ASSUME TypeOK, EmissionsLatest, NEW e \in Emitters, Deliver(e) PROVE TypeOK'
<1>1. PICK reached \in Reaches(e) :
        LET full == {c \in reached : Full(c)}
            open == {c \in reached : Listens(c)} \ full
        IN  /\ StartClose(full, e)
            /\ frames' = [c \in Connections |->
                    IF c \in open THEN Append(frames[c], emit[e].seq) ELSE frames[c]]
            /\ dropped' = IF reached = Connections THEN dropped ELSE dropped \cup {emit[e].seq}
            /\ emit' = [emit EXCEPT ![e] =
                    IF full = {} THEN NoEmission ELSE [@ EXCEPT !.stage = "closing"]]
  BY DEF Deliver
<1>2. reached \in SUBSET Connections
  BY DEF Reaches
<1>3. emit[e] \in Emission /\ emit[e].seq \in 1..MaxEvents /\ emit \in [Emitters -> Emission]
  <2>1. published \in Seq(Emitters) /\ Len(published) <= MaxEvents
    BY DEF TypeOK
  <2>2. emit[e].seq \in 1..Len(published)
    BY DEF Deliver, MaySend, EmissionsLatest, CurrentSeq
  <2> QED BY <2>1, <2>2, LimitsAssumption DEF TypeOK
<1> DEFINE full == {c \in reached : Full(c)}
           seq == emit[e].seq
<1>4. StartClose(full, e) /\ full \in SUBSET Connections
  BY <1>1, <1>2
<1>5. frames' \in [Connections -> Seq(1..MaxEvents)]
  <2>1. \A c \in Connections : frames[c] \in Seq(1..MaxEvents) /\ Append(frames[c], seq) \in Seq(1..MaxEvents)
    BY <1>3, ConnectionTyped, Appended
  <2> QED BY <1>1, <2>1
<1>6. dropped' \subseteq 1..MaxEvents
  BY <1>1, <1>3 DEF TypeOK
<1>7. emit' \in [Emitters -> Emission]
  <2>1. NoEmission \in Emission
    BY LimitsAssumption DEF NoEmission, Emission
  <2>2. [emit[e] EXCEPT !.stage = "closing"] \in Emission
    BY <1>3 DEF Emission
  <2>3. emit' = [emit EXCEPT ![e] =
                    IF full = {} THEN NoEmission ELSE [emit[e] EXCEPT !.stage = "closing"]]
    BY <1>1, <1>3
  <2> HIDE DEF full
  <2> QED BY <1>3, <2>1, <2>2, <2>3
<1> QED
  BY <1>4, <1>5, <1>6, <1>7, StartCloseTyped DEF Deliver, TypeOK, reading, client

LEMMA EndRequestTyped ==
    ASSUME TypeOK, NEW c \in Connections, EndRequest(c)
    PROVE  /\ request' \in [Connections -> {"none", "working", "answering"}]
           /\ waits' \in [Connections -> BOOLEAN]
           /\ replies' \in [Connections -> Seq({"reply", "reject"})]
BY RepliesTyped, ConnectionTyped DEF TypeOK, EndRequest

LEMMA RaiseTyped ==
    ASSUME TypeOK, NEW e \in Emitters, Raise(e)
    PROVE  dropped' \subseteq 1..MaxEvents => TypeOK'
<1>1. NoEmission \in Emission
  BY LimitsAssumption DEF NoEmission, Emission
<1>2. CASE e \in Connections
  BY <1>1, <1>2, EndRequestTyped DEF Raise, TypeOK, client
<1>3. CASE e \notin Connections
  BY <1>1, <1>3 DEF Raise, TypeOK, client
<1> QED BY <1>2, <1>3

\* The replay buffer from a place in it on.
LEMMA TailEnd ==
    ASSUME NEW S, NEW s \in Seq(S), NEW first \in 1..Len(s) + 1
    PROVE  /\ SubSeq(s, first, Len(s)) \in Seq(S)
           /\ Len(SubSeq(s, first, Len(s))) = Len(s) + 1 - first
           /\ \A i \in 1..Len(s) + 1 - first : SubSeq(s, first, Len(s))[i] = s[first + i - 1]
<1>1. Len(s) \in Nat /\ first \in Nat \ {0} /\ first <= Len(s) + 1
  OBVIOUS
<1>2. \A i \in first..Len(s) : i \in 1..Len(s) /\ s[i] \in S
  BY <1>1
<1> QED BY <1>1, <1>2

LEMMA DiscardTyped ==
    ASSUME TypeOK, NEW c \in Connections, Discard(c)
    PROVE  /\ frames' \in [Connections -> Seq(1..MaxEvents)]
           /\ replies' \in [Connections -> Seq({"reply", "reject"})]
           /\ writing' \in [Connections -> Frame]
<1>1. Plain("lost") \in Frame /\ Plain("gone") \in Frame
  BY FramesTyped
<1> QED BY <1>1 DEF Discard, TypeOK

LEMMA NextTyped == IInv /\ [Next]_vars => TypeOK'
<1> SUFFICES ASSUME TypeOK, Numbers, FlowInOrder, [Next]_vars PROVE TypeOK'
  BY DEF IInv
<1>0. NoEmission \in Emission
  BY LimitsAssumption DEF NoEmission, Emission
<1> USE DEF emitting, reading, closing, client, queues
<1>1. ASSUME NEW e \in Emitters, Publish(e) PROVE TypeOK'
  BY <1>1, PublishTyped
<1>2. ASSUME NEW e \in Emitters, PublishInvalid(e) PROVE TypeOK'
  <2>1. CurrentSeq + 1 \in 1..MaxEvents /\ published \in Seq(Emitters)
    BY <1>2, LimitsAssumption DEF PublishInvalid, MayEmit, CurrentSeq, TypeOK
  <2>2. published' \in Seq(Emitters) /\ Len(published') <= MaxEvents
    BY <1>2, <2>1, Appended DEF PublishInvalid, CurrentSeq
  <2> QED BY <1>2, <2>1, <2>2 DEF PublishInvalid, TypeOK
<1>3. CASE StoreStep
  <2>1. emit' \in [Emitters -> Emission] /\ storeQueue' \in Seq(Emitters)
    <3>1. /\ Head(storeQueue) \in Emitters
          /\ emit' \in [Emitters -> Emission] /\ storeQueue' \in Seq(Emitters)
      BY <1>3, Worked DEF Numbers
    <3> QED BY <3>1
  <2> QED BY <1>3, <2>1 DEF StoreStep, TypeOK
<1>4. ASSUME NEW e \in Emitters, Deliver(e) PROVE TypeOK'
  BY <1>4, DeliverTyped DEF Numbers
<1>5. ASSUME NEW e \in Emitters, RaiseCancelled(e) PROVE TypeOK'
  <2>1. emit[e].stage = "ready" => emit[e].seq \in 1..MaxEvents
    BY LimitsAssumption DEF Numbers, EmissionsLatest, CurrentSeq, TypeOK
  <2>2. dropped' \subseteq 1..MaxEvents
    BY <1>5, <2>1 DEF RaiseCancelled, TypeOK
  <2> QED BY <1>5, <2>2, RaiseTyped DEF RaiseCancelled
<1>6. ASSUME NEW e \in Emitters, EmissionEnds(e) PROVE TypeOK'
  <2>1. CASE cancelled[e]
    BY <1>6, <2>1, RaiseTyped DEF EmissionEnds, TypeOK
  <2>2. CASE ~cancelled[e]
    BY <1>0, <1>6, <2>2 DEF EmissionEnds, TypeOK
  <2> QED BY <2>1, <2>2
<1>7. ASSUME NEW t \in Turns, CancelTurn(t) PROVE TypeOK'
  BY <1>7 DEF CancelTurn, TypeOK
<1>8. ASSUME NEW c \in Connections, CloseResumes(c) PROVE TypeOK'
  BY SMTT(30), <1>8, ConnectionTyped, FramesTyped DEF CloseResumes, Discard, RunAfterDiscard, TypeOK
<1>9. ASSUME NEW c \in Connections, AbortClose(c) PROVE TypeOK'
  BY <1>9 DEF AbortClose, TypeOK
<1>10. ASSUME NEW c \in Connections, Begin(c) \/ EndReading(c) PROVE TypeOK'
  BY <1>10, ConnectionTyped DEF Begin, EndReading, TypeOK
<1>11. ASSUME NEW c \in Connections, Finish(c) PROVE TypeOK'
  <2>1. CASE phase[c] = "open"
    <3>1. Append(replies[c], "reply") \in Seq({"reply", "reject"})
      BY ConnectionTyped, RepliesTyped
    <3> QED BY <1>11, <2>1, <3>1 DEF Finish, TypeOK
  <2>2. CASE phase[c] # "open"
    BY <1>11, <2>2, EndRequestTyped DEF Finish, TypeOK
  <2> QED BY <2>1, <2>2
<1>12. ASSUME NEW c \in Connections, Subscribe(c) PROVE TypeOK'
  <2>1. PICK after \in 0..CurrentSeq, sameServer \in BOOLEAN, first \in 1..Len(events) + 1 :
          LET complete == ReplayComplete(after, sameServer)
          IN  /\ \A i \in DOMAIN events : events[i] > after <=> i >= first
              /\ base' = [base EXCEPT ![c] = IF complete THEN after ELSE CurrentSeq]
              /\ got' = [got EXCEPT ![c] =
                    IF complete THEN SubSeq(events, first, Len(events)) ELSE <<>>]
    BY <1>12 DEF Subscribe
  <2>2. after \in 0..MaxEvents /\ CurrentSeq \in 0..MaxEvents
    BY LimitsAssumption DEF CurrentSeq, TypeOK
  <2>3. SubSeq(events, first, Len(events)) \in Seq(1..MaxEvents) /\ <<>> \in Seq(1..MaxEvents)
    <3>1. events \in Seq(1..MaxEvents)
      BY DEF TypeOK
    <3>2. SubSeq(events, first, Len(events)) \in Seq(1..MaxEvents)
      BY <3>1, TailEnd
    <3> QED BY <3>2
  <2>4. base' \in [Connections -> 0..MaxEvents] /\ got' \in [Connections -> Seq(1..MaxEvents)]
    BY <2>1, <2>2, <2>3 DEF TypeOK
  <2> QED BY <1>12, <2>4 DEF Subscribe, TypeOK
<1>13. ASSUME NEW c \in Connections, Reject(c) PROVE TypeOK'
  <2>1. Append(replies[c], "reject") \in Seq({"reply", "reject"})
    BY ConnectionTyped, RepliesTyped
  <2> QED BY <1>13, <2>1 DEF Reject, TypeOK
<1>14. ASSUME NEW c \in Connections, RunReturns(c) PROVE TypeOK'
  <2>1. Plain("lost") \in Frame /\ Plain("gone") \in Frame
    BY FramesTyped
  <2>2. CASE phase[c] = "open" \/ closer[c] = "writer"
    BY <1>14, <2>1, <2>2, DiscardTyped DEF RunReturns, TypeOK
  <2>3. CASE ~(phase[c] = "open" \/ closer[c] = "writer")
    BY <1>14, <2>1, <2>3 DEF RunReturns, TypeOK
  <2> QED BY <2>2, <2>3
<1>15. ASSUME NEW c \in Connections, StartWrite(c) PROVE TypeOK'
  <2>1. CASE replies[c] # <<>>
    <3>1. Plain(Head(replies[c])) \in Frame /\ Tail(replies[c]) \in Seq({"reply", "reject"})
      BY <2>1, ConnectionTyped, RepliesTyped, FramesTyped
    <3> QED BY <1>15, <2>1, <3>1 DEF StartWrite, TypeOK
  <2>2. CASE replies[c] = <<>>
    <3>0. frames[c] \in Seq(1..MaxEvents) /\ frames[c] # <<>>
      BY <1>15, <2>2, ConnectionTyped DEF StartWrite
    <3>1. Head(frames[c]) \in 1..MaxEvents /\ Tail(frames[c]) \in Seq(1..MaxEvents)
      BY <3>0, Beheaded
    <3>2. Event(Head(frames[c])) \in Frame
      BY <3>1, LimitsAssumption, FramesTyped
    <3> QED BY <1>15, <2>2, <3>1, <3>2 DEF StartWrite, TypeOK
  <2> QED BY <2>1, <2>2
<1>16. ASSUME NEW c \in Connections, Drained(c) PROVE TypeOK'
  <2>1. got' \in [Connections -> Seq(1..MaxEvents)]
    <3>1. writing[c].what = "event" => writing[c].seq \in 1..MaxEvents
      BY LimitsAssumption DEF FlowInOrder, Flow, Ordered, CurrentSeq, TypeOK
    <3>2. writing[c].what = "event" => Append(got[c], writing[c].seq) \in Seq(1..MaxEvents)
      BY <3>1, ConnectionTyped, Appended
    <3> QED BY <1>16, <3>2 DEF Drained, TypeOK
  <2>2. writing' \in [Connections -> Frame]
    BY <1>16, FramesTyped DEF Drained, TypeOK
  <2>3. /\ request' \in [Connections -> {"none", "working", "answering"}]
        /\ waits' \in [Connections -> BOOLEAN]
        /\ replies' \in [Connections -> Seq({"reply", "reject"})]
        /\ run' \in [Connections -> {"reading", "rejecting", "rejected", "ending", "returned"}]
    <3>1. run' \in [Connections -> {"reading", "rejecting", "rejected", "ending", "returned"}]
      BY <1>16 DEF Drained, FrameDone, TypeOK
    <3>2. CASE EndRequest(c)
      BY <3>1, <3>2, EndRequestTyped
    <3>3. CASE UNCHANGED <<request, replies, waits>>
      BY <3>1, <3>3 DEF TypeOK
    <3> QED BY <1>16, <3>2, <3>3 DEF Drained, FrameDone
  <2> QED BY <1>16, <2>1, <2>2, <2>3 DEF Drained, TypeOK
<1>17. ASSUME NEW c \in Connections, DrainFails(c) PROVE TypeOK'
  <2>1. /\ writing' \in [Connections -> Frame]
        /\ run' \in [Connections -> {"reading", "rejecting", "rejected", "ending", "returned"}]
    BY <1>17, FramesTyped DEF DrainFails, TypeOK
  <2>2. CASE phase[c] = "open"
    <3>1. /\ phase' \in [Connections -> {"open", "closing", "closed", "mute"}]
          /\ closer' \in [Connections -> Emitters \cup {"writer", Nobody}]
          /\ waits' \in [Connections -> BOOLEAN]
          /\ cancelled' \in [Emitters -> BOOLEAN]
      <4>1. StartClose({c}, "writer") /\ {c} \in SUBSET Connections
        BY <1>17, <2>2 DEF DrainFails
      <4> QED BY <4>1, StartCloseTyped
    <3> QED BY <1>17, <2>1, <3>1 DEF DrainFails, TypeOK
  <2>3. CASE phase[c] # "open"
    BY <1>17, <2>1, <2>3 DEF DrainFails, TypeOK
  <2> QED BY <2>2, <2>3
<1>18. CASE UNCHANGED vars
  BY <1>18 DEF vars, TypeOK
<1>19. CASE StoreFails
  <2>1. /\ Head(storeQueue) \in Emitters /\ emit[Head(storeQueue)].stage = "store"
        /\ emit' \in [Emitters -> Emission] /\ storeQueue' \in Seq(Emitters)
        /\ dropped' = dropped \cup {emit[Head(storeQueue)].seq}
    BY <1>19, WorkFailed DEF Numbers
  <2>2. emit[Head(storeQueue)].seq \in 1..MaxEvents
    BY <2>1, LimitsAssumption DEF Numbers, EmissionsLatest, CurrentSeq, TypeOK
  <2>3. dropped' \subseteq 1..MaxEvents
    BY <2>1, <2>2 DEF TypeOK
  <2> QED BY <1>19, <2>1, <2>3 DEF StoreFails, TypeOK
<1> QED
  BY <1>1, <1>2, <1>3, <1>4, <1>5, <1>6, <1>7, <1>8, <1>9, <1>10, <1>11, <1>12, <1>13, <1>14,
     <1>15, <1>16, <1>17, <1>18, <1>19 DEF Next

-----------------------------------------------------------------------------
(* Numbers: who published what, the store's queue and the replay buffer     *)

\* A published number and its publisher stay.
LEMMA PublishedGrows ==
    ASSUME TypeOK, NEW e \in Emitters, published' = Append(published, e)
    PROVE  /\ CurrentSeq \in Nat /\ CurrentSeq' = CurrentSeq + 1
           /\ \A n \in 1..CurrentSeq : published'[n] = published[n]
           /\ published'[CurrentSeq + 1] = e
BY Appended DEF TypeOK, CurrentSeq

LEMMA PublishNumbers == ASSUME TypeOK, Numbers, NEW e \in Emitters, Publish(e) PROVE Numbers'
<1>1. /\ CurrentSeq \in Nat /\ CurrentSeq' = CurrentSeq + 1
      /\ \A n \in 1..CurrentSeq : published'[n] = published[n]
      /\ published'[CurrentSeq + 1] = e
  BY PublishedGrows DEF Publish
<1>2. PICK k \in StoreCalls :
        /\ emit' = [emit EXCEPT ![e] = [stage |-> IF k = 0 THEN "ready" ELSE "store",
                                        seq |-> CurrentSeq + 1, calls |-> k]]
        /\ storeQueue' = IF k = 0 THEN storeQueue ELSE Append(storeQueue, e)
  BY DEF Publish
<1>3. /\ emit'[e] = [stage |-> IF k = 0 THEN "ready" ELSE "store", seq |-> CurrentSeq + 1, calls |-> k]
      /\ \A f \in Emitters \ {e} : emit'[f] = emit[f]
      /\ k \in Nat
  BY <1>2, LimitsAssumption DEF TypeOK
<1>4. EmissionsLatest'
  <2> SUFFICES ASSUME NEW f \in Emitters, emit'[f].stage # "none"
               PROVE  /\ emit'[f].seq \in 1..CurrentSeq'
                      /\ published'[emit'[f].seq] = f
                      /\ \A n \in 1..CurrentSeq' : published'[n] = f => n <= emit'[f].seq
    BY DEF EmissionsLatest
  <2>1. CASE f = e
    BY <1>1, <1>3, <2>1
  <2>2. CASE f # e
    <3>1. /\ emit[f].seq \in 1..CurrentSeq /\ published[emit[f].seq] = f
          /\ \A n \in 1..CurrentSeq : published[n] = f => n <= emit[f].seq
      BY <1>3, <2>2 DEF Numbers, EmissionsLatest
    <3>2. \A n \in 1..CurrentSeq + 1 : n \in 1..CurrentSeq \/ n = CurrentSeq + 1
      BY <1>1
    <3> QED BY <1>1, <1>3, <2>2, <3>1, <3>2
  <2> QED BY <2>1, <2>2
<1>5. QueueExact'
  <2>1. emit[e].stage = "none" /\ ~Contains(storeQueue, e)
    BY DEF Publish, MayEmit, Numbers, QueueExact
  <2>2. Distinct(storeQueue) /\ storeQueue \in Seq(Emitters)
    BY DEF Numbers, QueueExact, TypeOK
  <2>3. CASE k = 0
    BY <1>2, <1>3, <2>1, <2>2, <2>3 DEF Numbers, QueueExact
  <2>4. CASE k # 0
    <3>1. /\ Distinct(storeQueue')
          /\ \A f : Contains(storeQueue', f) <=> Contains(storeQueue, f) \/ f = e
      BY <1>2, <2>1, <2>2, <2>4, AppendContains, AppendDistinct
    <3>2. emit'[e].stage = "store" /\ emit'[e].calls >= 1
      BY <1>3, <2>4
    <3> QED BY <1>3, <3>1, <3>2 DEF Numbers, QueueExact
  <2> QED BY <2>3, <2>4
<1>6. BufferComplete'
  <2>1. CurrentSeq + 1 \in 1..MaxEvents
    BY <1>1, LimitsAssumption DEF Publish, MayEmit
  <2> DEFINE new == CurrentSeq + 1
  <2>2. /\ events' \in Seq(1..MaxEvents) /\ Len(events') > 0
        /\ \/ /\ Len(events') = Len(events) + 1
              /\ \A i \in 1..Len(events) : events'[i] = events[i]
           \/ /\ Len(events') = Len(events) /\ Len(events) > 0
              /\ \A i \in 1..Len(events) - 1 : events'[i] = events[i + 1]
        /\ events'[Len(events')] = new
    BY <2>1, Retaining DEF Publish
  <2>3. /\ events \in Seq(1..MaxEvents) /\ Ascending(events)
        /\ \A i \in 1..Len(events) : events[i] <= CurrentSeq
        /\ \A n \in 1..CurrentSeq :
            n >= FirstSeq => n \in dropped \/ \E i \in 1..Len(events) : events[i] = n
        /\ dropped' = dropped
    BY DEF TypeOK, Numbers, BufferComplete, Publish
  <2>4. /\ Len(events) \in Nat /\ Len(events') \in Nat
        /\ \A i \in 1..Len(events) : events[i] \in 1..MaxEvents
        /\ \A i \in 1..Len(events') : events'[i] \in 1..MaxEvents
        /\ events' # <<>> /\ Head(events') = events'[1]
        /\ (events # <<>> <=> Len(events) > 0)
        /\ (events # <<>> => Head(events) = events[1])
    BY <2>2, <2>3, Elements
  <2>5. FirstSeq' = events'[1]
    BY <2>4 DEF FirstSeq
  <2>6. FirstSeq = IF Len(events) > 0 THEN events[1] ELSE CurrentSeq + 1
    BY <2>4 DEF FirstSeq
  <2>7. CASE /\ Len(events') = Len(events) + 1
             /\ \A i \in 1..Len(events) : events'[i] = events[i]
    <3>1. \A i \in 1..Len(events') : i \in 1..Len(events) \/ i = Len(events')
      BY <2>4, <2>7
    <3>2. Ascending(events') /\ \A i \in 1..Len(events') : events'[i] <= CurrentSeq'
      <4>1. \A i \in 1..Len(events') : events'[i] <= CurrentSeq'
        BY <1>1, <2>2, <2>3, <2>4, <2>7, <3>1
      <4>2. ASSUME NEW i \in 1..Len(events'), NEW j \in 1..Len(events'), i < j
            PROVE  events'[i] < events'[j]
        <5>1. i \in 1..Len(events)
          BY <2>4, <2>7, <4>2
        <5>2. CASE j = Len(events')
          BY <1>1, <2>2, <2>3, <2>4, <2>7, <5>1, <5>2
        <5>3. CASE j # Len(events')
          BY <2>3, <2>7, <3>1, <4>2, <5>1, <5>3 DEF Ascending
        <5> QED BY <5>2, <5>3
      <4> QED BY <4>1, <4>2 DEF Ascending
    <3>3. FirstSeq' = FirstSeq
      BY <2>2, <2>4, <2>5, <2>6, <2>7
    <3>4. Len(events') \in 1..Len(events') /\ 1..Len(events) \subseteq 1..Len(events')
      BY <2>4, <2>7
    <3>5. ASSUME NEW n \in 1..CurrentSeq', n >= FirstSeq'
          PROVE  n \in dropped' \/ \E i \in 1..Len(events') : events'[i] = n
      <4>1. CASE n = new
        BY <2>2, <3>4, <4>1
      <4>2. CASE n \in 1..CurrentSeq
        BY <2>3, <2>7, <3>3, <3>4, <3>5, <4>2
      <4> QED BY <1>1, <4>1, <4>2
    <3> QED BY <3>2, <3>5 DEF BufferComplete
  <2>8. CASE /\ Len(events') = Len(events) /\ Len(events) > 0
             /\ \A i \in 1..Len(events) - 1 : events'[i] = events[i + 1]
    <3>1. \A i \in 1..Len(events') : i = Len(events') \/ (i \in 1..Len(events) - 1 /\ i + 1 \in 1..Len(events))
      BY <2>4, <2>8
    <3>2. Ascending(events')
      <4> SUFFICES ASSUME NEW i \in 1..Len(events'), NEW j \in 1..Len(events'), i < j
                   PROVE  events'[i] < events'[j]
        BY DEF Ascending
      <4>1. i \in 1..Len(events) - 1 /\ i + 1 \in 1..Len(events)
        BY <2>4, <2>8
      <4>2. CASE j = Len(events')
        BY <1>1, <2>2, <2>3, <2>4, <2>8, <4>1, <4>2
      <4>3. CASE j # Len(events')
        BY <2>3, <2>4, <2>8, <3>1, <4>1, <4>3 DEF Ascending
      <4> QED BY <4>2, <4>3
    <3>3. \A i \in 1..Len(events') : events'[i] <= CurrentSeq'
      BY SMTT(30), <1>1, <2>2, <2>3, <2>4, <2>8, <3>1
    <3>4. ASSUME NEW n \in 1..CurrentSeq', n >= FirstSeq'
          PROVE  n \in dropped' \/ \E i \in 1..Len(events') : events'[i] = n
      <4>1. CASE n = new
        <5>1. Len(events') \in 1..Len(events')
          BY <2>4, <2>8
        <5> QED BY <2>2, <4>1, <5>1
      <4>2. CASE n \in 1..CurrentSeq
        <5>1. events'[1] > events[1]
          <6>1. CASE Len(events) = 1
            BY <1>1, <2>2, <2>3, <2>4, <2>8, <6>1
          <6>2. CASE Len(events) # 1
            <7>1. 1 \in 1..Len(events) - 1 /\ 1 \in 1..Len(events) /\ 2 \in 1..Len(events) /\ 1 + 1 = 2
              BY <2>4, <2>8, <6>2
            <7>2. events'[1] = events[2] /\ events[1] < events[2]
              BY <2>3, <2>8, <7>1 DEF Ascending
            <7> QED BY <2>4, <7>1, <7>2
          <6> QED BY <6>1, <6>2
        <5>2. n > events[1]
          BY <2>4, <2>5, <2>8, <3>4, <5>1, <4>2
        <5>3. n \in dropped \/ \E i \in 1..Len(events) : events[i] = n
          BY <2>3, <2>4, <2>6, <2>8, <4>2, <5>2
        <5>4. ASSUME NEW i \in 1..Len(events), events[i] = n
              PROVE  \E k1 \in 1..Len(events') : events'[k1] = n
          <6>1. i # 1
            BY <2>4, <5>2, <5>4
          <6>2. i - 1 \in 1..Len(events) - 1 /\ i - 1 \in 1..Len(events') /\ (i - 1) + 1 = i
            BY <2>4, <2>8, <6>1
          <6> QED BY <2>8, <5>4, <6>2
        <5> QED BY <2>3, <5>3, <5>4
      <4> QED BY <1>1, <4>1, <4>2
    <3> QED BY <3>2, <3>3, <3>4 DEF BufferComplete
  <2> QED BY <2>2, <2>7, <2>8
<1> QED BY <1>4, <1>5, <1>6 DEF Numbers

LEMMA InvalidNumbers ==
    ASSUME TypeOK, Numbers, NEW e \in Emitters, PublishInvalid(e) PROVE Numbers'
<1>1. /\ CurrentSeq \in Nat /\ CurrentSeq' = CurrentSeq + 1
      /\ \A n \in 1..CurrentSeq : published'[n] = published[n]
      /\ published'[CurrentSeq + 1] = e
  BY PublishedGrows DEF PublishInvalid
<1>2. /\ UNCHANGED <<events, emit, storeQueue>> /\ emit[e].stage = "none"
      /\ dropped' = dropped \cup {CurrentSeq + 1}
  BY DEF PublishInvalid, MayEmit
<1>3. \A n \in 1..CurrentSeq + 1 : n \in 1..CurrentSeq \/ n = CurrentSeq + 1
  BY <1>1
<1>4. EmissionsLatest'
  <2> SUFFICES ASSUME NEW f \in Emitters, emit[f].stage # "none"
               PROVE  /\ emit[f].seq \in 1..CurrentSeq'
                      /\ published'[emit[f].seq] = f
                      /\ \A n \in 1..CurrentSeq' : published'[n] = f => n <= emit[f].seq
    BY <1>2 DEF EmissionsLatest
  <2>1. /\ emit[f].seq \in 1..CurrentSeq /\ published[emit[f].seq] = f
        /\ \A n \in 1..CurrentSeq : published[n] = f => n <= emit[f].seq
    BY DEF Numbers, EmissionsLatest
  <2> QED BY <1>1, <1>2, <1>3, <2>1
<1>5. QueueExact'
  BY <1>2 DEF Numbers, QueueExact
<1>6. BufferComplete'
  <2>1. /\ Ascending(events) /\ events \in Seq(1..MaxEvents)
        /\ \A i \in 1..Len(events) : events[i] <= CurrentSeq
        /\ \A n \in 1..CurrentSeq :
            n >= FirstSeq => n \in dropped \/ \E i \in 1..Len(events) : events[i] = n
    BY DEF TypeOK, Numbers, BufferComplete
  <2>2. \A n \in 1..CurrentSeq : n >= FirstSeq' => n >= FirstSeq
    <3>1. CASE events = <<>>
      BY <1>1, <1>2, <3>1 DEF FirstSeq
    <3>2. CASE events # <<>>
      BY <1>2, <3>2 DEF FirstSeq
    <3> QED BY <3>1, <3>2
  <2>3. \A i \in 1..Len(events) : events[i] \in 1..MaxEvents
    BY <2>1, Elements
  <2> QED BY <1>1, <1>2, <1>3, <2>1, <2>2, <2>3 DEF BufferComplete
<1> QED BY <1>4, <1>5, <1>6 DEF Numbers

\* Whoever ends its event, or waits for closes with it, is not in the store.
LEMMA EmissionMoves ==
    ASSUME TypeOK, Numbers, NEW e \in Emitters, UNCHANGED <<published, events, storeQueue>>,
           dropped \subseteq dropped', emit[e].stage # "store",
           \A f \in Emitters \ {e} : emit'[f] = emit[f],
           emit'[e].stage # "none" => emit[e].stage # "none" /\ emit'[e].seq = emit[e].seq
    PROVE  Numbers'
<1>1. CurrentSeq' = CurrentSeq /\ FirstSeq' = FirstSeq
  BY DEF CurrentSeq, FirstSeq
<1>2. EmissionsLatest'
  BY <1>1 DEF Numbers, EmissionsLatest
<1>3. QueueExact'
  BY DEF Numbers, QueueExact
<1>4. BufferComplete'
  BY <1>1 DEF Numbers, BufferComplete
<1> QED BY <1>2, <1>3, <1>4 DEF Numbers

LEMMA NextNumbers == TypeOK /\ Numbers /\ [Next]_vars => Numbers'
<1> SUFFICES ASSUME TypeOK, Numbers, [Next]_vars PROVE Numbers'
  OBVIOUS
<1> USE DEF emitting
<1>1. ASSUME NEW e \in Emitters, Publish(e) PROVE Numbers'
  BY <1>1, PublishNumbers
<1>2. ASSUME NEW e \in Emitters, PublishInvalid(e) PROVE Numbers'
  BY <1>2, InvalidNumbers
<1>3. CASE StoreStep
  <2> DEFINE e == Head(storeQueue)
  <2>1. /\ e \in Emitters /\ emit[e].stage = "store"
        /\ \A f \in Emitters \ {e} : emit'[f] = emit[f]
        /\ emit'[e].seq = emit[e].seq
        /\ QueueExact'
    BY <1>3, Worked DEF Numbers
  <2>2. CurrentSeq' = CurrentSeq /\ FirstSeq' = FirstSeq /\ UNCHANGED <<published, events, dropped>>
    BY <1>3 DEF StoreStep, CurrentSeq, FirstSeq
  <2> HIDE DEF e
  <2>3. EmissionsLatest'
    BY <2>1, <2>2 DEF Numbers, EmissionsLatest
  <2>4. BufferComplete'
    BY <2>2 DEF Numbers, BufferComplete
  <2> QED BY <2>1, <2>3, <2>4 DEF Numbers
<1>4. ASSUME NEW e \in Emitters, Deliver(e) PROVE Numbers'
  <2>1. /\ UNCHANGED <<published, events, storeQueue>> /\ emit[e].stage = "ready"
        /\ dropped \subseteq dropped'
    BY <1>4 DEF Deliver, MaySend
  <2>2. \E m \in {NoEmission, [emit[e] EXCEPT !.stage = "closing"]} : emit' = [emit EXCEPT ![e] = m]
    BY <1>4 DEF Deliver, TypeOK
  <2>3. /\ \A f \in Emitters \ {e} : emit'[f] = emit[f]
        /\ emit'[e].stage # "none" => emit'[e].seq = emit[e].seq
    BY <2>2 DEF TypeOK, Emission, NoEmission
  <2> QED BY <2>1, <2>3, EmissionMoves
<1>5. ASSUME NEW e \in Emitters, RaiseCancelled(e) \/ EmissionEnds(e) PROVE Numbers'
  <2>1. /\ UNCHANGED <<published, events, storeQueue>> /\ emit[e].stage # "store"
        /\ dropped \subseteq dropped' /\ emit' = [emit EXCEPT ![e] = NoEmission]
    BY <1>5 DEF RaiseCancelled, EmissionEnds, Raise
  <2>2. /\ \A f \in Emitters \ {e} : emit'[f] = emit[f]
        /\ emit'[e].stage = "none"
    BY <2>1 DEF TypeOK, NoEmission
  <2> QED BY <2>1, <2>2, EmissionMoves
<1>6. CASE UNCHANGED emitting
  BY <1>6 DEF Numbers, EmissionsLatest, QueueExact, BufferComplete, CurrentSeq, FirstSeq
<1>7. ASSUME NEW t \in Turns, CancelTurn(t) PROVE Numbers'
  BY <1>6, <1>7 DEF CancelTurn
<1>8. ASSUME NEW c \in Connections,
             \/ CloseResumes(c) \/ AbortClose(c) \/ Begin(c) \/ Finish(c) \/ Subscribe(c)
             \/ Reject(c) \/ EndReading(c) \/ RunReturns(c)
             \/ StartWrite(c) \/ Drained(c) \/ DrainFails(c)
      PROVE  Numbers'
  <2>1. UNCHANGED emitting
    BY <1>8 DEF CloseResumes, AbortClose, Begin, Finish, Subscribe, Reject, EndReading,
                RunReturns, StartWrite, Drained, DrainFails
  <2> QED BY <1>6, <2>1
<1>9. CASE UNCHANGED vars
  BY <1>6, <1>9 DEF vars
<1>10. CASE StoreFails
  <2> DEFINE e == Head(storeQueue)
  <2>1. /\ e \in Emitters /\ emit[e].stage = "store"
        /\ \A f \in Emitters \ {e} : emit'[f] = emit[f]
        /\ emit'[e].stage = "none" /\ dropped \subseteq dropped'
        /\ QueueExact'
    BY <1>10, WorkFailed DEF Numbers, NoEmission
  <2>2. CurrentSeq' = CurrentSeq /\ FirstSeq' = FirstSeq /\ UNCHANGED <<published, events>>
    BY <1>10 DEF StoreFails, CurrentSeq, FirstSeq
  <2> HIDE DEF e
  <2>3. EmissionsLatest'
    BY <2>1, <2>2 DEF Numbers, EmissionsLatest
  <2>4. BufferComplete'
    BY <2>1, <2>2 DEF Numbers, BufferComplete
  <2> QED BY <2>1, <2>3, <2>4 DEF Numbers
<1> QED BY <1>1, <1>2, <1>3, <1>4, <1>5, <1>7, <1>8, <1>9, <1>10 DEF Next

-----------------------------------------------------------------------------
(* What a step does to the frames of a connection                          *)

Carries(c) == writing[c].what = "event"
Keeps(c) ==
    /\ got'[c] = got[c] /\ subscribed'[c] = subscribed[c] /\ base'[c] = base[c]
    /\ frames'[c] = frames[c]
    /\ writing'[c] = writing[c] \/ (~Carries(c) /\ ~Carries(c)')
\* It is closed: what it has on its way is lost, or part of it.
Loses(c) ==
    /\ got'[c] = got[c] /\ subscribed'[c] = subscribed[c] /\ phase'[c] # "open"
    /\ frames'[c] \in {frames[c], <<>>} /\ (writing'[c] = writing[c] \/ ~Carries(c)')
Queues(c, n) ==
    /\ got'[c] = got[c] /\ subscribed'[c] /\ base'[c] = base[c]
    /\ frames'[c] = Append(frames[c], n) /\ writing'[c] = writing[c]
Starts(c) ==
    /\ got'[c] = got[c] /\ subscribed'[c] = subscribed[c] /\ base'[c] = base[c]
    /\ ~Carries(c) /\ frames[c] # <<>>
    /\ frames'[c] = Tail(frames[c]) /\ writing'[c] = Event(Head(frames[c]))
Receives(c) ==
    /\ subscribed'[c] = subscribed[c] /\ base'[c] = base[c] /\ frames'[c] = frames[c]
    /\ Carries(c) /\ got'[c] = Append(got[c], writing[c].seq) /\ ~Carries(c)'

LEMMA Movement ==
    ASSUME TypeOK, [Next]_vars, NEW c \in Connections
    PROVE  \/ Keeps(c) \/ Loses(c) \/ Starts(c) \/ Receives(c) \/ Subscribe(c)
           \/ \E e \in Emitters : Deliver(e) /\ Queues(c, emit[e].seq) /\ Listens(c)
<1> USE DEF emitting, reading, closing, client, queues
<1>1. CASE UNCHANGED <<client, frames, writing>>
  BY <1>1 DEF Keeps
<1>2. ASSUME NEW e \in Emitters,
             Publish(e) \/ PublishInvalid(e) \/ RaiseCancelled(e) \/ EmissionEnds(e)
      PROVE  UNCHANGED <<client, frames, writing>>
  BY <1>2 DEF Publish, PublishInvalid, RaiseCancelled, EmissionEnds, Raise
<1>3. ASSUME NEW t \in Turns, CancelTurn(t) PROVE UNCHANGED <<client, frames, writing>>
  BY <1>3 DEF CancelTurn
<1>4. ASSUME NEW d \in Connections,
             AbortClose(d) \/ Begin(d) \/ Finish(d) \/ Reject(d) \/ EndReading(d)
      PROVE  UNCHANGED <<client, frames, writing>>
  BY <1>4 DEF AbortClose, Begin, Finish, Reject, EndReading
<1>5. ASSUME NEW e \in Emitters, Deliver(e)
      PROVE  Keeps(c) \/ Loses(c) \/ (Queues(c, emit[e].seq) /\ Listens(c))
  <2>1. /\ frames' = [d \in Connections |-> frames'[d]]
        /\ frames'[c] \in {frames[c], Append(frames[c], emit[e].seq)}
        /\ frames'[c] # frames[c] => Listens(c)
        /\ UNCHANGED <<client, writing>>
    BY <1>5 DEF Deliver
  <2> QED BY <2>1 DEF Keeps, Queues, Listens, Carries
<1>6. ASSUME NEW d \in Connections, CloseResumes(d) PROVE Keeps(c) \/ Loses(c)
  BY <1>6, FramesTyped DEF CloseResumes, Discard, Keeps, Loses, Carries, TypeOK
<1>7. ASSUME NEW d \in Connections, RunReturns(d) PROVE Keeps(c) \/ Loses(c)
  BY SMTT(30), <1>7, FramesTyped DEF RunReturns, Discard, Keeps, Loses, Carries, TypeOK
<1>8. ASSUME NEW d \in Connections, StartWrite(d) PROVE Keeps(c) \/ Starts(c)
  <2>1. CASE d # c
    BY <1>8, <2>1 DEF StartWrite, Keeps, TypeOK
  <2>2. CASE d = c /\ replies[c] = <<>>
    BY <1>8, <2>2 DEF StartWrite, Starts, Carries, TypeOK
  <2>3. CASE d = c /\ replies[c] # <<>>
    <3>1. /\ writing'[c] = Plain(Head(replies[c])) /\ UNCHANGED <<client, frames>>
          /\ ~Carries(c)
      BY <1>8, <2>3 DEF StartWrite, Carries, TypeOK
    <3>2. Head(replies[c]) \in {"reply", "reject"}
      BY <2>3, ConnectionTyped, RepliesTyped
    <3> QED BY <3>1, <3>2, FramesTyped DEF Keeps, Carries
  <2> QED BY <2>1, <2>2, <2>3
<1>9. ASSUME NEW d \in Connections, Drained(d) PROVE Keeps(c) \/ Receives(c)
  BY <1>9, FramesTyped DEF Drained, Keeps, Receives, Carries, TypeOK
<1>10. ASSUME NEW d \in Connections, DrainFails(d) PROVE Keeps(c) \/ Loses(c)
  <2>1. CASE d # c
    BY <1>10, <2>1 DEF DrainFails, Keeps, TypeOK
  <2>2. CASE d = c
    <3>1. writing'[c] = Plain("gone") /\ UNCHANGED <<client, frames>>
      BY <1>10, <2>2 DEF DrainFails, TypeOK
    <3>2. phase'[c] # "open"
      BY <1>10, <2>2 DEF DrainFails, StartClose
    <3> QED BY <3>1, <3>2, FramesTyped DEF Loses, Carries
  <2> QED BY <2>1, <2>2
<1>11. ASSUME NEW d \in Connections, Subscribe(d) PROVE Keeps(c) \/ Subscribe(c)
  <2>1. CASE d # c
    <3>1. UNCHANGED <<frames, writing>>
      BY <1>11 DEF Subscribe
    <3>2. subscribed'[c] = subscribed[c] /\ base'[c] = base[c] /\ got'[c] = got[c]
      BY <1>11, <2>1 DEF Subscribe, TypeOK
    <3> QED BY <3>1, <3>2 DEF Keeps
  <2> QED BY <1>11, <2>1
<1>12. CASE UNCHANGED vars
  BY <1>1, <1>12 DEF vars
<1>13. CASE StoreStep \/ StoreFails
  BY <1>1, <1>13 DEF StoreStep, StoreFails
<1> QED
  BY <1>1, <1>2, <1>3, <1>4, <1>5, <1>6, <1>7, <1>8, <1>9, <1>10, <1>11, <1>12, <1>13 DEF Next

LEMMA PublishedStays ==
    ASSUME TypeOK, [Next]_vars
    PROVE  /\ CurrentSeq \in Nat /\ CurrentSeq' \in Nat /\ CurrentSeq' >= CurrentSeq
           /\ \A n \in 1..CurrentSeq : published'[n] = published[n]
<1>1. CurrentSeq \in Nat
  BY DEF TypeOK, CurrentSeq
<1>2. ASSUME NEW e \in Emitters, Publish(e) \/ PublishInvalid(e)
      PROVE  /\ CurrentSeq' = CurrentSeq + 1
             /\ \A n \in 1..CurrentSeq : published'[n] = published[n]
  BY <1>2, PublishedGrows DEF Publish, PublishInvalid
<1>3. ASSUME NEW e \in Emitters, Deliver(e) \/ RaiseCancelled(e) \/ EmissionEnds(e)
      PROVE  UNCHANGED published
  BY <1>3 DEF Deliver, RaiseCancelled, EmissionEnds, Raise
<1>4. ASSUME NEW t \in Turns, CancelTurn(t) PROVE UNCHANGED published
  BY <1>4 DEF CancelTurn, emitting
<1>5. ASSUME NEW c \in Connections,
             \/ CloseResumes(c) \/ AbortClose(c) \/ Begin(c) \/ Finish(c) \/ Subscribe(c)
             \/ Reject(c) \/ EndReading(c) \/ RunReturns(c)
             \/ StartWrite(c) \/ Drained(c) \/ DrainFails(c)
      PROVE  UNCHANGED published
  BY <1>5 DEF CloseResumes, AbortClose, Begin, Finish, Subscribe, Reject, EndReading,
              RunReturns, StartWrite, Drained, DrainFails, emitting
<1>6. CASE StoreStep \/ StoreFails \/ UNCHANGED vars
  BY <1>1, <1>6 DEF StoreStep, StoreFails, vars, emitting, CurrentSeq
<1>7. CASE UNCHANGED published
  BY <1>1, <1>7 DEF CurrentSeq
<1> QED BY <1>1, <1>2, <1>3, <1>4, <1>5, <1>6, <1>7 DEF Next

LEMMA NextQuiet == TypeOK /\ Quiet /\ [Next]_vars => Quiet'
<1> SUFFICES ASSUME TypeOK, Quiet, [Next]_vars, NEW c \in Connections, ~subscribed'[c]
             PROVE  frames'[c] = <<>> /\ ~Carries(c)'
  BY DEF Quiet, Carries
<1>1. \/ Keeps(c) \/ Loses(c) \/ Starts(c) \/ Receives(c) \/ Subscribe(c)
      \/ \E e \in Emitters : Queues(c, emit[e].seq)
  BY Movement
<1>2. ~Subscribe(c)
  BY DEF Subscribe, TypeOK
<1>3. ~subscribed[c] => frames[c] = <<>> /\ ~Carries(c)
  BY DEF Quiet, Carries
<1> QED BY <1>1, <1>2, <1>3 DEF Keeps, Loses, Starts, Receives, Queues, Carries

-----------------------------------------------------------------------------
(* Order                                                                   *)

\* What is in order stays so while events are published.
LEMMA OrderedStays ==
    ASSUME TypeOK, [Next]_vars, NEW g \in Seq(1..MaxEvents), NEW f \in Seq(1..MaxEvents),
           NEW w \in Frame, Ordered(g, f, w)
    PROVE  Ordered(g, f, w)'
<1>1. /\ CurrentSeq \in Nat /\ CurrentSeq' \in Nat /\ CurrentSeq' >= CurrentSeq
      /\ \A n \in 1..CurrentSeq : published'[n] = published[n]
  BY PublishedStays
<1>2. /\ \A i \in 1..Len(g) : g[i] \in 1..CurrentSeq
      /\ \A i \in 1..Len(f) : f[i] \in 1..CurrentSeq
  <2>1. /\ \A i \in 1..Len(g) : g[i] \in 1..MaxEvents
        /\ \A i \in 1..Len(f) : f[i] \in 1..MaxEvents
    BY Elements
  <2> QED BY <1>1, <2>1 DEF Ordered
<1>3. \A m, n \in 1..CurrentSeq : Before(m, n) => Before(m, n)'
  BY <1>1 DEF Before
<1>4. \A n \in 1..CurrentSeq : n \in 1..CurrentSeq' /\ n <= CurrentSeq'
  BY <1>1
<1> HIDE DEF CurrentSeq
<1> QED BY <1>2, <1>3, <1>4 DEF Ordered

LEMMA OrderedCut ==
    ASSUME NEW g, NEW f, NEW w, NEW f2 \in {f, <<>>}, NEW w2, w2 = w \/ w2.what # "event",
           Ordered(g, f, w)
    PROVE  Ordered(g, f2, w2)
<1>1. CASE f2 = f
  BY <1>1 DEF Ordered
<1>2. CASE f2 = <<>>
  BY <1>2 DEF Ordered
<1> QED BY <1>1, <1>2

LEMMA OrderedQueued ==
    ASSUME NEW S, NEW g, NEW f \in Seq(S), NEW w, Ordered(g, f, w), CurrentSeq \in Nat,
           NEW n \in S \cap 1..CurrentSeq, \A m \in 1..CurrentSeq : Before(m, n),
           \A i \in 1..Len(g) : g[i] \in 1..CurrentSeq,
           \A i \in 1..Len(f) : f[i] \in 1..CurrentSeq
    PROVE  Ordered(g, Append(f, n), w)
<1> DEFINE f2 == Append(f, n)
<1>1. /\ Len(f) \in Nat /\ Len(f2) = Len(f) + 1
      /\ \A i \in 1..Len(f) : f2[i] = f[i]
      /\ f2[Len(f) + 1] = n
  BY Appended
<1> HIDE DEF f2
<1>2. \A i \in 1..Len(f2) : i \in 1..Len(f) \/ (i = Len(f) + 1 /\ f2[i] = n)
  BY <1>1
<1>3. \A i, j \in 1..Len(f2) : i < j => i \in 1..Len(f)
  BY <1>1
<1>4. \A i \in 1..Len(f2) : f2[i] \in 1..CurrentSeq
  BY <1>1, <1>2
<1>5. \A i, j \in 1..Len(f2) : i < j => Before(f2[i], f2[j])
  BY <1>1, <1>2, <1>3 DEF Ordered
<1>6. \A i \in 1..Len(g), j \in 1..Len(f2) : Before(g[i], f2[j])
  BY <1>1, <1>2 DEF Ordered
<1>7. w.what = "event" => \A i \in 1..Len(f2) : Before(w.seq, f2[i])
  BY <1>1, <1>2 DEF Ordered
<1>8. \A i \in 1..Len(f2) : f2[i] <= CurrentSeq
  BY <1>4
<1> QED BY <1>5, <1>6, <1>7, <1>8 DEF Ordered, f2

LEMMA OrderedStarted ==
    ASSUME NEW S, NEW g, NEW f \in Seq(S), f # <<>>, NEW w, NEW w2, Ordered(g, f, w),
           w2.what = "event", w2.seq = Head(f), Head(f) \in 1..CurrentSeq
    PROVE  Ordered(g, Tail(f), w2)
<1> DEFINE f2 == Tail(f)
<1>1. /\ Head(f) = f[1]
      /\ Len(f) \in Nat \ {0} /\ Len(f2) = Len(f) - 1
      /\ \A i \in 1..Len(f) - 1 : f2[i] = f[i + 1]
  BY Beheaded
<1> HIDE DEF f2
<1>2. \A i \in 1..Len(f2) : i + 1 \in 1..Len(f) /\ f2[i] = f[i + 1] /\ 1 < i + 1
  BY <1>1
<1>3. \A i, j \in 1..Len(f2) : i < j => i + 1 < j + 1
  BY <1>1
<1>4. 1 \in 1..Len(f)
  BY <1>1
<1>5. /\ \A i \in 1..Len(f2) : f2[i] <= CurrentSeq /\ Before(w2.seq, f2[i])
      /\ \A i, j \in 1..Len(f2) : i < j => Before(f2[i], f2[j])
      /\ \A i \in 1..Len(g), j \in 1..Len(f2) : Before(g[i], f2[j])
      /\ \A i \in 1..Len(g) : Before(g[i], w2.seq)
  BY <1>1, <1>2, <1>3, <1>4 DEF Ordered
<1> QED BY <1>5 DEF Ordered, f2

LEMMA OrderedReceived ==
    ASSUME NEW S, NEW g \in Seq(S), NEW f, NEW w, NEW w2, Ordered(g, f, w), CurrentSeq \in Nat,
           w.what = "event", w2.what # "event", w.seq \in S
    PROVE  Ordered(Append(g, w.seq), f, w2)
<1> DEFINE g2 == Append(g, w.seq)
<1>1. /\ Len(g) \in Nat /\ Len(g2) = Len(g) + 1
      /\ \A i \in 1..Len(g) : g2[i] = g[i]
      /\ g2[Len(g) + 1] = w.seq
  BY Appended
<1> HIDE DEF g2
<1>2. \A i \in 1..Len(g2) : i \in 1..Len(g) \/ (i = Len(g) + 1 /\ g2[i] = w.seq)
  BY <1>1
<1>3. \A i, j \in 1..Len(g2) : i < j => i \in 1..Len(g)
  BY <1>1
<1>4. w.seq <= CurrentSeq
  BY DEF Ordered
<1>5. \A i \in 1..Len(g2) : g2[i] <= CurrentSeq
  BY <1>1, <1>2, <1>4 DEF Ordered
<1>6. \A i, j \in 1..Len(g2) : i < j => Before(g2[i], g2[j])
  BY <1>1, <1>2, <1>3 DEF Ordered
<1>7. \A i \in 1..Len(g2), j \in 1..Len(f) : Before(g2[i], f[j])
  BY <1>1, <1>2 DEF Ordered
<1> QED BY <1>5, <1>6, <1>7 DEF Ordered, g2

\* The events replayed to a new subscriber are in order.
LEMMA OrderedReplay ==
    ASSUME TypeOK, BufferComplete, NEW first \in 1..Len(events) + 1, NEW w, w.what # "event"
    PROVE  /\ Ordered(SubSeq(events, first, Len(events)), <<>>, w)
           /\ Ordered(<<>>, <<>>, w)
<1> DEFINE g == SubSeq(events, first, Len(events))
<1>1. /\ events \in Seq(1..MaxEvents) /\ Len(events) \in Nat
      /\ \A i \in 1..Len(events) : events[i] \in 1..MaxEvents
  BY Elements DEF TypeOK
<1>2. /\ Len(g) = Len(events) + 1 - first
      /\ \A i \in 1..Len(events) + 1 - first : g[i] = events[first + i - 1]
  BY <1>1, TailEnd
<1> HIDE DEF g
<1>3. \A i \in 1..Len(g) : first + i - 1 \in 1..Len(events) /\ g[i] = events[first + i - 1]
  BY <1>1, <1>2
<1>4. \A i, j \in 1..Len(g) : i < j => first + i - 1 < first + j - 1
  BY <1>1, <1>2
<1>5. \A i, j \in 1..Len(g) : i < j => g[i] <= g[j]
  <2> SUFFICES ASSUME NEW i \in 1..Len(g), NEW j \in 1..Len(g), i < j PROVE g[i] <= g[j]
    OBVIOUS
  <2> DEFINE i1 == first + i - 1
             j1 == first + j - 1
  <2>1. /\ i1 \in 1..Len(events) /\ j1 \in 1..Len(events) /\ i1 < j1
        /\ g[i] = events[i1] /\ g[j] = events[j1]
    BY <1>3, <1>4
  <2> HIDE DEF i1, j1
  <2>2. events[i1] < events[j1] /\ events[i1] \in Nat /\ events[j1] \in Nat
    BY <1>1, <2>1 DEF BufferComplete, Ascending
  <2> QED BY <2>1, <2>2
<1>6. \A i \in 1..Len(g) : g[i] <= CurrentSeq
  BY <1>3 DEF BufferComplete
<1>7. Ordered(g, <<>>, w)
  BY <1>5, <1>6 DEF Ordered, Before
<1>8. Ordered(<<>>, <<>>, w)
  BY DEF Ordered
<1> QED BY <1>7, <1>8 DEF g

\* The emitter of an event under way has published nothing after it.
LEMMA EmissionIsLast ==
    ASSUME TypeOK, EmissionsLatest, NEW e \in Emitters, emit[e].stage # "none"
    PROVE  /\ emit[e].seq \in 1..MaxEvents \cap 1..CurrentSeq
           /\ \A m \in 1..CurrentSeq : Before(m, emit[e].seq)
<1>1. CurrentSeq \in Nat /\ CurrentSeq <= MaxEvents
  BY DEF TypeOK, CurrentSeq
<1>2. emit[e].seq \in 1..CurrentSeq
  BY DEF EmissionsLatest
<1>3. emit[e].seq \in 1..MaxEvents
  BY <1>1, <1>2, LimitsAssumption
<1> QED BY <1>2, <1>3 DEF EmissionsLatest, Before

LEMMA NextFlow == IInv /\ [Next]_vars => FlowInOrder'
<1> SUFFICES ASSUME IInv, [Next]_vars, NEW c \in Connections,
                    NEW g, NEW f, NEW w, g = got'[c], f = frames'[c], w = writing'[c]
             PROVE  Ordered(g, f, w)'
  BY DEF FlowInOrder, Flow, Ordered, Before
<1>1. TypeOK /\ TypeOK' /\ Numbers /\ Quiet /\ Flow(c)
  BY NextTyped DEF IInv, FlowInOrder
<1>2. g \in Seq(1..MaxEvents) /\ f \in Seq(1..MaxEvents) /\ w \in Frame
  BY <1>1 DEF TypeOK
<1> DEFINE g0 == got[c]
           f0 == frames[c]
           w0 == writing[c]
<1>3. g0 \in Seq(1..MaxEvents) /\ f0 \in Seq(1..MaxEvents) /\ Ordered(g0, f0, w0)
  BY <1>1 DEF TypeOK, Flow
<1>4. /\ CurrentSeq \in Nat /\ CurrentSeq <= MaxEvents
      /\ \A i \in 1..Len(g0) : g0[i] \in 1..CurrentSeq
      /\ \A i \in 1..Len(f0) : f0[i] \in 1..CurrentSeq
  <2>1. CurrentSeq \in Nat /\ CurrentSeq <= MaxEvents
    BY <1>1 DEF TypeOK, CurrentSeq
  <2>2. /\ \A i \in 1..Len(g0) : g0[i] \in 1..MaxEvents
        /\ \A i \in 1..Len(f0) : f0[i] \in 1..MaxEvents
    BY <1>3, Elements
  <2> HIDE DEF g0, f0, w0
  <2> QED BY <1>3, <2>1, <2>2 DEF Ordered
<1>5. Ordered(g, f, w)
  <2>1. CASE Keeps(c) \/ Loses(c)
    <3>1. g = g0 /\ f \in {f0, <<>>} /\ (w = w0 \/ w.what # "event")
      BY <2>1 DEF Keeps, Loses, Carries
    <3> HIDE DEF g0, f0, w0
    <3> QED BY <1>3, <3>1, OrderedCut
  <2>2. CASE Starts(c)
    <3>1. g = g0 /\ f0 # <<>> /\ f = Tail(f0) /\ w = Event(Head(f0))
      BY <2>2 DEF Starts
    <3> HIDE DEF g0, f0, w0
    <3>2. Head(f0) \in 1..CurrentSeq
      <4>1. Head(f0) = f0[1] /\ Len(f0) \in Nat \ {0}
        BY <1>3, <3>1, Beheaded
      <4>2. 1 \in 1..Len(f0)
        BY <4>1
      <4> QED BY <1>4, <4>1, <4>2
    <3>3. w.what = "event" /\ w.seq = Head(f0)
      BY <3>1 DEF Event
    <3> QED BY <1>3, <3>1, <3>2, <3>3, OrderedStarted
  <2>3. CASE Receives(c)
    <3>1. g = Append(g0, w0.seq) /\ f = f0 /\ w0.what = "event" /\ w.what # "event"
      BY <2>3 DEF Receives, Carries
    <3> HIDE DEF g0, f0, w0
    <3>2. w0.seq \in 1..MaxEvents
      BY <1>3, <1>4, <3>1, LimitsAssumption DEF Ordered
    <3> QED BY <1>3, <1>4, <3>1, <3>2, OrderedReceived
  <2>4. CASE Subscribe(c)
    <3>1. PICK after \in 0..CurrentSeq, sameServer \in BOOLEAN, first \in 1..Len(events) + 1 :
            got' = [got EXCEPT ![c] =
                IF ReplayComplete(after, sameServer)
                THEN SubSeq(events, first, Len(events)) ELSE <<>>]
      BY <2>4 DEF Subscribe
    <3>2. g \in {SubSeq(events, first, Len(events)), <<>>}
      BY <1>1, <3>1 DEF TypeOK
    <3>3. f = <<>> /\ w.what # "event"
      BY <1>1, <2>4 DEF Subscribe, Quiet, queues
    <3> QED BY <1>1, <3>2, <3>3, OrderedReplay DEF Numbers
  <2>5. ASSUME NEW e \in Emitters, Deliver(e), Queues(c, emit[e].seq) PROVE Ordered(g, f, w)
    <3> DEFINE n == emit[e].seq
    <3>1. g = g0 /\ f = Append(f0, n) /\ w = w0
      BY <2>5 DEF Queues
    <3>2. n \in 1..MaxEvents \cap 1..CurrentSeq /\ \A m \in 1..CurrentSeq : Before(m, n)
      BY <1>1, <2>5, EmissionIsLast DEF Deliver, MaySend, Numbers
    <3> HIDE DEF g0, f0, w0, n
    <3> QED BY <1>3, <1>4, <3>1, <3>2, OrderedQueued
  <2> QED BY <1>1, <2>1, <2>2, <2>3, <2>4, <2>5, Movement
<1> QED BY <1>1, <1>2, <1>5, OrderedStays

-----------------------------------------------------------------------------
(* Completeness                                                            *)

\* In the hands of its emitter, which will deliver it.
InHand(n) == \E e \in Emitters : emit[e].stage \in {"store", "ready"} /\ emit[e].seq = n

\* A step publishes at most one event, which its emitter has or which is
\* refused, and whoever has an event keeps it, delivers it or drops it.
HandsOver ==
    /\ dropped \subseteq dropped'
    /\ \A n : InHand(n) =>
        \/ InHand(n)' \/ n \in dropped'
        \/ \E e \in Emitters : Deliver(e) /\ emit[e].seq = n
    /\ \A n \in 1..CurrentSeq' : n \in 1..CurrentSeq \/ n \in dropped' \/ InHand(n)'

LEMMA NextHandsOver == TypeOK /\ Numbers /\ [Next]_vars => HandsOver
<1> SUFFICES ASSUME TypeOK, Numbers, [Next]_vars PROVE HandsOver
  OBVIOUS
<1> USE DEF emitting
<1>1. ASSUME NEW e \in Emitters, Publish(e) PROVE HandsOver
  <2>1. CurrentSeq \in Nat /\ CurrentSeq' = CurrentSeq + 1
    BY <1>1, PublishedGrows DEF Publish
  <2>2. PICK k \in StoreCalls :
          emit' = [emit EXCEPT ![e] = [stage |-> IF k = 0 THEN "ready" ELSE "store",
                                       seq |-> CurrentSeq + 1, calls |-> k]]
    BY <1>1 DEF Publish
  <2>3. /\ emit'[e].stage \in {"ready", "store"} /\ emit'[e].seq = CurrentSeq + 1
        /\ \A f \in Emitters \ {e} : emit'[f] = emit[f]
    BY <2>2 DEF TypeOK
  <2>4. emit[e].stage = "none" /\ dropped' = dropped
    BY <1>1 DEF Publish, MayEmit
  <2>5. \A n : InHand(n) => InHand(n)'
    BY <2>3, <2>4 DEF InHand
  <2>6. \A n : n = CurrentSeq + 1 => InHand(n)'
    BY <2>3 DEF InHand
  <2>7. \A n \in 1..CurrentSeq' : n \in 1..CurrentSeq \/ n = CurrentSeq + 1
    BY <2>1
  <2> QED BY <2>4, <2>5, <2>6, <2>7 DEF HandsOver
<1>2. ASSUME NEW e \in Emitters, PublishInvalid(e) PROVE HandsOver
  <2>1. CurrentSeq \in Nat /\ CurrentSeq' = CurrentSeq + 1
    BY <1>2, PublishedGrows DEF PublishInvalid
  <2>2. dropped' = dropped \cup {CurrentSeq + 1} /\ UNCHANGED emit
    BY <1>2 DEF PublishInvalid
  <2> QED BY <2>1, <2>2 DEF HandsOver, InHand
<1>3. CASE StoreStep
  <2>1. /\ Head(storeQueue) \in Emitters
        /\ \A f \in Emitters \ {Head(storeQueue)} : emit'[f] = emit[f]
        /\ emit'[Head(storeQueue)].seq = emit[Head(storeQueue)].seq
        /\ emit'[Head(storeQueue)].stage \in {"store", "ready"}
    BY <1>3, Worked DEF Numbers
  <2>2. CurrentSeq' = CurrentSeq /\ dropped' = dropped
    BY <1>3 DEF StoreStep, CurrentSeq
  <2> QED BY <2>1, <2>2 DEF HandsOver, InHand
<1>4. ASSUME NEW e \in Emitters, Deliver(e) PROVE HandsOver
  <2>1. /\ CurrentSeq' = CurrentSeq /\ dropped \subseteq dropped'
        /\ \A f \in Emitters \ {e} : emit'[f] = emit[f]
    BY <1>4 DEF Deliver, CurrentSeq, TypeOK
  <2> QED BY <1>4, <2>1 DEF HandsOver, InHand
<1>5. ASSUME NEW e \in Emitters, RaiseCancelled(e) PROVE HandsOver
  <2>1. /\ CurrentSeq' = CurrentSeq /\ dropped \subseteq dropped'
        /\ \A f \in Emitters \ {e} : emit'[f] = emit[f]
        /\ emit[e].stage = "ready" => emit[e].seq \in dropped'
        /\ emit[e].stage \in {"none", "ready"}
    BY <1>5 DEF RaiseCancelled, Raise, CurrentSeq, TypeOK
  <2> QED BY <2>1 DEF HandsOver, InHand
<1>6. ASSUME NEW e \in Emitters, EmissionEnds(e) PROVE HandsOver
  <2>1. /\ CurrentSeq' = CurrentSeq /\ dropped' = dropped /\ emit[e].stage = "closing"
        /\ emit' = [emit EXCEPT ![e] = NoEmission]
    BY <1>6 DEF EmissionEnds, Raise, CurrentSeq
  <2>2. \A f \in Emitters \ {e} : emit'[f] = emit[f]
    BY <2>1 DEF TypeOK
  <2> QED BY <2>1, <2>2 DEF HandsOver, InHand
<1>7. CASE UNCHANGED emitting
  BY <1>7 DEF HandsOver, InHand, CurrentSeq
<1>8. ASSUME NEW t \in Turns, CancelTurn(t) PROVE HandsOver
  BY <1>7, <1>8 DEF CancelTurn
<1>9. ASSUME NEW c \in Connections,
             \/ CloseResumes(c) \/ AbortClose(c) \/ Begin(c) \/ Finish(c) \/ Subscribe(c)
             \/ Reject(c) \/ EndReading(c) \/ RunReturns(c)
             \/ StartWrite(c) \/ Drained(c) \/ DrainFails(c)
      PROVE  HandsOver
  <2>1. UNCHANGED emitting
    BY <1>9 DEF CloseResumes, AbortClose, Begin, Finish, Subscribe, Reject, EndReading,
                RunReturns, StartWrite, Drained, DrainFails
  <2> QED BY <1>7, <2>1
<1>10. CASE UNCHANGED vars
  BY <1>7, <1>10 DEF vars
<1>11. CASE StoreFails
  <2>1. /\ Head(storeQueue) \in Emitters
        /\ \A f \in Emitters \ {Head(storeQueue)} : emit'[f] = emit[f]
        /\ dropped' = dropped \cup {emit[Head(storeQueue)].seq}
    BY <1>11, WorkFailed DEF Numbers
  <2>2. CurrentSeq' = CurrentSeq
    BY <1>11 DEF StoreFails, CurrentSeq
  <2> QED BY <2>1, <2>2 DEF HandsOver, InHand
<1> QED BY <1>1, <1>2, <1>3, <1>4, <1>5, <1>6, <1>8, <1>9, <1>10, <1>11 DEF Next

\* No connection opens again.
LEMMA StaysShut ==
    ASSUME TypeOK, [Next]_vars, NEW c \in Connections, phase'[c] = "open"
    PROVE  phase[c] = "open"
<1> USE DEF closing, TypeOK
<1>1. ASSUME NEW e \in Emitters, Deliver(e) PROVE phase[c] = "open"
  BY <1>1 DEF Deliver, StartClose
<1>2. ASSUME NEW e \in Emitters,
             Publish(e) \/ PublishInvalid(e) \/ RaiseCancelled(e) \/ EmissionEnds(e)
      PROVE  UNCHANGED phase
  BY <1>2 DEF Publish, PublishInvalid, RaiseCancelled, EmissionEnds, Raise
<1>3. ASSUME NEW t \in Turns, CancelTurn(t) PROVE UNCHANGED phase
  BY <1>3 DEF CancelTurn
<1>4. ASSUME NEW d \in Connections, CloseResumes(d) \/ AbortClose(d) \/ RunReturns(d)
      PROVE  phase[c] = "open"
  BY <1>4 DEF CloseResumes, AbortClose, RunReturns
<1>5. ASSUME NEW d \in Connections, DrainFails(d) PROVE phase[c] = "open"
  BY <1>5 DEF DrainFails, StartClose
<1>6. ASSUME NEW d \in Connections,
             \/ Begin(d) \/ Finish(d) \/ Subscribe(d) \/ Reject(d) \/ EndReading(d)
             \/ StartWrite(d) \/ Drained(d)
      PROVE  UNCHANGED phase
  BY <1>6 DEF Begin, Finish, Subscribe, Reject, EndReading, StartWrite, Drained
<1>7. CASE StoreStep \/ StoreFails \/ UNCHANGED vars
  BY <1>7 DEF StoreStep, StoreFails, vars
<1> QED BY <1>1, <1>2, <1>3, <1>4, <1>5, <1>6, <1>7 DEF Next

\* What is sent reaches every connection that still listens.
LEMMA DeliverReaches ==
    ASSUME TypeOK, NEW e \in Emitters, Deliver(e), NEW c \in Connections, Listens(c)'
    PROVE  emit[e].seq \in dropped' \/ frames'[c] = Append(frames[c], emit[e].seq)
<1>1. PICK reached \in Reaches(e) :
        LET full == {d \in reached : Full(d)}
            open == {d \in reached : Listens(d)} \ full
        IN  /\ StartClose(full, e)
            /\ frames' = [d \in Connections |->
                    IF d \in open THEN Append(frames[d], emit[e].seq) ELSE frames[d]]
            /\ dropped' = IF reached = Connections THEN dropped ELSE dropped \cup {emit[e].seq}
  BY DEF Deliver
<1>2. CASE reached # Connections
  BY <1>1, <1>2
<1>3. CASE reached = Connections
  <2>1. ~Full(c) /\ phase[c] = "open" /\ subscribed[c]
    BY <1>1, <1>3 DEF Deliver, Listens, StartClose, client
  <2> QED BY <1>1, <1>3, <2>1 DEF Listens
<1> QED BY <1>2, <1>3

\* What a new subscriber is told it has, or gets, is all there is.
LEMMA SubscribeMissesNone ==
    ASSUME TypeOK, BufferComplete, NEW c \in Connections, Subscribe(c),
           NEW n \in base'[c] + 1 .. CurrentSeq
    PROVE  n \in dropped \/ Contains(got'[c], n)
<1>1. PICK after \in 0..CurrentSeq, sameServer \in BOOLEAN, first \in 1..Len(events) + 1 :
        LET complete == ReplayComplete(after, sameServer)
        IN  /\ \A i \in DOMAIN events : events[i] > after <=> i >= first
            /\ base' = [base EXCEPT ![c] = IF complete THEN after ELSE CurrentSeq]
            /\ got' = [got EXCEPT ![c] =
                    IF complete THEN SubSeq(events, first, Len(events)) ELSE <<>>]
  BY DEF Subscribe
<1>2. CurrentSeq \in Nat
  BY DEF TypeOK, CurrentSeq
<1>3. /\ ReplayComplete(after, sameServer)
      /\ base'[c] = after /\ got'[c] = SubSeq(events, first, Len(events))
  BY <1>1, <1>2 DEF TypeOK
<1>4. /\ events \in Seq(1..MaxEvents) /\ Len(events) \in Nat
      /\ \A i \in 1..Len(events) : events[i] \in 1..MaxEvents
      /\ events # <<>> => Len(events) > 0 /\ Head(events) = events[1]
  BY Elements DEF TypeOK
<1>5. FirstSeq \in Nat \ {0}
  BY <1>2, <1>4 DEF FirstSeq
<1>6. n >= FirstSeq /\ n > after /\ n \in 1..CurrentSeq
  BY <1>2, <1>3, <1>5 DEF ReplayComplete
<1>7. ASSUME NEW i \in 1..Len(events), events[i] = n PROVE Contains(got'[c], n)
  <2>1. i >= first
    BY <1>1, <1>4, <1>6, <1>7
  <2> DEFINE k == i + 1 - first
             g == SubSeq(events, first, Len(events))
  <2>2. /\ Len(g) = Len(events) + 1 - first
        /\ \A j \in 1..Len(events) + 1 - first : g[j] = events[first + j - 1]
    BY <1>4, TailEnd
  <2>3. k \in 1..Len(events) + 1 - first /\ first + k - 1 = i
    BY <1>4, <2>1
  <2> HIDE DEF k, g
  <2>4. k \in 1..Len(g) /\ g[k] = n
    BY <1>7, <2>2, <2>3
  <2> QED BY <1>3, <2>4 DEF Contains, g
<1> QED BY <1>6, <1>7 DEF BufferComplete

LEMMA NextNothingMissed == IInv /\ [Next]_vars => NothingMissed'
<1> SUFFICES ASSUME IInv, [Next]_vars, NEW c \in Connections, Listens(c)',
                    NEW n \in base'[c] + 1 .. CurrentSeq'
             PROVE  \/ n \in dropped' \/ Contains(got'[c], n) \/ Contains(frames'[c], n)
                    \/ writing'[c] = Event(n) \/ InHand(n)'
  BY DEF NothingMissed, OnItsWay, InHand
<1>1. TypeOK /\ TypeOK' /\ Numbers /\ NothingMissed
  BY NextTyped DEF IInv
<1>2. /\ dropped \subseteq dropped'
      /\ InHand(n) => \/ InHand(n)' \/ n \in dropped'
                      \/ \E e \in Emitters : Deliver(e) /\ emit[e].seq = n
      /\ n \in 1..CurrentSeq' => n \in 1..CurrentSeq \/ n \in dropped' \/ InHand(n)'
  BY <1>1, NextHandsOver DEF HandsOver
<1>3. CurrentSeq \in Nat /\ CurrentSeq' \in Nat /\ base'[c] \in Nat /\ base[c] \in Nat
  <2>1. CurrentSeq \in Nat /\ CurrentSeq' \in Nat
    BY <1>1, PublishedStays
  <2>2. base'[c] \in Nat /\ base[c] \in Nat
    BY <1>1 DEF TypeOK
  <2> QED BY <2>1, <2>2
<1>4. CASE n \notin 1..CurrentSeq
  BY <1>2, <1>3, <1>4
<1>5. CASE Subscribe(c) /\ n \in 1..CurrentSeq
  <2>1. n \in base'[c] + 1 .. CurrentSeq
    BY <1>3, <1>5
  <2> QED BY <1>1, <1>2, <1>5, <2>1, SubscribeMissesNone DEF Numbers
<1>6. ASSUME NEW e \in Emitters, Deliver(e), emit[e].seq = n
      PROVE  n \in dropped' \/ Contains(frames'[c], n)
  <2>1. n \in dropped' \/ frames'[c] = Append(frames[c], n)
    BY <1>1, <1>6, DeliverReaches
  <2>2. frames[c] \in Seq(1..MaxEvents)
    BY <1>1, ConnectionTyped
  <2>3. Contains(Append(frames[c], n), n)
    BY <2>2, AppendContains
  <2> QED BY <2>1, <2>3
<1>7. CASE ~Subscribe(c) /\ n \in 1..CurrentSeq
  <2>1. \/ Keeps(c) \/ Starts(c) \/ Receives(c)
        \/ \E e \in Emitters : Deliver(e) /\ Queues(c, emit[e].seq) /\ Listens(c)
    BY <1>1, <1>7, Movement DEF Loses, Listens
  <2>2. phase[c] = "open"
    BY <1>1, StaysShut DEF Listens
  <2>3. Listens(c) /\ base'[c] = base[c]
    BY <2>1, <2>2 DEF Keeps, Starts, Receives, Queues, Listens
  <2>4. n \in base[c] + 1 .. CurrentSeq
    BY <1>3, <1>7, <2>3
  <2>5. \/ n \in dropped \/ Contains(got[c], n) \/ Contains(frames[c], n)
        \/ writing[c] = Event(n) \/ InHand(n)
    BY <1>1, <2>3, <2>4 DEF NothingMissed, OnItsWay, InHand
  <2>6. CASE n \in dropped \/ InHand(n)
    BY <1>2, <1>6, <2>6
  <2>7. frames[c] \in Seq(1..MaxEvents) /\ got[c] \in Seq(1..MaxEvents)
    BY <1>1, ConnectionTyped
  <2>8. CASE Contains(got[c], n)
    <3>1. CASE Receives(c)
      BY <2>7, <2>8, <3>1, AppendContains DEF Receives
    <3>2. CASE ~Receives(c)
      BY <2>1, <2>8, <3>2 DEF Keeps, Starts, Queues
    <3> QED BY <3>1, <3>2
  <2>9. CASE Contains(frames[c], n)
    <3>1. CASE Keeps(c) \/ Receives(c)
      BY <2>9, <3>1 DEF Keeps, Receives
    <3>2. CASE Starts(c)
      BY <2>7, <2>9, <3>2, TailContains DEF Starts
    <3>3. ASSUME NEW e \in Emitters, Deliver(e), Queues(c, emit[e].seq)
          PROVE  Contains(frames'[c], n)
      BY <2>7, <2>9, <3>3, AppendContains DEF Queues
    <3> QED BY <2>1, <3>1, <3>2, <3>3
  <2>10. CASE writing[c] = Event(n)
    <3>1. Carries(c) /\ writing[c].seq = n
      BY <2>10 DEF Carries, Event
    <3>2. CASE Receives(c)
      BY <2>7, <3>1, <3>2, AppendContains DEF Receives
    <3>3. CASE ~Receives(c)
      BY <2>1, <2>10, <3>1, <3>3 DEF Keeps, Starts, Queues
    <3> QED BY <3>2, <3>3
  <2> QED BY <2>5, <2>6, <2>8, <2>9, <2>10
<1> QED BY <1>4, <1>5, <1>7

\* A subscriber misses no event that was not refused or cut off, and gets the
\* events of one emitter in the order in which they were emitted, whatever
\* the connections, the emitters, the buffer and the queues
\* (_on_runtime_event, _subscribe, _writer_loop).
THEOREM EventsReachSubscribers == Spec => []EventsArrive
<1>1. Init => IInv
  BY InitIInv
<1>2. IInv /\ [Next]_vars => IInv'
  BY NextTyped, NextNumbers, NextQuiet, NextFlow, NextNothingMissed DEF IInv
<1>3. IInv => EventsArrive
  <2> SUFFICES ASSUME IInv PROVE EmittersInOrder
    BY DEF IInv, EventsArrive
  <2>1. \A c \in Connections : got[c] \in Seq(1..MaxEvents)
    BY ConnectionTyped DEF IInv
  <2>2. \A c \in Connections : DOMAIN got[c] = 1..Len(got[c])
    BY <2>1
  <2> QED BY <2>2 DEF IInv, FlowInOrder, Flow, Ordered, Before, EmittersInOrder
<1> QED BY <1>1, <1>2, <1>3, PTL DEF Spec
=============================================================================
