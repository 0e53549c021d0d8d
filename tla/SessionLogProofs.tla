-------------------------- MODULE SessionLogProofs --------------------------
(***************************************************************************)
(* Proofs about SessionLog, for any number of Session objects, entries,    *)
(* crashes and faults.                                                     *)
(***************************************************************************)
EXTENDS SessionLog, WellFoundedInduction, TLAPS

\* An append in progress works on an entry that has been created, for a
\* Session that exists.
CallsStarted ==
    \A h \in Handles :
        call[h].stage # "idle" => open[h] /\ call[h].entry.id \in Ids

Typed == TypeOK /\ CallsStarted

LEMMA IdleTyped == Idle \in Call /\ Idle.stage = "idle"
BY DEF Idle, NoEntry, Call, Entry, Texts, Stages

\* Moving an append to another stage, or cancelling it, leaves its entry alone.
LEMMA StageTyped ==
    ASSUME NEW c \in Call, NEW stage \in Stages
    PROVE  /\ [c EXCEPT !.stage = stage] \in Call
           /\ [c EXCEPT !.stage = stage].stage = stage
           /\ [c EXCEPT !.stage = stage].entry = c.entry
BY DEF Call

LEMMA CancelledTyped ==
    ASSUME NEW c \in Call
    PROVE  /\ [c EXCEPT !.cancelled = TRUE] \in Call
           /\ [c EXCEPT !.cancelled = TRUE].stage = c.stage
           /\ [c EXCEPT !.cancelled = TRUE].entry = c.entry
BY DEF Call

LEMMA InitTyped == Init => Typed
BY MaxEntriesAssumption, IdleTyped
   DEF Init, Typed, TypeOK, CallsStarted, Ids, Root, Holders

\* A piece made from an append in progress is a piece.
LEMMA PieceTyped ==
    ASSUME Typed, NEW h \in Handles, call[h].stage # "idle",
           NEW text \in Texts, NEW ended \in BOOLEAN
    PROVE  PieceOf(h, text, ended) \in Piece
BY DEF Typed, TypeOK, CallsStarted, PieceOf, Piece, Call, Entry

\* A file cut at n is a file of n pieces, with the same entries in it.
LEMMA CutTyped ==
    ASSUME disk \in Seq(Piece), NEW n \in 1..Len(disk), NEW text \in Texts
    PROVE  /\ CutAt(n, text) \in Seq(Piece)
           /\ Len(CutAt(n, text)) = n
           /\ \A i \in 1..n : /\ CutAt(n, text)[i].id = disk[i].id
                              /\ CutAt(n, text)[i].parent = disk[i].parent
                              /\ CutAt(n, text)[i].to = disk[i].to
<1> DEFINE kept == SubSeq(disk, 1, n - 1)
           last == [disk[n] EXCEPT !.text = text, !.ended = FALSE]
<1>1. kept \in Seq(Piece) /\ Len(kept) = n - 1 /\ \A i \in 1..(n - 1) : kept[i] = disk[i]
  OBVIOUS
<1>2. disk[n] \in Piece
  OBVIOUS
<1>3. /\ last \in Piece
      /\ last.id = disk[n].id /\ last.parent = disk[n].parent /\ last.to = disk[n].to
  BY <1>2 DEF Piece
<1>4. CutAt(n, text) = Append(kept, last)
  BY DEF CutAt
<1> HIDE DEF kept, last
<1>5. /\ Append(kept, last) \in Seq(Piece)
      /\ Len(Append(kept, last)) = n
      /\ \A i \in 1..(n - 1) : Append(kept, last)[i] = disk[i]
      /\ Append(kept, last)[n] = last
  BY <1>1, <1>3
<1> QED
  BY <1>3, <1>4, <1>5

LEMMA CallTyped ==
    ASSUME Typed, NEW h \in Handles
    PROVE  /\ call[h] \in Call
           /\ call[h].entry.to \in Ids \cup {Root}
           /\ call[h].entry.text \in Texts
           /\ call[h].stage # "idle" => call[h].entry.id \in Ids
BY DEF Typed, TypeOK, CallsStarted, Call, Entry

LEMMA Appended ==
    ASSUME NEW S, NEW s \in Seq(S), NEW x \in S
    PROVE  /\ Append(s, x) \in Seq(S)
           /\ Len(s) \in Nat /\ Len(Append(s, x)) = Len(s) + 1
           /\ \A i \in 1..Len(s) : Append(s, x)[i] = s[i]
           /\ Append(s, x)[Len(s) + 1] = x
OBVIOUS

\* A piece at the end of the file leaves the others, and the synced prefix.
LEMMA DiskGrows ==
    ASSUME Typed, NEW h \in Handles, call[h].stage # "idle",
           NEW text \in Texts, NEW ended \in BOOLEAN,
           disk' = Append(disk, PieceOf(h, text, ended))
    PROVE  /\ disk' \in Seq(Piece)
           /\ synced \in 0..Len(disk')
           /\ Len(disk) \in Nat /\ Len(disk') = Len(disk) + 1
           /\ \A i \in 1..Len(disk) : disk'[i] = disk[i]
           /\ disk'[Len(disk) + 1] = PieceOf(h, text, ended)
<1>1. PieceOf(h, text, ended) \in Piece
  BY PieceTyped
<1>2. disk \in Seq(Piece) /\ synced \in 0..Len(disk)
  BY DEF Typed, TypeOK
<1> QED BY <1>1, <1>2, Appended

\* An append that goes on to another stage.
LEMMA CallMoves ==
    ASSUME Typed, NEW h \in Handles, call[h].stage # "idle",
           NEW stage \in Stages, call' = [call EXCEPT ![h].stage = stage], UNCHANGED open
    PROVE  /\ call' \in [Handles -> Call]
           /\ CallsStarted'
           /\ call'[h].stage = stage
           /\ \A g \in Handles : call'[g].entry = call[g].entry
           /\ \A g \in Handles \ {h} : call'[g] = call[g]
<1>1. call' = [call EXCEPT ![h] = [call[h] EXCEPT !.stage = stage]]
  OBVIOUS
<1>2. call \in [Handles -> Call] /\ call[h] \in Call
  BY DEF Typed, TypeOK
<1> QED
  BY <1>1, <1>2, StageTyped DEF Typed, CallsStarted

\* The decoded line that decides the leaf exists: of a set of positions, the
\* last one is the one nearest to the end of the file.
LEMMA LastExists ==
    ASSUME NEW n \in Nat, NEW S \in SUBSET (1..n), S # {}
    PROVE  \E i \in S : \A j \in S : j <= i
<1> DEFINE T == {k \in Nat : \E i \in S : k = n - i}
<1>1. T \subseteq Nat /\ T # {}
  <2>1. PICK i \in 1..n : i \in S
    OBVIOUS
  <2>2. n - i \in T
    BY <2>1
  <2> QED BY <2>2
<1> HIDE DEF T
<1>2. PICK m \in T : \A k \in T : ~(<<k, m>> \in OpToRel(<, Nat))
  BY <1>1, NatLessThanWellFounded, WFMin
<1>3. ASSUME NEW k \in T PROVE m <= k
  <2>1. m \in Nat /\ k \in Nat
    BY <1>1
  <2>2. k < m => <<k, m>> \in OpToRel(<, Nat)
    BY <2>1 DEF OpToRel
  <2>3. ~(k < m)
    BY <1>2, <2>2, Zenon
  <2> QED BY <2>1, <2>3
<1>4. PICK i \in S : m = n - i
  BY DEF T
<1>5. ASSUME NEW j \in S PROVE n - j \in T
  <2>1. j \in 1..n /\ n - j \in Nat
    OBVIOUS
  <2> QED BY <2>1 DEF T
<1>6. ASSUME NEW j \in S PROVE j <= i
  <2>1. m <= n - j
    BY <1>3, <1>5
  <2> QED BY <1>4, <2>1
<1> QED
  BY <1>6

\* The leaf a reader ends with is the one its last decoded line names.
LEMMA ReadLeafNamed ==
    ASSUME disk \in Seq(Piece)
    PROVE  ReadLeaf = Root \/ \E i \in 1..Len(disk) : ReadLeaf = disk[i].to
<1>1. CASE \E i \in 1..Len(disk) : Decodes(i)
  <2> DEFINE S == {i \in 1..Len(disk) : Decodes(i)}
  <2>1. \E i \in S : \A j \in S : j <= i
    <3>1. S \in SUBSET (1..Len(disk)) /\ S # {}
      BY <1>1
    <3>2. Len(disk) \in Nat
      OBVIOUS
    <3> HIDE DEF S
    <3> QED BY <3>1, <3>2, LastExists
  <2>2. \E i \in 1..Len(disk) :
           Decodes(i) /\ \A j \in 1..Len(disk) : Decodes(j) => j <= i
    BY <2>1
  <2> QED BY <1>1, <2>2 DEF ReadLeaf
<1>2. CASE ~\E i \in 1..Len(disk) : Decodes(i)
  BY <1>2 DEF ReadLeaf
<1> QED BY <1>1, <1>2

LEMMA ReadTyped ==
    ASSUME Typed
    PROVE  ReadLeaf \in Ids \cup {Root} /\ DecodedIds \in SUBSET Ids
<1>1. disk \in Seq(Piece)
  BY DEF Typed, TypeOK
<1>2. \A i \in 1..Len(disk) : disk[i] \in Piece
  BY <1>1
<1>3. \A i \in 1..Len(disk) : disk[i].id \in Ids /\ disk[i].to \in Ids \cup {Root}
  BY <1>2 DEF Piece
<1>4. ReadLeaf \in Ids \cup {Root}
  BY <1>1, <1>3, ReadLeafNamed
<1>5. DecodedIds \in SUBSET Ids
  BY <1>3 DEF DecodedIds
<1> QED BY <1>4, <1>5

LEMMA NextTyped == Typed /\ [Next]_vars => Typed'
<1> SUFFICES ASSUME Typed, [Next]_vars PROVE Typed'
  OBVIOUS
<1> USE DEF Typed, TypeOK, CallsStarted
<1>1. ASSUME NEW h \in Handles, Open(h) PROVE Typed'
  BY <1>1, ReadTyped DEF Open
<1>2. ASSUME NEW h \in Handles, Drop(h) PROVE Typed'
  BY <1>2 DEF Drop
<1>3. ASSUME NEW h \in Handles, Acquire(h) PROVE Typed'
  BY ZenonT(60), <1>3, StageTyped DEF Acquire, Holders, Stages
<1>4. ASSUME NEW h \in Handles, Write(h) PROVE Typed'
  <2>1. call[h].stage # "idle" /\ call[h].entry.text \in Texts /\ "written" \in Stages
    BY <1>4, CallTyped DEF Write, Stages
  <2>2. disk' \in Seq(Piece) /\ synced \in 0..Len(disk')
    BY <1>4, <2>1, DiskGrows DEF Write
  <2>3. call' \in [Handles -> Call] /\ CallsStarted'
    BY <1>4, <2>1, CallMoves DEF Write
  <2> QED
    BY <1>4, <2>2, <2>3 DEF Write
<1>5. ASSUME NEW h \in Handles, WriteFails(h) PROVE Typed'
  <2>1. disk' \in Seq(Piece) /\ synced \in 0..Len(disk')
    <3>1. CASE UNCHANGED disk
      BY <3>1
    <3>2. ASSUME NEW text \in Cuts(call[h].entry.text),
                 disk' = Append(disk, PieceOf(h, text, FALSE))
          PROVE  disk' \in Seq(Piece) /\ synced \in 0..Len(disk')
      <4>1. text \in Texts
        BY <1>5, CallTyped DEF Cuts, Texts
      <4>2. call[h].stage # "idle"
        BY <1>5 DEF WriteFails
      <4> QED BY <3>2, <4>1, <4>2, DiskGrows
    <3> QED BY <1>5, <3>1, <3>2 DEF WriteFails
  <2> QED
    BY <1>5, <2>1, IdleTyped DEF WriteFails, Holders
<1>6. ASSUME NEW h \in Handles, FsyncFails(h) PROVE Typed'
  BY <1>6, IdleTyped DEF FsyncFails, Holders
<1>7. ASSUME NEW h \in Handles, ReturnBatched(h) PROVE Typed'
  BY <1>7, IdleTyped, CallTyped DEF ReturnBatched, Remember, Holders
<1>8. ASSUME NEW h \in Handles, StartFsync(h) PROVE Typed'
  BY <1>8, StageTyped DEF StartFsync, Stages
<1>9. ASSUME NEW h \in Handles, Fsync(h) PROVE Typed'
  <2>1. call[h].stage # "idle" /\ "fsynced" \in Stages
    BY <1>9 DEF Fsync, Stages
  <2>2. call' \in [Handles -> Call] /\ CallsStarted'
    BY <1>9, <2>1, CallMoves DEF Fsync
  <2> QED
    BY <1>9, <2>2 DEF Fsync
<1>10. ASSUME NEW h \in Handles, ReturnDurable(h) PROVE Typed'
  BY <1>10, IdleTyped, CallTyped DEF ReturnDurable, Remember, Holders
<1>11. ASSUME NEW h \in Handles, Cancel(h) PROVE Typed'
  <2>1. CASE call' = [call EXCEPT ![h] = Idle]
    BY <1>11, <2>1, IdleTyped DEF Cancel
  <2>2. CASE call' = [call EXCEPT ![h].cancelled = TRUE]
    <3>1. call' = [call EXCEPT ![h] = [call[h] EXCEPT !.cancelled = TRUE]]
      BY <2>2
    <3>2. [call[h] EXCEPT !.cancelled = TRUE] \in Call
      BY CallTyped, CancelledTyped
    <3> QED
      BY <1>11, <3>1, <3>2, CallTyped, CancelledTyped DEF Cancel
  <2> QED BY <1>11, <2>1, <2>2 DEF Cancel
<1>12. ASSUME NEW h \in Handles, RaiseCancelled(h) PROVE Typed'
  BY <1>12, IdleTyped DEF RaiseCancelled, Holders
<1>13. ASSUME NEW h \in Handles, DelayedFlush(h) PROVE Typed'
  BY <1>13 DEF DelayedFlush, TakeForFlush, Holders
<1>14. ASSUME NEW h \in Handles, DurableFlush(h) PROVE Typed'
  BY <1>14 DEF DurableFlush, TakeForFlush, Holders
<1>15. ASSUME NEW h \in Handles, FlushFsync(h) PROVE Typed'
  BY <1>15 DEF FlushFsync, Holders
<1>16. ASSUME NEW h \in Handles, EndFlush(h) PROVE Typed'
  BY <1>16 DEF EndFlush, Holders
<1>17. ASSUME NEW h \in Handles, NEW durable \in BOOLEAN, NEW text \in Contents,
              NEW to \in Ids \cup {Root}, Begin(h, durable, text, to)
       PROVE  Typed'
  <2>1. created + 1 \in Ids
    BY <1>17, MaxEntriesAssumption DEF Begin, Ids
  <2> DEFINE entry == [id |-> created + 1, parent |-> leaf[h], to |-> to, text |-> text]
             new == [stage |-> "lock", durable |-> durable, cancelled |-> FALSE,
                     entry |-> entry]
  <2>2. new \in Call /\ new.entry.id = created + 1
    BY <2>1, ContentsAssumption DEF Call, Entry, Stages, Texts
  <2> QED
    BY <1>17, <2>1, <2>2, MaxEntriesAssumption DEF Begin
<1>18. CASE Kill
  BY <1>18, IdleTyped DEF Kill, ProcessGone, Holders, Root
<1>19. CASE Crash
  <2>1. disk' \in Seq(Piece) /\ synced' \in 0..Len(disk')
    <3>1. PICK n \in synced..Len(disk) :
             /\ synced' = n
             /\ \/ disk' = SubSeq(disk, 1, n)
                \/ n > synced /\ \E text \in Cuts(disk[n].text) : disk' = CutAt(n, text)
      BY <1>19 DEF Crash
    <3>2. CASE disk' = SubSeq(disk, 1, n)
      BY <3>1, <3>2
    <3>3. CASE n > synced /\ \E text \in Cuts(disk[n].text) : disk' = CutAt(n, text)
      <4>1. n \in 1..Len(disk) /\ disk[n] \in Piece
        BY <3>3
      <4>2. Cuts(disk[n].text) \subseteq Texts
        BY <4>1 DEF Cuts, Texts, Piece
      <4> QED BY <3>1, <3>3, <4>1, <4>2, CutTyped
    <3> QED BY <3>1, <3>2, <3>3
  <2> QED
    BY <1>19, <2>1, IdleTyped DEF Crash, ProcessGone, Holders, Root
<1>20. CASE UNCHANGED vars
  BY <1>20 DEF vars
<1> QED
  BY <1>1, <1>2, <1>3, <1>4, <1>5, <1>6, <1>7, <1>8, <1>9, <1>10, <1>11, <1>12, <1>13,
     <1>14, <1>15, <1>16, <1>17, <1>18, <1>19, <1>20
     DEF Next, Progress, Environment

\* The state of every behaviour of the Session log has the types TypeOK says:
\* in particular the synced prefix never runs ahead of the file.
THEOREM TypeCorrect == Spec => []TypeOK
<1>1. Spec => []Typed
  BY InitTyped, NextTyped, PTL DEF Spec
<1> QED BY <1>1, PTL DEF Typed

-----------------------------------------------------------------------------
\* The inductive invariant: what appends in progress and Session objects know
\* is in the file, and what the file's entries name comes earlier in it.

DiskIds == {disk[i].id : i \in 1..Len(disk)}

\* An append past its write has its piece in the file, one past its fsync has
\* it on stable storage.
AppendsWritten ==
    \A h \in Handles :
        /\ call[h].stage \in {"written", "fsync", "fsynced"} => call[h].entry.id \in DiskIds
        /\ call[h].stage = "fsynced" => call[h].entry.id \in SyncedIds

\* An entry names nothing that comes after it in the file.
Linked(file) ==
    \A i \in 1..Len(file) :
        \A id \in {file[i].parent, file[i].to} \ {Root, file[i].id} :
            \E j \in 1..(i - 1) : file[j].id = id

LinksBackward == Linked(disk)

\* A Session knows, and an append is about to name, entries of the file only.
SessionsOnDisk ==
    \A h \in Handles :
        open[h] => seen[h] \subseteq DiskIds /\ leaf[h] \in DiskIds \cup {Root}

AppendsLinked ==
    \A h \in Handles :
        call[h].stage # "idle" =>
            /\ call[h].entry.parent \in DiskIds \cup {Root}
            /\ call[h].entry.to \in DiskIds \cup {Root, call[h].entry.id}

IInv ==
    /\ Typed
    /\ AppendsWritten
    /\ PromisesKept
    /\ LinksBackward
    /\ SessionsOnDisk
    /\ AppendsLinked

LEMMA InitIInv == Init => IInv
<1> SUFFICES ASSUME Init PROVE IInv
  OBVIOUS
<1>1. Len(disk) = 0
  BY DEF Init
<1>2. Idle.stage = "idle"
  BY IdleTyped
<1> QED
  BY <1>1, <1>2, InitTyped
     DEF Init, IInv, AppendsWritten, PromisesKept, LinksBackward, Linked, SessionsOnDisk, AppendsLinked

\* What the four ways a step can treat the file do to its ids and links.
LEMMA SameFile ==
    ASSUME UNCHANGED <<disk, synced>>
    PROVE  /\ DiskIds' = DiskIds /\ SyncedIds' = SyncedIds
           /\ LinksBackward => LinksBackward'
<1>1. DiskIds' = DiskIds /\ SyncedIds' = SyncedIds
  BY DEF DiskIds, SyncedIds
<1>2. LinksBackward => LinksBackward'
  BY DEF LinksBackward
<1> QED BY <1>1, <1>2

LEMMA SyncedFile ==
    ASSUME Typed, UNCHANGED disk, synced' = Len(disk)
    PROVE  /\ DiskIds' = DiskIds /\ SyncedIds' = DiskIds /\ SyncedIds \subseteq DiskIds
           /\ LinksBackward => LinksBackward'
<1>1. disk \in Seq(Piece) /\ synced \in 0..Len(disk)
  BY DEF Typed, TypeOK
<1> QED BY <1>1 DEF DiskIds, SyncedIds, LinksBackward

\* A crash leaves a prefix of the file, with the same entries in it.
LEMMA CrashPrefix ==
    ASSUME Typed, Crash
    PROVE  \E n \in synced..Len(disk) :
                /\ synced' = n
                /\ Len(disk') = n
                /\ \A i \in 1..n : /\ disk'[i].id = disk[i].id
                                   /\ disk'[i].parent = disk[i].parent
                                   /\ disk'[i].to = disk[i].to
<1>1. PICK n \in synced..Len(disk) :
         /\ synced' = n
         /\ \/ disk' = SubSeq(disk, 1, n)
            \/ n > synced /\ \E text \in Cuts(disk[n].text) : disk' = CutAt(n, text)
  BY DEF Crash
<1>2. disk \in Seq(Piece) /\ synced \in 0..Len(disk) /\ Len(disk) \in Nat
  BY DEF Typed, TypeOK
<1>3. /\ Len(disk') = n
      /\ \A i \in 1..n : /\ disk'[i].id = disk[i].id
                         /\ disk'[i].parent = disk[i].parent
                         /\ disk'[i].to = disk[i].to
  <2>1. CASE disk' = SubSeq(disk, 1, n)
    BY <1>2, <2>1
  <2>2. CASE n > synced /\ \E text \in Cuts(disk[n].text) : disk' = CutAt(n, text)
    <3>1. n \in 1..Len(disk) /\ disk[n] \in Piece
      BY <1>2, <2>2
    <3>2. Cuts(disk[n].text) \subseteq Texts
      BY <3>1 DEF Cuts, Texts, Piece
    <3> QED BY <1>2, <2>2, <3>1, <3>2, CutTyped
  <2> QED BY <1>1, <2>1, <2>2
<1> QED BY <1>1, <1>3

LEMMA GrownFile ==
    ASSUME IInv, NEW h \in Handles, call[h].stage # "idle",
           NEW text \in Texts, NEW ended \in BOOLEAN,
           disk' = Append(disk, PieceOf(h, text, ended)), UNCHANGED synced
    PROVE  /\ DiskIds' = DiskIds \cup {call[h].entry.id}
           /\ SyncedIds' = SyncedIds
           /\ LinksBackward'
<1> DEFINE n == Len(disk)
           new == PieceOf(h, text, ended)
<1>1. /\ n \in Nat /\ Len(disk') = n + 1
      /\ \A i \in 1..n : disk'[i] = disk[i]
      /\ disk'[n + 1] = new
  BY DiskGrows DEF IInv
<1>2. /\ new.id = call[h].entry.id
      /\ new.parent = call[h].entry.parent
      /\ new.to = call[h].entry.to
  BY DEF PieceOf
<1>3. synced \in 0..n
  BY DEF IInv, Typed, TypeOK
<1> HIDE DEF new
<1>4. DiskIds' = DiskIds \cup {call[h].entry.id}
  BY <1>1, <1>2 DEF DiskIds
<1>5. SyncedIds' = SyncedIds
  BY <1>1, <1>3 DEF SyncedIds
<1>6. ASSUME NEW i \in 1..(n + 1),
             NEW id \in {disk'[i].parent, disk'[i].to} \ {Root, disk'[i].id}
      PROVE  \E j \in 1..(i - 1) : disk'[j].id = id
  <2>1. CASE i \in 1..n
    <3>1. PICK j \in 1..(i - 1) : disk[j].id = id
      BY <1>1, <2>1 DEF IInv, LinksBackward, Linked
    <3>2. disk'[j] = disk[j]
      BY <1>1, <2>1
    <3> QED BY <3>1, <3>2
  <2>2. CASE i = n + 1
    <3>1. id \in DiskIds
      BY <1>1, <1>2, <2>2 DEF IInv, AppendsLinked
    <3> QED BY <1>1, <2>2, <3>1 DEF DiskIds
  <2> QED BY <1>1, <2>1, <2>2
<1>7. LinksBackward'
  BY <1>1, <1>6 DEF LinksBackward, Linked
<1> QED BY <1>4, <1>5, <1>7

LEMMA CrashedFile ==
    ASSUME IInv, Crash
    PROVE  SyncedIds \subseteq SyncedIds' /\ LinksBackward'
<1>1. PICK n \in synced..Len(disk) : synced' = n /\ Len(disk') = n /\
         \A i \in 1..n : /\ disk'[i].id = disk[i].id
                         /\ disk'[i].parent = disk[i].parent
                         /\ disk'[i].to = disk[i].to
  BY CrashPrefix DEF IInv
<1>2. synced \in 0..Len(disk) /\ Len(disk) \in Nat
  BY DEF IInv, Typed, TypeOK
<1>3. /\ Len(disk') = n
      /\ \A i \in 1..n : /\ disk'[i].id = disk[i].id
                         /\ disk'[i].parent = disk[i].parent
                         /\ disk'[i].to = disk[i].to
  BY <1>1
<1>4. SyncedIds \subseteq SyncedIds'
  BY <1>1, <1>2, <1>3 DEF SyncedIds
<1>5. LinksBackward'
  <2>1. ASSUME NEW i \in 1..n, NEW id \in {disk'[i].parent, disk'[i].to} \ {Root, disk'[i].id}
        PROVE  \E j \in 1..(i - 1) : disk'[j].id = id
    <3>1. i \in 1..Len(disk) /\ id \in {disk[i].parent, disk[i].to} \ {Root, disk[i].id}
      BY <1>1, <1>2, <1>3
    <3>2. PICK j \in 1..(i - 1) : disk[j].id = id
      BY <3>1 DEF IInv, LinksBackward, Linked
    <3>3. disk'[j].id = disk[j].id
      BY <1>1, <1>2, <1>3
    <3> QED BY <3>2, <3>3
  <2> QED BY <1>3, <2>1 DEF LinksBackward, Linked
<1> QED BY <1>4, <1>5

LEMMA NextIInv == IInv /\ [Next]_vars => IInv'
<1> SUFFICES ASSUME IInv, [Next]_vars PROVE IInv'
  OBVIOUS
<1>1. Typed /\ Typed'
  BY NextTyped DEF IInv
<1> DEFINE Rest == /\ AppendsWritten
                   /\ PromisesKept
                   /\ LinksBackward
                   /\ SessionsOnDisk
                   /\ AppendsLinked
<1>2. Rest
  BY DEF IInv
<1>3. \A h \in Handles : call[h] \in Call /\ call \in [Handles -> Call]
                         /\ open \in [Handles -> BOOLEAN]
                         /\ leaf \in [Handles -> Ids \cup {Root}]
                         /\ seen \in [Handles -> SUBSET Ids]
  BY <1>1 DEF Typed, TypeOK
<1> USE DEF AppendsWritten, PromisesKept, SessionsOnDisk, AppendsLinked
<1>4. ASSUME NEW h \in Handles, Drop(h) PROVE Rest'
  BY <1>4, <1>1, <1>2, <1>3, SameFile, IdleTyped DEF Drop
<1>5. ASSUME NEW h \in Handles, FsyncFails(h) PROVE Rest'
  BY <1>5, <1>1, <1>2, <1>3, SameFile, IdleTyped DEF FsyncFails
<1>6. ASSUME NEW h \in Handles, RaiseCancelled(h) PROVE Rest'
  BY <1>6, <1>1, <1>2, <1>3, SameFile, IdleTyped DEF RaiseCancelled
<1>7. ASSUME NEW h \in Handles, DelayedFlush(h) PROVE Rest'
  BY <1>7, <1>1, <1>2, <1>3, SameFile, IdleTyped DEF DelayedFlush, TakeForFlush
<1>8. ASSUME NEW h \in Handles, DurableFlush(h) PROVE Rest'
  BY <1>8, <1>1, <1>2, <1>3, SameFile, IdleTyped DEF DurableFlush, TakeForFlush
<1>9. ASSUME NEW h \in Handles, EndFlush(h) PROVE Rest'
  BY <1>9, <1>1, <1>2, <1>3, SameFile, IdleTyped DEF EndFlush
<1>10. ASSUME NEW h \in Handles, ReturnBatched(h) PROVE Rest'
  BY <1>10, <1>1, <1>2, <1>3, SameFile, IdleTyped DEF ReturnBatched, Remember
<1>11. ASSUME NEW h \in Handles, ReturnDurable(h) PROVE Rest'
  BY <1>11, <1>1, <1>2, <1>3, SameFile, IdleTyped DEF ReturnDurable, Remember
<1>12. ASSUME NEW h \in Handles, Acquire(h) PROVE Rest'
  <2>1. call[h].stage # "idle" /\ "write" \in Stages
    BY <1>12 DEF Acquire, Stages
  <2> QED
    BY <1>12, <1>1, <1>2, <2>1, SameFile, CallMoves DEF Acquire
<1>13. ASSUME NEW h \in Handles, StartFsync(h) PROVE Rest'
  <2>1. call[h].stage # "idle" /\ "fsync" \in Stages
    BY <1>13 DEF StartFsync, Stages
  <2> QED
    BY <1>13, <1>1, <1>2, <2>1, SameFile, CallMoves DEF StartFsync
<1>14. ASSUME NEW h \in Handles, Cancel(h) PROVE Rest'
  <2>1. CASE call' = [call EXCEPT ![h] = Idle]
    BY <1>14, <1>1, <1>2, <1>3, <2>1, SameFile, IdleTyped DEF Cancel
  <2>2. CASE call' = [call EXCEPT ![h].cancelled = TRUE]
    <3>1. call' = [call EXCEPT ![h] = [call[h] EXCEPT !.cancelled = TRUE]]
      BY <2>2
    <3> QED
      BY <1>14, <1>1, <1>2, <1>3, <3>1, SameFile, CancelledTyped DEF Cancel
  <2> QED BY <1>14, <2>1, <2>2 DEF Cancel
<1>15. ASSUME NEW h \in Handles, Open(h) PROVE Rest'
  <2>1. disk \in Seq(Piece)
    BY <1>1 DEF Typed, TypeOK
  <2>2. DecodedIds \subseteq DiskIds
    BY DEF DecodedIds, DiskIds
  <2>3. ReadLeaf \in DiskIds \cup {Root}
    <3>1. ASSUME NEW i \in 1..Len(disk) PROVE disk[i].to \in DiskIds \cup {Root}
      <4>1. disk[i].to \in {Root, disk[i].id} \/ \E j \in 1..(i - 1) : disk[j].id = disk[i].to
        BY <1>2 DEF LinksBackward, Linked
      <4>2. 1..(i - 1) \subseteq 1..Len(disk) /\ Len(disk) \in Nat
        BY <2>1
      <4> QED BY <4>1, <4>2 DEF DiskIds
    <3> QED BY <2>1, <3>1, ReadLeafNamed
  <2> QED
    BY <1>15, <1>1, <1>2, <1>3, <2>2, <2>3, SameFile DEF Open
<1>16. ASSUME NEW h \in Handles, NEW durable \in BOOLEAN, NEW text \in Contents,
              NEW to \in Ids \cup {Root}, Begin(h, durable, text, to)
       PROVE  Rest'
  <2> DEFINE new == [stage |-> "lock", durable |-> durable, cancelled |-> FALSE,
                     entry |-> [id |-> created + 1, parent |-> leaf[h],
                                to |-> to, text |-> text]]
  <2>1. call' = [call EXCEPT ![h] = new]
    BY <1>16 DEF Begin
  <2>2. /\ new.stage = "lock" /\ new.entry.id = created + 1
        /\ new.entry.parent = leaf[h] /\ new.entry.to = to
    OBVIOUS
  <2>3. to \in DiskIds \cup {Root, created + 1} /\ leaf[h] \in DiskIds \cup {Root}
    BY <1>16, <1>2 DEF Begin
  <2> HIDE DEF new
  <2> QED
    BY <1>16, <1>1, <1>2, <1>3, <2>1, <2>2, <2>3, SameFile DEF Begin
<1>17. ASSUME NEW h \in Handles, Write(h) PROVE Rest'
  <2>1. call[h].stage # "idle" /\ call[h].entry.text \in Texts /\ "written" \in Stages
    BY <1>17, <1>1, CallTyped DEF Write, Stages
  <2>2. /\ DiskIds' = DiskIds \cup {call[h].entry.id} /\ SyncedIds' = SyncedIds
        /\ LinksBackward'
    BY <1>17, <2>1, GrownFile DEF Write
  <2> QED
    BY <1>17, <1>1, <1>2, <2>1, <2>2, CallMoves DEF Write
<1>18. ASSUME NEW h \in Handles, WriteFails(h) PROVE Rest'
  <2>1. DiskIds \subseteq DiskIds' /\ SyncedIds' = SyncedIds /\ LinksBackward'
    <3>1. CASE UNCHANGED disk
      BY <1>18, <1>2, <3>1, SameFile DEF WriteFails
    <3>2. ASSUME NEW text \in Cuts(call[h].entry.text),
                 disk' = Append(disk, PieceOf(h, text, FALSE))
          PROVE  DiskIds \subseteq DiskIds' /\ SyncedIds' = SyncedIds /\ LinksBackward'
      <4>1. text \in Texts
        BY <1>1, CallTyped DEF Cuts, Texts
      <4>2. call[h].stage # "idle" /\ UNCHANGED synced
        BY <1>18 DEF WriteFails
      <4> QED BY <3>2, <4>1, <4>2, GrownFile
    <3> QED BY <1>18, <3>1, <3>2 DEF WriteFails
  <2> QED
    BY <1>18, <1>1, <1>2, <1>3, <2>1, IdleTyped DEF WriteFails
<1>19. ASSUME NEW h \in Handles, Fsync(h) PROVE Rest'
  <2>1. call[h].stage # "idle" /\ "fsynced" \in Stages
    BY <1>19 DEF Fsync, Stages
  <2> QED
    BY <1>19, <1>1, <1>2, <2>1, SyncedFile, CallMoves DEF Fsync
<1>20. ASSUME NEW h \in Handles, FlushFsync(h) PROVE Rest'
  BY <1>20, <1>1, <1>2, SyncedFile DEF FlushFsync
<1>21. ASSUME Kill PROVE Rest'
  BY <1>21, <1>1, <1>2, SameFile, IdleTyped DEF Kill, ProcessGone
<1>22. ASSUME Crash PROVE Rest'
  BY <1>22, <1>1, <1>2, CrashedFile, IdleTyped DEF Crash, ProcessGone
<1>23. ASSUME UNCHANGED vars PROVE Rest'
  BY <1>23, <1>1, <1>2, SameFile DEF vars
<1> QED
  <2>1. Rest'
    BY <1>4, <1>5, <1>6, <1>7, <1>8, <1>9, <1>10, <1>11, <1>12, <1>13, <1>14,
       <1>15, <1>16, <1>17, <1>18, <1>19, <1>20, <1>21, <1>22, <1>23
       DEF Next, Progress, Environment
  <2> QED BY <1>1, <2>1 DEF IInv

LEMMA AlwaysIInv == Spec => []IInv
BY InitIInv, NextIInv, PTL DEF Spec

\* A durable append that has returned is on stable storage for ever after: a
\* turn's run_end, a session's configuration and its leaf survive any crash.
THEOREM Durability == Spec => []PromisesKept
BY AlwaysIInv, PTL DEF IInv

\* On a file that open() accepts, an entry that decodes comes after nothing but
\* entries that decode: one that does not would share its last line.
LEMMA EarlierDecodes ==
    ASSUME Typed, Readable, NEW i \in 1..Len(disk), Decodes(i), NEW j \in 1..(i - 1)
    PROVE  Decodes(j)
<1>1. Len(disk) \in Nat
  BY DEF Typed, TypeOK
<1>2. disk[i - 1].ended
  BY <1>1 DEF Decodes, StartsLine
<1>3. i - 1 \in j..(Len(disk) - 1) /\ j \in 1..Len(disk)
  BY <1>1
<1>4. ~OnLastLine(j)
  BY <1>2, <1>3 DEF OnLastLine
<1> QED BY <1>3, <1>4 DEF Readable

\* Whatever was cut, lost, cancelled or written by other Sessions: in a file
\* that open() accepts, get_branch and build_context find every parent and
\* every leaf.
THEOREM BranchesAlwaysResolve == Spec => []BranchesResolve
<1>1. IInv => BranchesResolve
  <2> SUFFICES ASSUME IInv, Readable, NEW i \in 1..Len(disk), Decodes(i),
                      NEW id \in {disk[i].parent, disk[i].to} \ {Root, disk[i].id}
               PROVE  \E j \in 1..(i - 1) : Decodes(j) /\ disk[j].id = id
    BY DEF BranchesResolve
  <2>1. PICK j \in 1..(i - 1) : disk[j].id = id
    BY DEF IInv, LinksBackward, Linked
  <2>2. Decodes(j)
    BY EarlierDecodes DEF IInv
  <2> QED BY <2>1, <2>2
<1> QED BY <1>1, AlwaysIInv, PTL

-----------------------------------------------------------------------------
(* Appends and their flushes: the ids of entries from their append to the  *)
(* file.                                                                   *)

\* An append holds its Session's lock from before its write to its end.
Working == {"write", "written", "fsync", "fsynced"}
LocksHeld == \A h \in Handles : call[h].stage \in Working <=> lock[h] = "call"

\* Every id that is in use has been handed out.
IdsCreated ==
    /\ \A i \in 1..Len(disk) : disk[i].id <= created
    /\ \A h \in Handles : call[h].stage # "idle" => call[h].entry.id <= created
    /\ \A id \in acked : id <= created

\* The entry of an append in progress is of no other Session, and nobody has
\* been told that it is there.
IdsOwned ==
    \A h \in Handles : call[h].stage # "idle" =>
        /\ \A i \in 1..Len(disk) : disk[i].id = call[h].entry.id => disk[i].by = h
        /\ \A g \in Handles \ {h} : call[g].stage # "idle" => call[g].entry.id # call[h].entry.id
        /\ call[h].entry.id \notin acked

\* Between its fsync and the release of its lock a Session writes nothing, so
\* that its dirty mark may go.
SyncCovers ==
    \A h \in Handles : call[h].stage = "fsynced" \/ lock[h] = "flushed" =>
        \A i \in (synced + 1)..Len(disk) : disk[i].by # h

FInv == Typed /\ LocksHeld /\ IdsCreated /\ IdsOwned /\ SyncCovers /\ BatchesArePending

LEMMA InitFInv == Init => FInv
<1> SUFFICES ASSUME Init PROVE FInv
  OBVIOUS
<1>1. Typed
  BY InitTyped
<1>2. Len(disk) = 0 /\ synced = 0 /\ acked = {}
  BY DEF Init
<1>3. \A h \in Handles : call[h].stage = "idle" /\ lock[h] = "free"
  BY IdleTyped DEF Init
<1> QED
  BY <1>1, <1>2, <1>3
     DEF FInv, LocksHeld, Working, IdsCreated, IdsOwned, SyncCovers, BatchesArePending

LEMMA NextLocks == Typed /\ LocksHeld /\ [Next]_vars => LocksHeld'
<1> SUFFICES ASSUME Typed, LocksHeld, [Next]_vars PROVE LocksHeld'
  OBVIOUS
<1>1. call \in [Handles -> Call] /\ lock \in [Handles -> Holders]
  BY DEF Typed, TypeOK
<1> USE DEF LocksHeld, Working
<1>2. ASSUME NEW h \in Handles, NEW stage \in Working, call[h].stage \in Working,
             call' = [call EXCEPT ![h].stage = stage], UNCHANGED lock
      PROVE  LocksHeld'
  <2>1. stage \in Stages
    BY DEF Stages
  <2> QED BY <1>1, <1>2, <2>1, StageTyped
<1>3. ASSUME NEW h \in Handles, call[h].stage = "idle" \/ lock[h] \in {"call", "free"},
             call' = [call EXCEPT ![h] = Idle], lock' = [lock EXCEPT ![h] = "free"]
      PROVE  LocksHeld'
  BY <1>1, <1>3, IdleTyped
<1>4. ASSUME NEW h \in Handles, NEW holder \in {"free", "flush", "flushed"},
             lock[h] # "call", lock' = [lock EXCEPT ![h] = holder], UNCHANGED call
      PROVE  LocksHeld'
  BY <1>1, <1>4
<1>5. ASSUME NEW h \in Handles, Acquire(h) PROVE LocksHeld'
  BY <1>1, <1>5, StageTyped DEF Acquire, Stages
<1>6. ASSUME NEW h \in Handles, Write(h) \/ StartFsync(h) \/ Fsync(h) PROVE LocksHeld'
  BY <1>2, <1>6 DEF Write, StartFsync, Fsync
<1>7. ASSUME NEW h \in Handles,
             ReturnBatched(h) \/ ReturnDurable(h) \/ RaiseCancelled(h) \/ WriteFails(h)
      PROVE  LocksHeld'
  BY <1>3, <1>7 DEF ReturnBatched, ReturnDurable, Remember, RaiseCancelled, WriteFails
<1>8. ASSUME NEW h \in Handles, TakeForFlush(h) \/ FlushFsync(h) \/ EndFlush(h)
      PROVE  LocksHeld'
  <2>1. CASE TakeForFlush(h)
    BY <1>4, <2>1 DEF TakeForFlush
  <2>2. CASE FlushFsync(h)
    BY <1>4, <2>2 DEF FlushFsync
  <2>3. CASE EndFlush(h)
    BY <1>4, <2>3 DEF EndFlush
  <2> QED BY <1>8, <2>1, <2>2, <2>3
<1>9. ASSUME NEW h \in Handles, Open(h) \/ Drop(h) PROVE LocksHeld'
  BY <1>9 DEF Open, Drop
<1>10. ASSUME NEW h \in Handles, NEW durable \in BOOLEAN, NEW text \in Contents,
              NEW to \in Ids \cup {Root}, Begin(h, durable, text, to)
       PROVE  LocksHeld'
  BY <1>1, <1>10 DEF Begin
<1>11. ASSUME NEW h \in Handles, Cancel(h) PROVE LocksHeld'
  BY ZenonT(60), <1>1, <1>11, IdleTyped, CancelledTyped DEF Cancel
<1>12. ASSUME NEW h \in Handles, FsyncFails(h) PROVE LocksHeld'
  <2>1. CASE call[h].stage = "fsync" /\ call' = [call EXCEPT ![h] = Idle]
    BY <1>3, <1>12, <2>1 DEF FsyncFails
  <2>2. CASE lock[h] = "flush" /\ UNCHANGED call
    BY <1>4, <1>12, <2>2 DEF FsyncFails
  <2> QED BY <1>12, <2>1, <2>2 DEF FsyncFails
<1>13. ASSUME Kill \/ Crash PROVE LocksHeld'
  BY <1>13, IdleTyped DEF Kill, Crash, ProcessGone
<1>14. ASSUME UNCHANGED vars PROVE LocksHeld'
  BY <1>14 DEF vars
<1> QED
  BY <1>5, <1>6, <1>7, <1>8, <1>9, <1>10, <1>11, <1>12, <1>13, <1>14
     DEF Next, Progress, Environment, DelayedFlush, DurableFlush

IdsExact == IdsCreated /\ IdsOwned

\* The appends in progress are some of those that were.
CallsKept ==
    \A g \in Handles : call'[g].stage # "idle" =>
        call[g].stage # "idle" /\ call'[g].entry = call[g].entry

LEMMA IdsKept ==
    ASSUME IdsExact, CallsKept, UNCHANGED <<disk, created, acked>>
    PROVE  IdsExact'
BY DEF IdsExact, CallsKept, IdsCreated, IdsOwned

\* The piece that an append adds carries its id and its Session.
LEMMA IdsGrown ==
    ASSUME Typed, IdsExact, CallsKept, NEW h \in Handles, call[h].stage # "idle",
           NEW text \in Texts, NEW ended \in BOOLEAN,
           disk' = Append(disk, PieceOf(h, text, ended)), UNCHANGED <<created, acked>>
    PROVE  IdsExact'
<1> DEFINE new == PieceOf(h, text, ended)
<1>1. /\ Len(disk) \in Nat /\ Len(disk') = Len(disk) + 1
      /\ \A i \in 1..Len(disk) : disk'[i] = disk[i]
      /\ disk'[Len(disk) + 1] = new
  BY DiskGrows
<1>2. new.id = call[h].entry.id /\ new.by = h
  BY DEF PieceOf
<1> HIDE DEF new
<1>3. \A i \in 1..Len(disk') : i \in 1..Len(disk) \/ i = Len(disk) + 1
  BY <1>1
<1>4. IdsCreated'
  BY <1>1, <1>2, <1>3 DEF IdsExact, CallsKept, IdsCreated
<1>5. IdsOwned'
  BY <1>1, <1>2, <1>3 DEF IdsExact, CallsKept, IdsOwned
<1> QED BY <1>4, <1>5 DEF IdsExact

\* An append that returns is over when its id is told.
LEMMA IdsTold ==
    ASSUME IdsExact, NEW h \in Handles, call[h].stage # "idle",
           acked' = acked \cup {call[h].entry.id},
           call'[h].stage = "idle", \A g \in Handles \ {h} : call'[g] = call[g],
           UNCHANGED <<disk, created>>
    PROVE  IdsExact'
BY DEF IdsExact, IdsCreated, IdsOwned

\* After a restart the file holds no id that it did not hold before.
LEMMA IdsCut ==
    ASSUME IdsExact, \A g \in Handles : call'[g].stage = "idle", acked' = {}, UNCHANGED created,
           \A i \in 1..Len(disk') : \E j \in 1..Len(disk) : disk'[i].id = disk[j].id
    PROVE  IdsExact'
BY DEF IdsExact, IdsCreated, IdsOwned

LEMMA IdsBegun ==
    ASSUME Typed, IdsExact, NEW h \in Handles, NEW durable \in BOOLEAN, NEW text \in Contents,
           NEW to \in Ids \cup {Root}, Begin(h, durable, text, to)
    PROVE  IdsExact'
<1>1. call \in [Handles -> Call] /\ created \in Nat
  BY MaxEntriesAssumption DEF Typed, TypeOK
<1>2. /\ call'[h].entry.id = created + 1
      /\ \A g \in Handles \ {h} : call'[g] = call[g]
      /\ created' = created + 1 /\ UNCHANGED <<disk, acked>>
  BY <1>1 DEF Begin
<1>3. /\ \A i \in 1..Len(disk) : disk[i].id \in Nat
      /\ \A g \in Handles : call[g].stage # "idle" => call[g].entry.id \in Nat
      /\ acked \subseteq Nat
  <2>1. Ids \subseteq Nat /\ disk \in Seq(Piece)
    BY MaxEntriesAssumption DEF Ids, Typed, TypeOK
  <2>2. \A i \in 1..Len(disk) : disk[i] \in Piece
    BY <2>1
  <2>3. \A i \in 1..Len(disk) : disk[i].id \in Ids
    BY <2>2 DEF Piece
  <2> QED BY <2>1, <2>3 DEF Typed, TypeOK, CallsStarted
<1>4. IdsCreated'
  BY SMTT(30), <1>1, <1>2, <1>3 DEF IdsExact, IdsCreated
<1>5. IdsOwned'
  BY <1>1, <1>2, <1>3 DEF IdsExact, IdsCreated, IdsOwned
<1> QED BY <1>4, <1>5 DEF IdsExact

LEMMA NextIds == Typed /\ IdsExact /\ [Next]_vars => IdsExact'
<1> SUFFICES ASSUME Typed, IdsExact, [Next]_vars PROVE IdsExact'
  OBVIOUS
<1>1. call \in [Handles -> Call]
  BY DEF Typed, TypeOK
<1>2. ASSUME NEW h \in Handles, call[h].stage # "idle",
             call' = [call EXCEPT ![h] = Idle] \/ \E stage \in Stages :
                        call' = [call EXCEPT ![h].stage = stage]
      PROVE  CallsKept
  <2>1. CASE call' = [call EXCEPT ![h] = Idle]
    BY <1>1, <2>1, IdleTyped DEF CallsKept
  <2>2. ASSUME NEW stage \in Stages, call' = [call EXCEPT ![h].stage = stage] PROVE CallsKept
    <3>1. \A g \in Handles : call'[g].entry = call[g].entry
      BY <1>1, <2>2, StageTyped
    <3>2. \A g \in Handles \ {h} : call'[g] = call[g]
      BY <1>1, <2>2
    <3> QED BY <1>2, <3>1, <3>2 DEF CallsKept
  <2> QED BY <1>2, <2>1, <2>2
<1>3. ASSUME UNCHANGED call PROVE CallsKept
  BY <1>3 DEF CallsKept
<1>4. ASSUME NEW h \in Handles, Acquire(h) \/ StartFsync(h) \/ Fsync(h) \/ RaiseCancelled(h)
      PROVE  IdsExact'
  <2>1. CallsKept
    BY <1>2, <1>4 DEF Acquire, StartFsync, Fsync, RaiseCancelled, Stages
  <2> QED
    BY <1>4, <2>1, IdsKept DEF Acquire, StartFsync, Fsync, RaiseCancelled
<1>5. ASSUME NEW h \in Handles, Cancel(h) PROVE IdsExact'
  <2>1. CallsKept
    BY <1>1, <1>5, IdleTyped, CancelledTyped DEF Cancel, CallsKept
  <2> QED BY <1>5, <2>1, IdsKept DEF Cancel
<1>6. ASSUME NEW h \in Handles, FsyncFails(h) PROVE IdsExact'
  <2>1. CallsKept
    BY <1>2, <1>3, <1>6 DEF FsyncFails
  <2> QED BY <1>6, <2>1, IdsKept DEF FsyncFails
<1>7. ASSUME NEW h \in Handles, Open(h) \/ Drop(h) \/ TakeForFlush(h) \/ FlushFsync(h) \/ EndFlush(h)
      PROVE  IdsExact'
  BY <1>3, <1>7, IdsKept DEF Open, Drop, TakeForFlush, FlushFsync, EndFlush
<1>8. ASSUME NEW h \in Handles, Write(h) PROVE IdsExact'
  <2>1. call[h].stage # "idle" /\ call[h].entry.text \in Texts
    BY <1>8, CallTyped DEF Write
  <2>2. CallsKept
    BY <1>2, <1>8, <2>1 DEF Write, Stages
  <2> QED BY <1>8, <2>1, <2>2, IdsGrown DEF Write
<1>9. ASSUME NEW h \in Handles, WriteFails(h) PROVE IdsExact'
  <2>1. call[h].stage # "idle" /\ CallsKept
    BY <1>2, <1>9 DEF WriteFails
  <2>2. Cuts(call[h].entry.text) \subseteq Texts
    BY CallTyped DEF Cuts, Texts
  <2>3. CASE UNCHANGED disk
    BY <1>9, <2>1, <2>3, IdsKept DEF WriteFails
  <2>4. ASSUME NEW text \in Cuts(call[h].entry.text),
               disk' = Append(disk, PieceOf(h, text, FALSE))
        PROVE  IdsExact'
    BY <1>9, <2>1, <2>2, <2>4, IdsGrown DEF WriteFails
  <2> QED BY <1>9, <2>3, <2>4 DEF WriteFails
<1>10. ASSUME NEW h \in Handles, ReturnBatched(h) \/ ReturnDurable(h) PROVE IdsExact'
  BY <1>1, <1>10, IdleTyped, IdsTold DEF ReturnBatched, ReturnDurable, Remember
<1>11. ASSUME NEW h \in Handles, NEW durable \in BOOLEAN, NEW text \in Contents,
              NEW to \in Ids \cup {Root}, Begin(h, durable, text, to)
       PROVE  IdsExact'
  BY <1>11, IdsBegun
<1>12. ASSUME Kill PROVE IdsExact'
  BY <1>12, IdleTyped, IdsCut DEF Kill, ProcessGone
<1>13. ASSUME Crash PROVE IdsExact'
  <2>1. PICK n \in synced..Len(disk) : Len(disk') = n /\ \A i \in 1..n : disk'[i].id = disk[i].id
    BY <1>13, CrashPrefix
  <2>2. synced \in Nat /\ Len(disk) \in Nat
    BY DEF Typed, TypeOK
  <2>3. \A i \in 1..Len(disk') : \E j \in 1..Len(disk) : disk'[i].id = disk[j].id
    BY <2>1, <2>2
  <2> QED BY <1>13, <2>3, IdleTyped, IdsCut DEF Crash, ProcessGone
<1>14. ASSUME UNCHANGED vars PROVE IdsExact'
  BY <1>3, <1>14, IdsKept DEF vars
<1> QED
  BY <1>4, <1>5, <1>6, <1>7, <1>8, <1>9, <1>10, <1>11, <1>12, <1>13, <1>14
     DEF Next, Progress, Environment, DelayedFlush, DurableFlush

\* Nothing that a Session has not synced lies behind a step of another one.
LEMMA NextCovers == Typed /\ LocksHeld /\ SyncCovers /\ [Next]_vars => SyncCovers'
<1> SUFFICES ASSUME Typed, LocksHeld, SyncCovers, [Next]_vars PROVE SyncCovers'
  OBVIOUS
<1>1. /\ call \in [Handles -> Call] /\ lock \in [Handles -> Holders]
      /\ disk \in Seq(Piece) /\ synced \in 0..Len(disk) /\ Len(disk) \in Nat
  BY DEF Typed, TypeOK
\* No Session comes to the end of a sync.
<1>2. ASSUME UNCHANGED <<disk, synced>>,
             \A g \in Handles : call'[g].stage = "fsynced" \/ lock'[g] = "flushed" =>
                                    call[g].stage = "fsynced" \/ lock[g] = "flushed"
      PROVE  SyncCovers'
  BY <1>2 DEF SyncCovers
\* The whole file has just been synced.
<1>3. ASSUME UNCHANGED disk, synced' = Len(disk) PROVE SyncCovers'
  BY <1>1, <1>3 DEF SyncCovers
\* A Session that writes is not at the end of a sync.
<1>4. ASSUME NEW h \in Handles, NEW text \in Texts, NEW ended \in BOOLEAN,
             disk' = Append(disk, PieceOf(h, text, ended)), call[h].stage = "write",
             UNCHANGED synced, call'[h].stage # "fsynced", lock'[h] # "flushed",
             \A g \in Handles \ {h} : call'[g] = call[g] /\ lock'[g] = lock[g]
      PROVE  SyncCovers'
  <2>1. /\ Len(disk') = Len(disk) + 1
        /\ \A i \in 1..Len(disk) : disk'[i] = disk[i]
        /\ disk'[Len(disk) + 1] = PieceOf(h, text, ended)
    BY <1>4, DiskGrows
  <2>2. PieceOf(h, text, ended).by = h
    BY DEF PieceOf
  <2>3. ASSUME NEW g \in Handles, call'[g].stage = "fsynced" \/ lock'[g] = "flushed",
               NEW i \in (synced' + 1)..Len(disk')
        PROVE  disk'[i].by # g
    <3>1. g # h /\ (call[g].stage = "fsynced" \/ lock[g] = "flushed")
      BY <1>4, <2>3
    <3>2. CASE i = Len(disk) + 1
      BY <2>1, <2>2, <3>1, <3>2
    <3>3. CASE i # Len(disk) + 1
      <4>1. i \in (synced + 1)..Len(disk) /\ i \in 1..Len(disk)
        BY <1>1, <1>4, <2>1, <3>3
      <4> QED BY <2>1, <3>1, <4>1 DEF SyncCovers
    <3> QED BY <3>2, <3>3
  <2> QED BY <2>3 DEF SyncCovers
<1>5. ASSUME NEW h \in Handles, Open(h) \/ Drop(h) PROVE SyncCovers'
  BY <1>2, <1>5 DEF Open, Drop
<1>6. ASSUME NEW h \in Handles, NEW durable \in BOOLEAN, NEW text \in Contents,
             NEW to \in Ids \cup {Root}, Begin(h, durable, text, to)
      PROVE  SyncCovers'
  BY <1>1, <1>2, <1>6 DEF Begin
<1>7. ASSUME NEW h \in Handles, Acquire(h) PROVE SyncCovers'
  BY <1>1, <1>2, <1>7, StageTyped DEF Acquire, Stages
<1>8. ASSUME NEW h \in Handles, StartFsync(h) PROVE SyncCovers'
  BY <1>1, <1>2, <1>8, StageTyped DEF StartFsync, Stages
<1>9. ASSUME NEW h \in Handles, Fsync(h) \/ FlushFsync(h) PROVE SyncCovers'
  BY <1>3, <1>9 DEF Fsync, FlushFsync
<1>10. ASSUME NEW h \in Handles, Write(h) PROVE SyncCovers'
  <2>1. call[h].stage = "write" /\ call[h].entry.text \in Texts /\ lock[h] = "call"
    BY <1>10, CallTyped DEF Write, LocksHeld, Working
  <2>2. call'[h].stage = "written" /\ \A g \in Handles \ {h} : call'[g] = call[g]
    BY <1>10, <2>1, CallMoves DEF Write, Stages
  <2> QED BY <1>4, <1>10, <2>1, <2>2 DEF Write
<1>11. ASSUME NEW h \in Handles, WriteFails(h) PROVE SyncCovers'
  <2>1. call[h].stage = "write" /\ Cuts(call[h].entry.text) \subseteq Texts
    BY <1>11, CallTyped DEF WriteFails, Cuts, Texts
  <2>2. /\ call'[h].stage = "idle" /\ lock'[h] = "free"
        /\ \A g \in Handles \ {h} : call'[g] = call[g] /\ lock'[g] = lock[g]
    BY <1>1, <1>11, IdleTyped DEF WriteFails
  <2>3. CASE UNCHANGED disk
    BY <1>2, <1>11, <2>2, <2>3 DEF WriteFails
  <2>4. ASSUME NEW text \in Cuts(call[h].entry.text),
               disk' = Append(disk, PieceOf(h, text, FALSE))
        PROVE  SyncCovers'
    BY <1>4, <1>11, <2>1, <2>2, <2>4 DEF WriteFails
  <2> QED BY <1>11, <2>3, <2>4 DEF WriteFails
<1>12. ASSUME NEW h \in Handles, ReturnBatched(h) \/ ReturnDurable(h) \/ RaiseCancelled(h)
       PROVE  SyncCovers'
  BY <1>1, <1>2, <1>12, IdleTyped DEF ReturnBatched, ReturnDurable, Remember, RaiseCancelled
<1>13. ASSUME NEW h \in Handles, Cancel(h) PROVE SyncCovers'
  BY <1>1, <1>2, <1>13, IdleTyped, CancelledTyped DEF Cancel
<1>14. ASSUME NEW h \in Handles, TakeForFlush(h) \/ EndFlush(h) PROVE SyncCovers'
  BY <1>1, <1>2, <1>14 DEF TakeForFlush, EndFlush
<1>15. ASSUME NEW h \in Handles, FsyncFails(h) PROVE SyncCovers'
  BY <1>1, <1>2, <1>15, IdleTyped DEF FsyncFails
<1>16. ASSUME Kill \/ Crash PROVE SyncCovers'
  BY <1>16, IdleTyped DEF Kill, Crash, ProcessGone, SyncCovers
<1>17. ASSUME UNCHANGED vars PROVE SyncCovers'
  BY <1>2, <1>17 DEF vars
<1> QED
  BY <1>5, <1>6, <1>7, <1>8, <1>9, <1>10, <1>11, <1>12, <1>13, <1>14, <1>15, <1>16, <1>17
     DEF Next, Progress, Environment, DelayedFlush, DurableFlush

\* The flush that BatchesArePending promises.
FlushComes(h) ==
    dirty[h] /\ (timer[h] \/ lock[h] = "flush" \/ call[h].stage = "fsync")

LEMMA NextPending ==
    ASSUME "fsync" \notin Faults, FInv, [Next]_vars
    PROVE  BatchesArePending'
<1> USE DEF FInv
<1>1. /\ call \in [Handles -> Call] /\ lock \in [Handles -> Holders]
      /\ dirty \in [Handles -> BOOLEAN] /\ timer \in [Handles -> BOOLEAN]
      /\ disk \in Seq(Piece) /\ synced \in 0..Len(disk) /\ Len(disk) \in Nat
  BY DEF Typed, TypeOK
<1>2. \A i \in 1..Len(disk) : disk[i] \in Piece
  BY <1>1
<1>3. \A i \in (synced + 1)..Len(disk) :
         /\ i \in 1..Len(disk) /\ disk[i].by \in Handles
         /\ disk[i].id \in acked => FlushComes(disk[i].by)
  BY <1>1, <1>2 DEF Piece, BatchesArePending, FlushComes
\* Nothing is written or told: every flush is still coming, but for Sessions
\* that have nothing left to sync.
<1>4. ASSUME UNCHANGED <<disk, synced, acked>>,
             \A g \in Handles :
                \/ FlushComes(g) => FlushComes(g)'
                \/ \A i \in (synced + 1)..Len(disk) : disk[i].by # g
      PROVE  BatchesArePending'
  BY <1>3, <1>4 DEF BatchesArePending, FlushComes
\* A piece is written whose entry is not told yet.
<1>5. ASSUME NEW h \in Handles, NEW text \in Texts, NEW ended \in BOOLEAN,
             call[h].stage # "idle", disk' = Append(disk, PieceOf(h, text, ended)),
             UNCHANGED <<synced, acked>>, \A g \in Handles : FlushComes(g) => FlushComes(g)'
      PROVE  BatchesArePending'
  <2>1. /\ Len(disk') = Len(disk) + 1
        /\ \A i \in 1..Len(disk) : disk'[i] = disk[i]
        /\ disk'[Len(disk) + 1] = PieceOf(h, text, ended)
    BY <1>5, DiskGrows
  <2>2. PieceOf(h, text, ended).id \notin acked
    BY <1>5 DEF PieceOf, IdsOwned
  <2>3. ASSUME NEW i \in (synced' + 1)..Len(disk'), disk'[i].id \in acked'
        PROVE  \E g \in Handles : disk'[i].by = g /\ FlushComes(g)'
    <3>1. i # Len(disk) + 1
      BY <1>5, <2>1, <2>2, <2>3
    <3>2. i \in (synced + 1)..Len(disk) /\ i \in 1..Len(disk)
      BY <1>1, <1>5, <2>1, <3>1
    <3> QED BY <1>3, <1>5, <2>1, <2>3, <3>2
  <2> QED BY <2>3 DEF BatchesArePending, FlushComes
<1>6. ASSUME NEW h \in Handles, Open(h) \/ Drop(h) PROVE BatchesArePending'
  BY <1>1, <1>4, <1>6 DEF Open, Drop, FlushComes
<1>7. ASSUME NEW h \in Handles, NEW durable \in BOOLEAN, NEW text \in Contents,
             NEW to \in Ids \cup {Root}, Begin(h, durable, text, to)
      PROVE  BatchesArePending'
  BY <1>1, <1>4, <1>7 DEF Begin, FlushComes
<1>8. ASSUME NEW h \in Handles, Acquire(h) PROVE BatchesArePending'
  BY <1>1, <1>4, <1>8 DEF Acquire, FlushComes
<1>9. ASSUME NEW h \in Handles, StartFsync(h) PROVE BatchesArePending'
  BY <1>1, <1>4, <1>9 DEF StartFsync, FlushComes
<1>10. ASSUME NEW h \in Handles, Fsync(h) \/ FlushFsync(h) PROVE BatchesArePending'
  BY <1>1, <1>10 DEF Fsync, FlushFsync, BatchesArePending
<1>11. ASSUME NEW h \in Handles, Write(h) PROVE BatchesArePending'
  <2>1. call[h].stage = "write" /\ call[h].entry.text \in Texts
    BY <1>11, CallTyped DEF Write
  <2>2. \A g \in Handles : FlushComes(g) => FlushComes(g)'
    BY <1>1, <1>11, <2>1 DEF Write, FlushComes
  <2> QED BY <1>5, <1>11, <2>1, <2>2 DEF Write
<1>12. ASSUME NEW h \in Handles, WriteFails(h) PROVE BatchesArePending'
  <2>1. call[h].stage = "write" /\ Cuts(call[h].entry.text) \subseteq Texts
    BY <1>12, CallTyped DEF WriteFails, Cuts, Texts
  <2>2. lock[h] = "call"
    BY <2>1 DEF LocksHeld, Working
  <2>3. \A g \in Handles : FlushComes(g) => FlushComes(g)'
    BY <1>1, <1>12, <2>1, <2>2 DEF WriteFails, FlushComes
  <2>4. CASE UNCHANGED disk
    BY <1>4, <1>12, <2>3, <2>4 DEF WriteFails
  <2>5. ASSUME NEW text \in Cuts(call[h].entry.text),
               disk' = Append(disk, PieceOf(h, text, FALSE))
        PROVE  BatchesArePending'
    BY <1>5, <1>12, <2>1, <2>3, <2>5 DEF WriteFails
  <2> QED BY <1>12, <2>4, <2>5 DEF WriteFails
<1>13. ASSUME NEW h \in Handles, RaiseCancelled(h) \/ Cancel(h) PROVE BatchesArePending'
  <2>1. call[h].stage \in Working => lock[h] = "call"
    BY DEF LocksHeld
  <2>2. \A g \in Handles : FlushComes(g) => FlushComes(g)'
    BY <1>1, <1>13, <2>1, IdleTyped, CancelledTyped
       DEF RaiseCancelled, Cancel, Working, FlushComes
  <2> QED BY <1>4, <1>13, <2>2 DEF RaiseCancelled, Cancel
\* The entry told now is of a Session whose flush is armed.
<1>14. ASSUME NEW h \in Handles, ReturnBatched(h) PROVE BatchesArePending'
  <2>1. call[h].stage = "written" /\ lock[h] = "call"
    BY <1>14 DEF ReturnBatched, LocksHeld, Working
  <2>2. FlushComes(h)' /\ \A g \in Handles : FlushComes(g) => FlushComes(g)'
    BY <1>1, <1>14, <2>1 DEF ReturnBatched, Remember, FlushComes
  <2>3. \A i \in 1..Len(disk) : disk[i].id = call[h].entry.id => disk[i].by = h
    BY <2>1 DEF IdsOwned
  <2> QED
    BY <1>3, <1>14, <2>2, <2>3
       DEF ReturnBatched, Remember, BatchesArePending, FlushComes
\* The entry told now is synced, with all that its Session has written.
<1>15. ASSUME NEW h \in Handles, ReturnDurable(h) PROVE BatchesArePending'
  <2>1. call[h].stage = "fsynced"
    BY <1>15 DEF ReturnDurable
  <2>2. \A i \in (synced + 1)..Len(disk) : disk[i].by # h
    BY <2>1 DEF SyncCovers
  <2>3. \A i \in (synced + 1)..Len(disk) : disk[i].id # call[h].entry.id
    BY <1>3, <2>1, <2>2 DEF IdsOwned
  <2>4. \A g \in Handles \ {h} : FlushComes(g) => FlushComes(g)'
    BY <1>1, <1>15 DEF ReturnDurable, Remember, FlushComes
  <2> QED
    BY <1>3, <1>15, <2>2, <2>3, <2>4
       DEF ReturnDurable, Remember, BatchesArePending, FlushComes
<1>16. ASSUME NEW h \in Handles, TakeForFlush(h) PROVE BatchesArePending'
  BY <1>1, <1>4, <1>16 DEF TakeForFlush, FlushComes
<1>17. ASSUME NEW h \in Handles, EndFlush(h) PROVE BatchesArePending'
  <2>1. \A i \in (synced + 1)..Len(disk) : disk[i].by # h
    BY <1>17 DEF EndFlush, SyncCovers
  <2>2. \A g \in Handles \ {h} : FlushComes(g) => FlushComes(g)'
    BY <1>1, <1>17 DEF EndFlush, FlushComes
  <2> QED BY <1>4, <1>17, <2>1, <2>2 DEF EndFlush
<1>18. ASSUME NEW h \in Handles, FsyncFails(h) PROVE BatchesArePending'
  BY <1>18 DEF FsyncFails
<1>19. ASSUME Kill \/ Crash PROVE BatchesArePending'
  BY <1>19 DEF Kill, Crash, ProcessGone, BatchesArePending
<1>20. ASSUME UNCHANGED vars PROVE BatchesArePending'
  BY <1>4, <1>20 DEF vars, FlushComes
<1> QED
  BY <1>6, <1>7, <1>8, <1>9, <1>10, <1>11, <1>12, <1>13, <1>14, <1>15, <1>16, <1>17,
     <1>18, <1>19, <1>20
     DEF Next, Progress, Environment, DelayedFlush, DurableFlush

LEMMA NextFInv == ASSUME "fsync" \notin Faults PROVE FInv /\ [Next]_vars => FInv'
<1> SUFFICES ASSUME FInv, [Next]_vars PROVE FInv'
  OBVIOUS
<1>1. IdsExact
  BY DEF FInv, IdsExact
<1>2. Typed' /\ LocksHeld' /\ IdsExact' /\ SyncCovers'
  BY <1>1, NextTyped, NextLocks, NextIds, NextCovers DEF FInv
<1> QED
  BY <1>2, NextPending DEF FInv, IdsExact

\* When fsync does not fail, every entry that an ordinary append has returned
\* for is on stable storage or has a flush coming (_persist, _delayed_flush,
\* durable_flush): no cancellation, failed write or other Session on the file
\* leaves it behind.
THEOREM NoBatchForgotten == ASSUME "fsync" \notin Faults PROVE Spec => []BatchesArePending
<1>1. Init => FInv
  BY InitFInv
<1>2. FInv /\ [Next]_vars => FInv'
  BY NextFInv
<1>3. FInv => BatchesArePending
  BY DEF FInv
<1> QED BY <1>1, <1>2, <1>3, PTL DEF Spec

-----------------------------------------------------------------------------
(* The file is a durable log.                                              *)

\* The ids of the pieces, which the refinement takes for the log.
FileIds == [i \in DOMAIN disk |-> disk[i].id]

\* An append that has yet to write is not in the file.
Unwritten ==
    \A h \in Handles : call[h].stage \in {"lock", "write"} =>
        \A i \in 1..Len(disk) : disk[i].id # call[h].entry.id

LEMMA SameElements ==
    ASSUME NEW S, NEW s \in Seq(S), NEW t \in Seq(S), Len(s) = Len(t),
           \A i \in 1..Len(s) : s[i] = t[i]
    PROVE  s = t
OBVIOUS

LEMMA FileIdsTyped ==
    ASSUME disk \in Seq(Piece)
    PROVE  /\ FileIds \in Seq(Ids) /\ Len(FileIds) = Len(disk)
           /\ DOMAIN FileIds = 1..Len(disk)
           /\ \A i \in 1..Len(disk) : FileIds[i] = disk[i].id
<1>1. DOMAIN disk = 1..Len(disk) /\ Len(disk) \in Nat
  OBVIOUS
<1>2. \A i \in 1..Len(disk) : disk[i] \in Piece
  OBVIOUS
<1>3. \A i \in 1..Len(disk) : disk[i].id \in Ids
  BY <1>2 DEF Piece
<1>4. FileIds \in [1..Len(disk) -> Ids]
  BY <1>1, <1>3 DEF FileIds
<1>5. FileIds \in Seq(Ids) /\ Len(FileIds) = Len(disk)
  BY <1>1, <1>4
<1> QED BY <1>1, <1>5 DEF FileIds

\* A piece at the end of the file is an entry at the end of the log.
LEMMA FileIdsGrow ==
    ASSUME Typed, NEW h \in Handles, call[h].stage # "idle",
           NEW text \in Texts, NEW ended \in BOOLEAN,
           disk' = Append(disk, PieceOf(h, text, ended))
    PROVE  FileIds' = Append(FileIds, call[h].entry.id)
<1> DEFINE id == call[h].entry.id
<1>1. /\ disk' \in Seq(Piece)
      /\ Len(disk) \in Nat /\ Len(disk') = Len(disk) + 1
      /\ \A i \in 1..Len(disk) : disk'[i] = disk[i]
      /\ disk'[Len(disk) + 1].id = id
  BY DiskGrows DEF PieceOf
<1>2. /\ FileIds \in Seq(Ids) /\ Len(FileIds) = Len(disk)
      /\ \A i \in 1..Len(disk) : FileIds[i] = disk[i].id
  BY FileIdsTyped DEF Typed, TypeOK
<1>3. /\ FileIds' \in Seq(Ids) /\ Len(FileIds') = Len(disk')
      /\ \A i \in 1..Len(disk') : FileIds'[i] = disk'[i].id
  <2>1. DOMAIN disk' = 1..Len(disk') /\ \A i \in 1..Len(disk') : disk'[i] \in Piece
    BY <1>1
  <2>2. \A i \in 1..Len(disk') : disk'[i].id \in Ids
    BY <2>1 DEF Piece
  <2>3. FileIds' \in [1..Len(disk') -> Ids] /\ Len(disk') \in Nat
    BY <1>1, <2>1, <2>2 DEF FileIds
  <2> QED BY <2>1, <2>3 DEF FileIds
<1>4. id \in Ids
  BY DEF Typed, CallsStarted
<1> HIDE DEF id
<1>5. /\ Append(FileIds, id) \in Seq(Ids) /\ Len(Append(FileIds, id)) = Len(disk')
      /\ \A i \in 1..Len(disk') : Append(FileIds, id)[i] = FileIds'[i]
  BY <1>1, <1>2, <1>3, <1>4
<1> QED BY <1>1, <1>3, <1>5, SameElements DEF id

\* A crash leaves a prefix of the log that holds what is stable.
LEMMA FileIdsCut ==
    ASSUME Typed, Crash
    PROVE  \E n \in synced..Len(FileIds) : FileIds' = SubSeq(FileIds, 1, n) /\ synced' = n
<1>1. PICK n \in synced..Len(disk) :
         /\ synced' = n /\ Len(disk') = n
         /\ \A i \in 1..n : disk'[i].id = disk[i].id
  BY CrashPrefix
<1>2. /\ synced \in Nat /\ Len(disk) \in Nat
      /\ disk' \in Seq(Piece)
  BY NextTyped DEF Typed, TypeOK, Next
<1>3. /\ FileIds \in Seq(Ids) /\ Len(FileIds) = Len(disk)
      /\ \A i \in 1..Len(disk) : FileIds[i] = disk[i].id
  BY FileIdsTyped DEF Typed, TypeOK
<1>4. FileIds' = [i \in 1..n |-> FileIds[i]]
  <2>1. DOMAIN disk' = 1..n
    BY <1>1, <1>2
  <2> QED BY <1>1, <1>2, <1>3, <2>1 DEF FileIds
<1>5. SubSeq(FileIds, 1, n) = [i \in 1..n |-> FileIds[i]]
  BY <1>1, <1>2, <1>3
<1> QED BY <1>1, <1>3, <1>4, <1>5

LEMMA InitUnwritten == Init => Unwritten
BY DEF Init, Unwritten

\* An append leaves "lock" and "write" for good; those that come anew have an id
\* that was never used.
LEMMA NextUnwritten == Typed /\ IdsExact /\ Unwritten /\ [Next]_vars => Unwritten'
<1> SUFFICES ASSUME Typed, IdsExact, Unwritten, [Next]_vars PROVE Unwritten'
  OBVIOUS
<1>1. call \in [Handles -> Call]
  BY DEF Typed, TypeOK
\* The steps that leave the file alone and begin no append.
<1>2. ASSUME UNCHANGED disk,
             \A g \in Handles : call'[g].stage \in {"lock", "write"} =>
                 call[g].stage \in {"lock", "write"} /\ call'[g].entry = call[g].entry
      PROVE  Unwritten'
  BY <1>2 DEF Unwritten
\* The steps in which h writes its piece.
<1>3. ASSUME NEW h \in Handles, call[h].stage = "write", NEW text \in Texts, NEW ended \in BOOLEAN,
             disk' = Append(disk, PieceOf(h, text, ended)),
             call'[h].stage \in {"idle", "written"},
             \A g \in Handles \ {h} : call'[g] = call[g]
      PROVE  Unwritten'
  <2>1. /\ Len(disk) \in Nat /\ Len(disk') = Len(disk) + 1
        /\ \A i \in 1..Len(disk) : disk'[i] = disk[i]
        /\ disk'[Len(disk) + 1].id = call[h].entry.id
    BY <1>3, DiskGrows DEF PieceOf
  <2>2. ASSUME NEW g \in Handles \ {h}, call[g].stage \in {"lock", "write"}, NEW i \in 1..Len(disk')
        PROVE  disk'[i].id # call[g].entry.id
    <3>1. CASE i \in 1..Len(disk)
      BY <2>1, <2>2, <3>1 DEF Unwritten
    <3>2. CASE i = Len(disk) + 1
      BY <1>3, <2>1, <2>2, <3>2 DEF IdsExact, IdsOwned
    <3> QED BY <2>1, <3>1, <3>2
  <2> QED BY <1>3, <2>2 DEF Unwritten
<1>4. ASSUME NEW h \in Handles, Write(h) PROVE Unwritten'
  BY <1>1, <1>3, <1>4, CallTyped, StageTyped DEF Write, Stages
<1>5. ASSUME NEW h \in Handles, WriteFails(h) PROVE Unwritten'
  <2>1. CASE UNCHANGED disk
    BY <1>1, <1>2, <1>5, <2>1, IdleTyped DEF WriteFails
  <2>2. ASSUME NEW text \in Cuts(call[h].entry.text),
               disk' = Append(disk, PieceOf(h, text, FALSE))
        PROVE  Unwritten'
    <3>1. text \in Texts
      BY CallTyped DEF Cuts, Texts
    <3> QED BY <1>1, <1>3, <1>5, <2>2, <3>1, IdleTyped DEF WriteFails
  <2> QED BY <1>5, <2>1, <2>2 DEF WriteFails
<1>6. ASSUME NEW h \in Handles, Acquire(h) \/ StartFsync(h) \/ Fsync(h) PROVE Unwritten'
  <2>1. CASE Acquire(h)
    BY <1>1, <1>2, <2>1, StageTyped DEF Acquire, Stages
  <2>2. CASE StartFsync(h)
    BY <1>1, <1>2, <2>2, StageTyped DEF StartFsync, Stages
  <2>3. CASE Fsync(h)
    BY <1>1, <1>2, <2>3, StageTyped DEF Fsync, Stages
  <2> QED BY <1>6, <2>1, <2>2, <2>3
<1>7. ASSUME NEW h \in Handles,
             ReturnBatched(h) \/ ReturnDurable(h) \/ RaiseCancelled(h) \/ FsyncFails(h)
      PROVE  Unwritten'
  BY <1>1, <1>2, <1>7, IdleTyped
     DEF ReturnBatched, ReturnDurable, Remember, RaiseCancelled, FsyncFails
<1>8. ASSUME NEW h \in Handles, Cancel(h) PROVE Unwritten'
  BY <1>1, <1>2, <1>8, IdleTyped, CancelledTyped DEF Cancel
<1>9. ASSUME NEW h \in Handles, Open(h) \/ Drop(h) \/ TakeForFlush(h) \/ FlushFsync(h) \/ EndFlush(h)
      PROVE  Unwritten'
  BY <1>2, <1>9 DEF Open, Drop, TakeForFlush, FlushFsync, EndFlush
<1>10. ASSUME NEW h \in Handles, NEW durable \in BOOLEAN, NEW text \in Contents,
              NEW to \in Ids \cup {Root}, Begin(h, durable, text, to)
       PROVE  Unwritten'
  <2>1. /\ call'[h].entry.id = created + 1 /\ UNCHANGED disk
        /\ \A g \in Handles \ {h} : call'[g] = call[g]
    BY <1>1, <1>10 DEF Begin
  <2>2. created \in Nat /\ \A i \in 1..Len(disk) : disk[i].id <= created /\ disk[i].id \in Nat
    <3>1. created \in Nat /\ Ids \subseteq Nat /\ disk \in Seq(Piece)
      BY MaxEntriesAssumption DEF Ids, Typed, TypeOK
    <3>2. \A i \in 1..Len(disk) : disk[i] \in Piece
      BY <3>1
    <3> QED BY <3>1, <3>2 DEF Piece, IdsExact, IdsCreated
  <2>3. \A i \in 1..Len(disk) : disk[i].id # created + 1
    BY <2>2
  <2> QED BY <2>1, <2>3 DEF Unwritten
<1>11. ASSUME Kill \/ Crash PROVE Unwritten'
  BY <1>11, IdleTyped DEF Kill, Crash, ProcessGone, Unwritten
<1>12. ASSUME UNCHANGED vars PROVE Unwritten'
  BY <1>2, <1>12 DEF vars
<1> QED
  BY <1>4, <1>5, <1>6, <1>7, <1>8, <1>9, <1>10, <1>11, <1>12
     DEF Next, Progress, Environment, DelayedFlush, DurableFlush

\* What a step of the file is to the log.
LEMMA NextDurable ==
    ASSUME IInv, Unwritten, [Next]_vars
    PROVE  [Durable!Next]_(Durable!logVars)
<1> USE DEF Durable!Next, Durable!logVars
<1>1. /\ Len(FileIds) = Len(disk) /\ DOMAIN FileIds = 1..Len(disk)
      /\ \A i \in 1..Len(disk) : FileIds[i] = disk[i].id
  BY FileIdsTyped DEF IInv, Typed, TypeOK
<1>2. synced \in 0..Len(disk) /\ Len(disk) \in Nat
  BY DEF IInv, Typed, TypeOK
\* Most steps are none of the log's.
<1>3. ASSUME UNCHANGED <<disk, synced, promised>> PROVE UNCHANGED Durable!logVars
  BY <1>3
\* A write that reaches the file, whole or cut.
<1>4. ASSUME NEW h \in Handles, call[h].stage = "write", NEW text \in Texts, NEW ended \in BOOLEAN,
             disk' = Append(disk, PieceOf(h, text, ended)), UNCHANGED <<synced, promised>>
      PROVE  \E e \in Ids : Durable!Add(e)
  <2> DEFINE id == call[h].entry.id
  <2>1. FileIds' = Append(FileIds, id)
    BY <1>4, FileIdsGrow DEF IInv
  <2>2. id \in Ids
    BY <1>4, CallTyped DEF IInv
  <2>3. \A i \in DOMAIN FileIds : FileIds[i] # id
    BY <1>1, <1>4 DEF Unwritten
  <2> HIDE DEF id
  <2> QED BY <1>4, <2>1, <2>2, <2>3 DEF Durable!Add, FileIds
<1>5. ASSUME NEW h \in Handles, Write(h) PROVE Durable!Next
  BY <1>4, <1>5, CallTyped DEF Write, IInv
<1>6. ASSUME NEW h \in Handles, WriteFails(h) PROVE [Durable!Next]_(Durable!logVars)
  <2>1. CASE UNCHANGED disk
    BY <1>3, <1>6, <2>1 DEF WriteFails
  <2>2. ASSUME NEW text \in Cuts(call[h].entry.text),
               disk' = Append(disk, PieceOf(h, text, FALSE))
        PROVE  Durable!Next
    <3>1. text \in Texts
      BY CallTyped DEF Cuts, Texts, IInv
    <3> QED BY <1>4, <1>6, <2>2, <3>1 DEF WriteFails
  <2> QED BY <1>6, <2>1, <2>2 DEF WriteFails
<1>7. ASSUME NEW h \in Handles, Fsync(h) \/ FlushFsync(h) PROVE Durable!Stabilise
  BY <1>1, <1>7 DEF Fsync, FlushFsync, Durable!Stabilise, FileIds
<1>8. ASSUME NEW h \in Handles, ReturnDurable(h) PROVE Durable!Next
  <2> DEFINE id == call[h].entry.id
  <2>1. id \in Ids /\ id \in SyncedIds
    BY <1>8, CallTyped DEF ReturnDurable, IInv, AppendsWritten
  <2>2. \E i \in 1..synced : FileIds[i] = id
    BY <1>1, <1>2, <2>1 DEF SyncedIds
  <2>3. promised' = promised \cup {id} /\ UNCHANGED <<disk, synced>>
    BY <1>8 DEF ReturnDurable
  <2> HIDE DEF id
  <2>4. Durable!Tell(id)
    BY <2>2, <2>3 DEF Durable!Tell, FileIds
  <2> QED BY <2>1, <2>4
<1>9. ASSUME Crash PROVE Durable!Lose
  BY <1>9, FileIdsCut DEF IInv, Crash, ProcessGone, Durable!Lose, FileIds
<1>10. ASSUME NEW h \in Handles,
              \/ Open(h) \/ Drop(h) \/ Acquire(h) \/ ReturnBatched(h) \/ StartFsync(h)
              \/ RaiseCancelled(h) \/ FsyncFails(h) \/ Cancel(h) \/ TakeForFlush(h) \/ EndFlush(h)
       PROVE  UNCHANGED Durable!logVars
  BY <1>3, <1>10
     DEF Open, Drop, Acquire, ReturnBatched, StartFsync, RaiseCancelled, FsyncFails, Cancel,
         TakeForFlush, EndFlush
<1>11. ASSUME NEW h \in Handles, NEW durable \in BOOLEAN, NEW text \in Contents,
              NEW to \in Ids \cup {Root}, Begin(h, durable, text, to)
       PROVE  UNCHANGED Durable!logVars
  BY <1>3, <1>11 DEF Begin
<1>12. ASSUME Kill \/ UNCHANGED vars PROVE UNCHANGED Durable!logVars
  BY <1>3, <1>12 DEF Kill, ProcessGone, vars
<1> QED
  BY <1>5, <1>6, <1>7, <1>8, <1>9, <1>10, <1>11, <1>12
     DEF Next, Progress, Environment, DelayedFlush, DurableFlush

\* A session file is a durable log (Session._append, _persist, durable_flush,
\* _read_session after a crash): entries are only added, at the end and once
\* each; only what is not synced is ever lost, from the end; and what a durable
\* append has returned for is there for good.
THEOREM LogIsDurable == Spec => ImplementsDurableLog
<1>1. Init => Durable!Init
  BY DEF Init, Durable!Init
<1>2. Init => IdsExact /\ Unwritten
  BY InitFInv, InitUnwritten DEF FInv, IdsExact
<1>3. IInv /\ IdsExact /\ Unwritten /\ [Next]_vars => IdsExact' /\ Unwritten'
  BY NextIds, NextUnwritten DEF IInv
<1>4. IInv /\ Unwritten /\ [Next]_vars => [Durable!Next]_(Durable!logVars)
  BY NextDurable
<1> QED
  BY <1>1, <1>2, <1>3, <1>4, AlwaysIInv, PTL DEF Spec, ImplementsDurableLog, Durable!Spec

-----------------------------------------------------------------------------
(* Nothing is torn.                                                        *)

\* Every piece is a line of its own that decodes, and will be.
Whole ==
    /\ \A i \in 1..Len(disk) : disk[i].text = "entry" /\ disk[i].ended
    /\ \A h \in Handles : call[h].stage # "idle" => call[h].entry.text = "entry"

LEMMA NextWhole ==
    ASSUME "tear" \notin Faults, "broken" \notin Contents, Typed, Whole, [Next]_vars
    PROVE  Whole'
<1>1. call \in [Handles -> Call] /\ Len(disk) \in Nat /\ disk \in Seq(Piece)
  BY DEF Typed, TypeOK
<1>2. ASSUME UNCHANGED disk, CallsKept PROVE Whole'
  BY <1>2 DEF Whole, CallsKept
<1>3. ASSUME NEW h \in Handles, call[h].stage # "idle", UNCHANGED disk,
             call' = [call EXCEPT ![h] = Idle] \/ \E stage \in Stages :
                        call' = [call EXCEPT ![h].stage = stage]
      PROVE  Whole'
  <2>1. CASE call' = [call EXCEPT ![h] = Idle]
    BY <1>1, <1>2, <1>3, <2>1, IdleTyped DEF CallsKept
  <2>2. ASSUME NEW stage \in Stages, call' = [call EXCEPT ![h].stage = stage] PROVE Whole'
    <3>1. (\A g \in Handles : call'[g].entry = call[g].entry) /\ \A g \in Handles \ {h} : call'[g] = call[g]
      BY <1>1, <2>2, StageTyped
    <3> QED BY <1>2, <1>3, <3>1 DEF CallsKept
  <2> QED BY <1>3, <2>1, <2>2
<1>4. ASSUME NEW h \in Handles, Acquire(h) \/ StartFsync(h) \/ Fsync(h) \/ RaiseCancelled(h)
      PROVE  Whole'
  BY <1>3, <1>4 DEF Acquire, StartFsync, Fsync, RaiseCancelled, Stages
<1>5. ASSUME NEW h \in Handles, ReturnBatched(h) \/ ReturnDurable(h) \/ WriteFails(h) PROVE Whole'
  BY <1>3, <1>5 DEF ReturnBatched, ReturnDurable, Remember, WriteFails
<1>6. ASSUME NEW h \in Handles, Write(h) PROVE Whole'
  <2> DEFINE new == PieceOf(h, call[h].entry.text, TRUE)
  <2>1. /\ call[h].stage = "write" /\ disk' = Append(disk, new)
        /\ call' = [call EXCEPT ![h].stage = "written"] /\ "written" \in Stages
    BY <1>6 DEF Write, Stages
  <2>2. new.text = "entry" /\ new.ended = TRUE
    BY <2>1 DEF PieceOf, Whole
  <2>3. /\ Len(disk') = Len(disk) + 1 /\ \A i \in 1..Len(disk) : disk'[i] = disk[i]
        /\ disk'[Len(disk) + 1] = new
    BY <2>1, DiskGrows, CallTyped
  <2> HIDE DEF new
  <2>4. \A i \in 1..Len(disk') : disk'[i].text = "entry" /\ disk'[i].ended
    <3> SUFFICES ASSUME NEW i \in 1..Len(disk') PROVE disk'[i].text = "entry" /\ disk'[i].ended
      OBVIOUS
    <3>1. i \in 1..Len(disk) \/ i = Len(disk) + 1
      BY <1>1, <2>3
    <3> QED BY <2>2, <2>3, <3>1 DEF Whole
  <2>5. \A g \in Handles : call'[g].entry = call[g].entry
    BY <1>1, <2>1, StageTyped
  <2>6. \A g \in Handles : call'[g].stage # "idle" => call[g].stage # "idle"
    BY <1>1, <2>1
  <2> QED BY <2>4, <2>5, <2>6 DEF Whole
<1>7. ASSUME NEW h \in Handles, Cancel(h) PROVE Whole'
  <2>1. CASE call' = [call EXCEPT ![h] = Idle] /\ call[h].stage = "lock" /\ UNCHANGED disk
    BY <1>3, <2>1
  <2>2. CASE call' = [call EXCEPT ![h].cancelled = TRUE] /\ UNCHANGED disk
    <3>1. \A g \in Handles : call'[g].entry = call[g].entry /\ call'[g].stage = call[g].stage
      BY <1>1, <2>2, CancelledTyped
    <3> QED BY <1>2, <2>2, <3>1 DEF CallsKept
  <2> QED BY <1>7, <2>1, <2>2 DEF Cancel
<1>8. ASSUME NEW h \in Handles, NEW durable \in BOOLEAN, NEW text \in Contents,
             NEW to \in Ids \cup {Root}, Begin(h, durable, text, to)
      PROVE  Whole'
  <2>1. text = "entry"
    BY ContentsAssumption
  <2>2. /\ UNCHANGED disk /\ call'[h].entry.text = text
        /\ \A g \in Handles \ {h} : call'[g] = call[g]
    BY <1>1, <1>8 DEF Begin
  <2> QED BY <2>1, <2>2 DEF Whole
<1>9. ASSUME NEW h \in Handles,
             Open(h) \/ Drop(h) \/ FsyncFails(h) \/ TakeForFlush(h) \/ FlushFsync(h) \/ EndFlush(h)
      PROVE  Whole'
  <2>1. CASE FsyncFails(h)
    <3>1. CASE call[h].stage = "fsync" /\ call' = [call EXCEPT ![h] = Idle]
      BY <1>3, <2>1, <3>1 DEF FsyncFails
    <3>2. CASE UNCHANGED call
      BY <1>2, <2>1, <3>2 DEF FsyncFails, CallsKept
    <3> QED BY <2>1, <3>1, <3>2 DEF FsyncFails
  <2>2. CASE ~FsyncFails(h)
    BY <1>2, <1>9, <2>2 DEF Open, Drop, TakeForFlush, FlushFsync, EndFlush, CallsKept
  <2> QED BY <2>1, <2>2
<1>10. ASSUME Kill PROVE Whole'
  BY <1>10, IdleTyped DEF Kill, ProcessGone, Whole
<1>11. ASSUME Crash PROVE Whole'
  <2>1. PICK n \in synced..Len(disk) : disk' = SubSeq(disk, 1, n)
    BY <1>11 DEF Crash
  <2>2. synced \in Nat
    BY DEF Typed, TypeOK
  <2>3. Len(disk') = n /\ \A i \in 1..n : i \in 1..Len(disk) /\ disk'[i] = disk[i]
    BY <1>1, <2>1, <2>2
  <2> QED BY <1>11, <2>3, IdleTyped DEF Crash, ProcessGone, Whole
<1>12. ASSUME UNCHANGED vars PROVE Whole'
  BY <1>2, <1>12 DEF vars, CallsKept
<1> QED
  BY <1>4, <1>5, <1>6, <1>7, <1>8, <1>9, <1>10, <1>11, <1>12
     DEF Next, Progress, Environment, DelayedFlush, DurableFlush

\* The next reader decodes all of such a file.
LEMMA WholeIsReadable == Whole /\ PromisesKept /\ Typed => PromisesReadable
<1> SUFFICES ASSUME Whole, PromisesKept, Typed PROVE PromisesReadable
  OBVIOUS
<1>1. Len(disk) \in Nat /\ synced \in 0..Len(disk)
  BY DEF Typed, TypeOK
<1>2. \A i \in 1..Len(disk) : Decodes(i)
  BY <1>1 DEF Whole, Decodes, StartsLine, EndsLine
<1>3. SyncedIds \subseteq DecodedIds
  BY <1>1, <1>2 DEF SyncedIds, DecodedIds
<1> QED BY <1>2, <1>3 DEF PromisesReadable, Readable, PromisesKept

\* When no line is torn, no text holds a line separator and fsync does not
\* fail, every append that returned is synced or has its flush coming, and the
\* next reader finds all that was promised (_append, _persist, _read_session):
\* no cancellation, failed write, kill or loss of what was not synced, and no
\* other Session on the file, gets in between.
THEOREM LogAlwaysSound ==
    ASSUME Faults = {}, "broken" \notin Contents
    PROVE  Spec => []LogIsSound
<1>1. Init => Whole
  BY IdleTyped DEF Init, Whole
<1>2. IInv /\ Whole /\ [Next]_vars => Whole'
  BY NextWhole DEF IInv
<1>3. IInv /\ Whole /\ BatchesArePending => LogIsSound
  BY WholeIsReadable DEF IInv, LogIsSound
<1>4. Spec => []BatchesArePending
  BY NoBatchForgotten
<1> QED BY <1>1, <1>2, <1>3, <1>4, AlwaysIInv, PTL DEF Spec
=============================================================================
