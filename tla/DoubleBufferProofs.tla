-------------------------- MODULE DoubleBufferProofs --------------------------
(***************************************************************************)
(* Proofs about the logger's double buffer, for buffers of any size.       *)
(***************************************************************************)
EXTENDS DoubleBuffer, SequenceTheorems, FiniteSetTheorems, TLAPS

\* The first n places of a buffer have been stored to.
NonZero(c, n) == \A k \in 0..(n - 1) : c[k] # 0

\* A place below a buffer's position has been stored to, even when the
\* position is taken back while the owner is between its store and its
\* increment.
BufferWritten == \A b \in Buf : NonZero(content[b], position[b])

OwnerWritten ==
  /\ pc = "incr" => position[cur] < N /\ NonZero(content[cur], position[cur] + 1)
  /\ pc \in {"store", "incr"} => added > 0

PlaceIn(t) ==
  /\ t.last <= N /\ NonZero(content[t.buf], t.last)
  /\ t.i <= t.last
  /\ t.pc \in {"start", "open"} => t.i = 0
  /\ t.pc \in {"open", "write"} => t.i < t.last

ThreadWritten == \A t \in threads : PlaceIn(t)

TypeInv == TypeOK /\ BufferWritten /\ OwnerWritten /\ ThreadWritten

LEMMA InitTypeInv == Init => TypeInv
<1> SUFFICES ASSUME Init PROVE TypeInv
    OBVIOUS
<1> USE BufferAssumption
<1>1. TypeOK
  BY EmptySeq DEF Init, TypeOK, Buf
<1>2. BufferWritten /\ OwnerWritten /\ ThreadWritten
  BY DEF Init, BufferWritten, OwnerWritten, ThreadWritten, NonZero, Buf
<1> QED
  BY <1>1, <1>2 DEF TypeInv

\* A store of an entry to a place of a buffer, and what is stored after it.
LEMMA StoreInRow ==
  ASSUME NEW c \in [0..(N - 1) -> 0..MaxEntries], NEW p \in 0..(N - 1),
         NEW e \in 1..MaxEntries
  PROVE  LET d == [c EXCEPT ![p] = e] IN
         /\ d \in [0..(N - 1) -> 0..MaxEntries]
         /\ \A n \in 0..N : NonZero(c, n) => NonZero(d, n)
         /\ NonZero(c, p) => NonZero(d, p + 1)
BY BufferAssumption DEF NonZero

\* AddStore as a store to a row of the content.
LEMMA StoreEffect ==
  ASSUME TypeInv, AddStore, position[cur] < N
  PROVE  LET row == [content[cur] EXCEPT ![position[cur]] = added] IN
         /\ row \in [0..(N - 1) -> 0..MaxEntries]
         /\ content' = [content EXCEPT ![cur] = row]
         /\ \A n \in 0..N : NonZero(content[cur], n) => NonZero(row, n)
         /\ NonZero(row, position[cur] + 1)
<1> USE BufferAssumption
<1>1. /\ content[cur] \in [0..(N - 1) -> 0..MaxEntries]
      /\ position[cur] \in 0..(N - 1) /\ added \in 1..MaxEntries
  BY DEF TypeInv, TypeOK, OwnerWritten, AddStore
<1>2. NonZero(content[cur], position[cur])
  BY DEF TypeInv, TypeOK, BufferWritten
<1>3. content' = [content EXCEPT ![cur] = [content[cur] EXCEPT ![position[cur]] = added]]
  BY DEF AddStore
<1> QED
  BY <1>1, <1>2, <1>3, StoreInRow

\* Every step of a call of add preserves the types.
LEMMA AddTypeInv == TypeInv /\ Add => TypeInv'
<1> SUFFICES ASSUME TypeInv, Add PROVE TypeInv'
    OBVIOUS
<1> USE BufferAssumption
<1> USE DEF TypeInv, TypeOK, BufferWritten, OwnerWritten, ThreadWritten, PlaceIn, bufVars
<1>1. CASE AddBegin
  <2>1. added' \in 1..MaxEntries
    BY <1>1 DEF AddBegin
  <2>2. dropped' \in {dropped, dropped \cup {added'}} /\ pc' \in {"store", "check"}
    BY <1>1 DEF AddBegin
  <2>3. dropped' \subseteq 1..MaxEntries
    BY <2>1, <2>2
  <2> QED
    BY <1>1, <2>1, <2>2, <2>3 DEF AddBegin
<1>2. CASE AddStore /\ position[cur] < N
  <2> DEFINE row == [content[cur] EXCEPT ![position[cur]] = added]
  <2>1. /\ row \in [0..(N - 1) -> 0..MaxEntries]
        /\ content' = [content EXCEPT ![cur] = row]
        /\ \A n \in 0..N : NonZero(content[cur], n) => NonZero(row, n)
        /\ NonZero(row, position[cur] + 1)
    BY <1>2, StoreEffect
  <2> HIDE DEF row
  <2>2. content' \in [Buf -> [0..(N - 1) -> 0..MaxEntries]]
    BY <2>1
  <2>3. \A b \in Buf : \A n \in 0..N : NonZero(content[b], n) => NonZero(content'[b], n)
    BY <2>1
  <2>4. UNCHANGED <<cur, added, dropped, ready, position, threads, stream, file>> /\ pc' = "incr"
    BY <1>2 DEF AddStore
  <2>5. TypeOK' /\ BufferWritten'
    BY <2>2, <2>3, <2>4
  <2>6. OwnerWritten'
    BY <2>1, <2>4, <1>2 DEF AddStore
  <2>7. \A t \in threads : t.buf \in Buf /\ t.last \in 0..N
    BY DEF Thread
  <2>8. ThreadWritten'
    BY <2>3, <2>4, <2>7
  <2> QED
    BY <2>5, <2>6, <2>8
<1>3. CASE AddStore /\ ~(position[cur] < N)
  BY <1>3 DEF AddStore
<1>4. CASE AddIncr
  <2>1. position' \in [Buf -> 0..N]
    BY <1>4 DEF AddIncr
  <2> QED
    BY <1>4, <2>1 DEF AddIncr
<1>5. CASE AddTest
  <2>1. ready' \in [Buf -> BOOLEAN]
    BY <1>5 DEF AddTest
  <2> QED
    BY <1>5, <2>1 DEF AddTest
<1>6. CASE AddCheck
  <2>1. threads' = threads \/ threads' = threads \cup {[buf |-> cur, pc |-> "start", last |-> 0, i |-> 0]}
    BY <1>6 DEF AddCheck
  <2>2. threads' \subseteq Thread /\ ThreadWritten'
    BY <1>6, <2>1 DEF AddCheck, Thread, NonZero
  <2>3. cur' \in Buf
    BY <1>6 DEF AddCheck, Buf
  <2> QED
    BY <1>6, <2>2, <2>3 DEF AddCheck
<1> QED
  BY <1>1, <1>2, <1>3, <1>4, <1>5, <1>6 DEF Add

\* The fields of a thread after a step.
LEMMA ThreadAt ==
  ASSUME NEW t \in Thread, NEW q \in {"start", "open", "write", "ready", "zero", "close"}
  PROVE  LET u == [t EXCEPT !.pc = q] IN
         u \in Thread /\ u.buf = t.buf /\ u.pc = q /\ u.last = t.last /\ u.i = t.i
BY DEF Thread

LEMMA ThreadOpening ==
  ASSUME NEW t \in Thread, NEW n \in Nat
  PROVE  LET u == [t EXCEPT !.pc = "open", !.last = n] IN
         u \in Thread /\ u.buf = t.buf /\ u.pc = "open" /\ u.last = n /\ u.i = t.i
BY DEF Thread

LEMMA ThreadWriting ==
  ASSUME NEW t \in Thread, NEW q \in {"write", "ready"}
  PROVE  LET u == [t EXCEPT !.i = @ + 1, !.pc = q] IN
         u \in Thread /\ u.buf = t.buf /\ u.pc = q /\ u.last = t.last /\ u.i = t.i + 1
<1>1. t.i + 1 \in Nat
  BY DEF Thread
<1> QED
  BY <1>1 DEF Thread

\* A step of a thread replaces it or ends it.
LEMMA ThreadStep ==
  ASSUME TypeInv, NEW t \in threads,
         Ends(t) \/ (\E u \in Thread : PlaceIn(u)' /\ Move(t, u)), UNCHANGED content
  PROVE  threads' \subseteq Thread /\ ThreadWritten'
BY DEF TypeInv, TypeOK, ThreadWritten, PlaceIn, Ends, Move

LEMMA ThreadTyped ==
  ASSUME TypeInv, NEW t \in threads
  PROVE  /\ t \in Thread /\ PlaceIn(t) /\ t.buf \in Buf /\ t.last \in Nat /\ t.i \in Nat
         /\ position[t.buf] \in 0..N
BY DEF TypeInv, TypeOK, ThreadWritten, Thread

\* Every step of a writing thread preserves the types.
LEMMA LogTypeInv ==
  ASSUME TypeInv, NEW t \in threads, Log(t) PROVE TypeInv'
<1> USE BufferAssumption
<1>0. /\ t \in Thread /\ PlaceIn(t) /\ t.buf \in Buf /\ t.last \in Nat /\ t.i \in Nat
      /\ position[t.buf] \in 0..N
  BY ThreadTyped
<1>1. CASE LogStart(t)
  <2>1. CASE position[t.buf] = 0
    <3>1. Ends(t) /\ UNCHANGED content
      BY <1>1, <2>1 DEF LogStart, bufVars
    <3>2. threads' \subseteq Thread /\ ThreadWritten'
      BY <3>1, ThreadStep
    <3> QED
      BY <1>1, <3>2 DEF LogStart, TypeInv, TypeOK, BufferWritten, OwnerWritten, ownerVars, bufVars
  <2>2. CASE position[t.buf] # 0
    <3>1. PICK u : u = [t EXCEPT !.pc = "open", !.last = position[t.buf]]
      OBVIOUS
    <3>2. /\ u \in Thread /\ u.buf = t.buf /\ u.pc = "open" /\ u.i = t.i
          /\ u.last = position[t.buf]
      <4>1. position[t.buf] \in Nat
        BY <1>0
      <4> QED
        BY <1>0, <3>1, <4>1, ThreadOpening
    <3>3. t.i = 0 /\ NonZero(content[t.buf], position[t.buf]) /\ UNCHANGED content
      BY <1>0, <1>1 DEF LogStart, PlaceIn, TypeInv, BufferWritten, bufVars
    <3>4. PlaceIn(u)'
      BY <1>0, <2>2, <3>2, <3>3 DEF PlaceIn
    <3>5. Move(t, u)
      BY <1>1, <2>2, <3>1 DEF LogStart
    <3>6. threads' \subseteq Thread /\ ThreadWritten'
      BY <3>2, <3>3, <3>4, <3>5, ThreadStep
    <3> QED
      BY <1>1, <3>6 DEF LogStart, TypeInv, TypeOK, BufferWritten, OwnerWritten, ownerVars, bufVars
  <2> QED
    BY <2>1, <2>2
<1>2. CASE LogOpen(t)
  <2>1. PICK u : u = [t EXCEPT !.pc = "write"]
    OBVIOUS
  <2>2. u \in Thread /\ u.buf = t.buf /\ u.pc = "write" /\ u.last = t.last /\ u.i = t.i
    BY <1>0, <2>1, ThreadAt
  <2>3. (Ends(t) \/ Move(t, u)) /\ UNCHANGED content
    BY <1>2, <2>1 DEF LogOpen, bufVars
  <2>4. PlaceIn(u)'
    BY <1>0, <1>2, <2>2, <2>3 DEF LogOpen, PlaceIn
  <2>5. threads' \subseteq Thread /\ ThreadWritten'
    BY <2>2, <2>3, <2>4, ThreadStep
  <2> QED
    BY <1>2, <2>5 DEF LogOpen, TypeInv, TypeOK, BufferWritten, OwnerWritten, ownerVars, bufVars
<1>3. CASE LogWrite(t)
  <2>0. t.i < t.last /\ t.last <= N /\ UNCHANGED content
    BY <1>0, <1>3 DEF LogWrite, PlaceIn, bufVars
  <2>1. content[t.buf][t.i] \in 1..MaxEntries
    <3>1. content[t.buf] \in [0..(N - 1) -> 0..MaxEntries]
      BY <1>0 DEF TypeInv, TypeOK
    <3>2. t.i \in 0..(N - 1) /\ t.i \in 0..(t.last - 1)
      BY <1>0, <2>0
    <3>3. content[t.buf][t.i] # 0
      BY <1>0, <3>2 DEF PlaceIn, NonZero
    <3> QED
      BY <3>1, <3>2, <3>3
  <2>2. file' = Append(file, content[t.buf][t.i]) \/ file' = file
    BY <1>3 DEF LogWrite
  <2>3. file' \in Seq(1..MaxEntries)
    <3>1. file \in Seq(1..MaxEntries)
      BY DEF TypeInv, TypeOK
    <3> QED
      BY <2>1, <2>2, <3>1
  <2>4. PICK q \in {"write", "ready"} : q = IF t.i + 1 = t.last THEN "ready" ELSE "write"
    OBVIOUS
  <2>5. PICK u : u = [t EXCEPT !.i = @ + 1, !.pc = q]
    OBVIOUS
  <2>6. u \in Thread /\ u.buf = t.buf /\ u.pc = q /\ u.last = t.last /\ u.i = t.i + 1
    BY <1>0, <2>5, ThreadWriting
  <2>7. PlaceIn(u)'
    BY <1>0, <2>0, <2>4, <2>6 DEF PlaceIn
  <2>8. Move(t, u)
    BY <1>3, <2>4, <2>5 DEF LogWrite
  <2>9. threads' \subseteq Thread /\ ThreadWritten'
    BY <2>0, <2>6, <2>7, <2>8, ThreadStep
  <2> QED
    BY <1>3, <2>3, <2>9 DEF LogWrite, TypeInv, TypeOK, BufferWritten, OwnerWritten, ownerVars, bufVars
<1>4. CASE LogReady(t)
  <2>1. ready' \in [Buf -> BOOLEAN]
    BY <1>0, <1>4 DEF LogReady, TypeInv, TypeOK
  <2>2. PICK u : u = [t EXCEPT !.pc = "zero"]
    OBVIOUS
  <2>3. u \in Thread /\ u.buf = t.buf /\ u.pc = "zero" /\ u.last = t.last /\ u.i = t.i
    BY <1>0, <2>2, ThreadAt
  <2>4. Move(t, u) /\ UNCHANGED content
    BY <1>4, <2>2 DEF LogReady
  <2>5. PlaceIn(u)'
    BY <1>0, <2>3, <2>4 DEF PlaceIn
  <2>6. threads' \subseteq Thread /\ ThreadWritten'
    BY <2>3, <2>4, <2>5, ThreadStep
  <2> QED
    BY <1>4, <2>1, <2>6 DEF LogReady, TypeInv, TypeOK, BufferWritten, OwnerWritten, ownerVars
<1>5. CASE LogZero(t)
  <2>1. position' \in [Buf -> 0..N]
    BY <1>0, <1>5 DEF LogZero, TypeInv, TypeOK
  <2>2. \A b \in Buf : position'[b] = position[b] \/ position'[b] = 0
    BY <1>0, <1>5 DEF LogZero, TypeInv, TypeOK
  <2>3. BufferWritten' /\ OwnerWritten'
    BY <1>0, <1>5, <2>2 DEF LogZero, NonZero, TypeInv, TypeOK, BufferWritten, OwnerWritten, ownerVars
  <2>4. PICK u : u = [t EXCEPT !.pc = "close"]
    OBVIOUS
  <2>5. u \in Thread /\ u.buf = t.buf /\ u.pc = "close" /\ u.last = t.last /\ u.i = t.i
    BY <1>0, <2>4, ThreadAt
  <2>6. Move(t, u) /\ UNCHANGED content
    BY <1>5, <2>4 DEF LogZero
  <2>7. PlaceIn(u)'
    BY <1>0, <2>5, <2>6 DEF PlaceIn
  <2>8. threads' \subseteq Thread /\ ThreadWritten'
    BY <2>5, <2>6, <2>7, ThreadStep
  <2> QED
    BY <1>5, <2>1, <2>3, <2>8 DEF LogZero, TypeInv, TypeOK, ownerVars
<1>6. CASE LogClose(t)
  <2>1. Ends(t) /\ UNCHANGED content
    BY <1>6 DEF LogClose, bufVars
  <2>2. threads' \subseteq Thread /\ ThreadWritten'
    BY <2>1, ThreadStep
  <2> QED
    BY <1>6, <2>2 DEF LogClose, TypeInv, TypeOK, BufferWritten, OwnerWritten, ownerVars, bufVars
<1> QED
  BY <1>1, <1>2, <1>3, <1>4, <1>5, <1>6 DEF Log

\* What a buffer holds is a sequence of entries.
LEMMA HeldIsSeq ==
  ASSUME TypeInv, NEW b \in Buf
  PROVE  /\ Held(b) \in Seq(1..MaxEntries)
         /\ Len(Held(b)) = position[b]
         /\ \A k \in 1..position[b] : Held(b)[k] = content[b][k - 1]
<1>1. position[b] \in Nat /\ position[b] <= N
  BY BufferAssumption DEF TypeInv, TypeOK
<1>2. \A k \in 1..position[b] : content[b][k - 1] \in 1..MaxEntries
  BY <1>1, BufferAssumption DEF TypeInv, TypeOK, BufferWritten, NonZero
<1>3. Held(b) \in [1..position[b] -> 1..MaxEntries]
  BY <1>2 DEF Held
<1>4. Held(b) \in Seq(1..MaxEntries)
  BY <1>1, <1>3, SeqDef
<1>5. Len(Held(b)) \in Nat /\ 1..Len(Held(b)) = 1..position[b]
  BY <1>3, <1>4, LenProperties
<1>6. Len(Held(b)) = position[b]
  BY <1>1, <1>5
<1> QED
  BY <1>4, <1>6 DEF Held

LEMMA DestroyTypeInv == TypeInv /\ Destroy => TypeInv'
<1> SUFFICES ASSUME TypeInv, Destroy PROVE TypeInv'
    OBVIOUS
<1>1. Held(cur) \in Seq(1..MaxEntries)
  BY HeldIsSeq DEF TypeInv, TypeOK
<1>2. file \o Held(cur) \in Seq(1..MaxEntries)
  BY <1>1, ConcatProperties DEF TypeInv, TypeOK
<1>3. file' \in Seq(1..MaxEntries)
  BY <1>2 DEF Destroy, TypeInv, TypeOK
<1> QED
  BY <1>3 DEF Destroy, TypeInv, TypeOK, BufferWritten,
       OwnerWritten, ThreadWritten, PlaceIn, bufVars

LEMMA NextTypeInv == TypeInv /\ [Next]_vars => TypeInv'
<1>1. TypeInv /\ UNCHANGED vars => TypeInv'
  BY DEF TypeInv, TypeOK, BufferWritten, OwnerWritten, ThreadWritten, PlaceIn,
         vars
<1> QED
  BY <1>1, AddTypeInv, LogTypeInv, DestroyTypeInv DEF Next

\* The logger's variables keep their types, whether or not the file keeps up:
\* also a position that is taken back between a store and its increment never
\* leaves the buffer, and no place is written to the file that was not stored.
THEOREM LoggerTypeCorrect == Spec => []TypeOK
<1>1. TypeInv => TypeOK
  BY DEF TypeInv
<1> QED
  BY InitTypeInv, NextTypeInv, <1>1, PTL DEF Spec

-----------------------------------------------------------------------------
(* Who owns which part, as long as the file keeps up.                      *)

Full(b) == position[b] = N

OwnerInv ==
  /\ pc # "overrun"
  /\ pc \in {"store", "incr"} => ready[cur] /\ position[cur] < N
  /\ pc = "test" => ready[cur]
  /\ pc \in {"idle", "check", "gone"} => (ready[cur] <=> ~Full(cur))

\* A buffer that is about to be handed over finds no thread at work.
HandOver ==
  /\ pc \in {"store", "incr"} /\ position[cur] = N - 1 => threads = {}
  /\ pc \in {"test", "check"} /\ Full(cur) => threads = {}
  /\ pc = "gone" => threads = {}

\* The thread has the buffer that the owner does not have, and the stream.
AtWork(t) ==
  /\ t.buf = 1 - cur
  /\ ready[t.buf] <=> t.pc \in {"zero", "close"}
  /\ position[t.buf] = IF t.pc = "close" THEN 0 ELSE N
  /\ stream = "open" <=> t.pc \notin {"start", "open"}
  /\ t.pc \in {"start", "open"} => t.i = 0
  /\ t.pc # "start" => t.last = N
  /\ t.pc = "write" => t.i < N
  /\ t.pc \in {"ready", "zero", "close"} => t.i = N

\* Without a thread the other buffer is empty, or full since open failed.
AtRest ==
  /\ position[1 - cur] \in {0, N}
  /\ ready[1 - cur] <=> ~Full(1 - cur)
  /\ stream # "open"

OtherInv == \/ threads = {} /\ AtRest
            \/ \E t \in threads : threads = {t} /\ AtWork(t)

Ownership == OwnerInv /\ HandOver /\ OtherInv

LEMMA OtherBuf == ASSUME TypeInv PROVE cur \in Buf /\ 1 - cur \in Buf /\ 1 - cur # cur
BY DEF TypeInv, TypeOK, Buf

LEMMA InitOwnership == Init => Ownership
BY BufferAssumption DEF Init, Ownership, OwnerInv, HandOver, OtherInv, AtRest, Full, Buf

\* A step of add leaves the other side alone, unless it hands a buffer over.
LEMMA OtherSideKept ==
  ASSUME TypeInv, OtherInv, UNCHANGED <<cur, threads, stream>>,
         ready'[1 - cur] = ready[1 - cur], position'[1 - cur] = position[1 - cur]
  PROVE  OtherInv'
BY DEF OtherInv, AtRest, AtWork, Full

LEMMA AddOwnership ==
  ASSUME TypeInv, Ownership, Timely, Add PROVE Ownership'
<1> USE BufferAssumption
<1>0. /\ cur \in Buf /\ 1 - cur \in Buf /\ 1 - cur # cur
      /\ position \in [Buf -> 0..N] /\ ready \in [Buf -> BOOLEAN]
  BY OtherBuf DEF TypeInv, TypeOK
<1> USE DEF Ownership, OwnerInv, HandOver, Full, bufVars
<1>1. CASE AddBegin
  <2>1. OtherInv'
    BY <1>1, OtherSideKept DEF AddBegin
  <2>2. OwnerInv'
    BY <1>0, <1>1 DEF AddBegin
  <2>3. HandOver'
    BY <1>0, <1>1 DEF AddBegin, InTime
  <2> QED
    BY <2>1, <2>2, <2>3
<1>2. CASE AddStore
  <2>1. OtherInv'
    BY <1>2, OtherSideKept DEF AddStore
  <2> QED
    BY <1>0, <1>2, <2>1 DEF AddStore
<1>3. CASE AddIncr
  <2>1. position'[cur] = position[cur] + 1 /\ position'[1 - cur] = position[1 - cur]
    BY <1>0, <1>3 DEF AddIncr
  <2>2. OtherInv'
    BY <1>3, <2>1, OtherSideKept DEF AddIncr
  <2> QED
    BY <1>0, <1>3, <2>1, <2>2 DEF AddIncr
<1>4. CASE AddTest
  <2>1. ready'[cur] = (ready[cur] /\ position[cur] < N) /\ ready'[1 - cur] = ready[1 - cur]
    BY <1>0, <1>4 DEF AddTest
  <2>2. OtherInv'
    BY <1>4, <2>1, OtherSideKept DEF AddTest
  <2>3. pc = "test" /\ pc' = "check" /\ UNCHANGED <<cur, position, threads>>
    BY <1>4 DEF AddTest
  <2>4. position[cur] < N <=> position[cur] # N
    BY <1>0
  <2>5. OwnerInv'
    BY <2>1, <2>3, <2>4
  <2>6. HandOver'
    BY <2>3
  <2> QED
    BY <2>2, <2>5, <2>6
<1>5. CASE AddCheck /\ ready[cur]
  <2>1. OtherInv'
    BY <1>5, OtherSideKept DEF AddCheck
  <2> QED
    BY <1>0, <1>5, <2>1 DEF AddCheck
<1>6. CASE AddCheck /\ ~ready[cur]
  <2>1. threads = {} /\ AtRest /\ Full(cur)
    BY <1>6 DEF AddCheck, OtherInv
  <2>2. PICK t : t = [buf |-> cur, pc |-> "start", last |-> 0, i |-> 0]
    OBVIOUS
  <2>3. threads' = {t} /\ cur' = 1 - cur /\ pc' = "idle"
    BY <1>6, <2>1, <2>2 DEF AddCheck
  <2>4. 1 - cur' = cur /\ UNCHANGED <<ready, position, stream>>
    BY <1>0, <1>6, <2>3 DEF AddCheck, Buf
  <2>5. AtWork(t)'
    BY <1>6, <2>1, <2>2, <2>4 DEF AtWork, AtRest
  <2>6. OtherInv'
    BY <2>3, <2>5 DEF OtherInv
  <2> QED
    BY <2>1, <2>3, <2>4, <2>6 DEF AtRest
<1> QED
  BY <1>1, <1>2, <1>3, <1>4, <1>5, <1>6 DEF Add

\* A thread's step is a step of the only one.
LEMMA OnlyThread ==
  ASSUME Ownership, NEW t \in threads
  PROVE  /\ threads = {t} /\ AtWork(t)
         /\ \A u : Move(t, u) => threads' = {u}
         /\ Ends(t) => threads' = {}
BY DEF Ownership, OtherInv, Move, Ends

\* The owner does not notice the steps of a thread, unless it waits for its end.
LEMMA OwnerSideKept ==
  ASSUME TypeInv, Ownership, threads # {}, UNCHANGED ownerVars,
         ready'[cur] = ready[cur], position'[cur] = position[cur]
  PROVE  OwnerInv' /\ HandOver'
BY DEF Ownership, OwnerInv, HandOver, Full, ownerVars

LEMMA LogOwnership ==
  ASSUME TypeInv, Ownership, NEW t \in threads, Log(t) PROVE Ownership'
<1> USE BufferAssumption
<1>0. /\ t \in Thread /\ t.i \in Nat /\ t.last \in Nat
      /\ cur \in Buf /\ 1 - cur \in Buf /\ 1 - cur # cur
      /\ position \in [Buf -> 0..N] /\ ready \in [Buf -> BOOLEAN]
  BY OtherBuf, ThreadTyped DEF TypeInv, TypeOK
<1>a. threads = {t} /\ AtWork(t) /\ t.buf = 1 - cur
  BY OnlyThread DEF AtWork
<1>b. ASSUME NEW u, Move(t, u), AtWork(u)', OwnerInv', HandOver' PROVE Ownership'
  BY <1>b, OnlyThread DEF Ownership, OtherInv
<1>c. ASSUME Ends(t), AtRest', OwnerInv', HandOver' PROVE Ownership'
  BY <1>c, OnlyThread DEF Ownership, OtherInv
<1>1. CASE LogStart(t)
  <2>1. PICK u : u = [t EXCEPT !.pc = "open", !.last = position[t.buf]]
    OBVIOUS
  <2>2. /\ u.buf = t.buf /\ u.pc = "open" /\ u.i = t.i /\ u.last = position[t.buf]
    <3>1. position[t.buf] \in Nat
      BY <1>0, <1>a
    <3> QED
      BY <1>0, <2>1, <3>1, ThreadOpening
  <2>3. t.pc = "start" /\ Move(t, u) /\ UNCHANGED <<pc, cur, added, dropped, ready, position, stream>>
    BY <1>1, <1>a, <2>1 DEF LogStart, AtWork, ownerVars, bufVars
  <2>4. AtWork(u)'
    BY <1>a, <2>2, <2>3 DEF AtWork
  <2>5. OwnerInv' /\ HandOver'
    BY <1>a, <2>3, OwnerSideKept DEF ownerVars
  <2> QED
    BY <1>b, <2>3, <2>4, <2>5
<1>2. CASE LogOpen(t)
  <2>1. PICK u : u = [t EXCEPT !.pc = "write"]
    OBVIOUS
  <2>2. u.buf = t.buf /\ u.pc = "write" /\ u.i = t.i /\ u.last = t.last
    BY <1>0, <2>1, ThreadAt
  <2>3. t.pc = "open" /\ UNCHANGED <<pc, cur, added, dropped, ready, position>>
    BY <1>2 DEF LogOpen, ownerVars, bufVars
  <2>4. OwnerInv' /\ HandOver'
    BY <1>a, <2>3, OwnerSideKept DEF ownerVars
  <2>5. CASE stream' = "open" /\ Move(t, u)
    <3>1. AtWork(u)'
      BY <1>a, <2>2, <2>3, <2>5 DEF AtWork
    <3> QED
      BY <1>b, <2>4, <2>5, <3>1
  <2>6. CASE stream' = "failed" /\ Ends(t)
    <3>1. AtRest'
      BY <1>a, <2>3, <2>6 DEF AtWork, AtRest, Full
    <3> QED
      BY <1>c, <2>4, <2>6, <3>1
  <2> QED
    BY <1>2, <2>1, <2>5, <2>6 DEF LogOpen
<1>3. CASE LogWrite(t)
  <2>1. PICK q \in {"write", "ready"} : q = IF t.i + 1 = t.last THEN "ready" ELSE "write"
    OBVIOUS
  <2>2. PICK u : u = [t EXCEPT !.i = @ + 1, !.pc = q]
    OBVIOUS
  <2>3. u.buf = t.buf /\ u.pc = q /\ u.last = t.last /\ u.i = t.i + 1
    BY <1>0, <2>2, ThreadWriting
  <2>4. t.pc = "write" /\ Move(t, u) /\ UNCHANGED <<pc, cur, added, dropped, ready, position, stream>>
    BY <1>3, <2>1, <2>2 DEF LogWrite, ownerVars, bufVars
  <2>5. u.last = N /\ (u.pc = "write" => u.i < N) /\ (u.pc = "ready" => u.i = N)
    BY <1>0, <1>a, <2>1, <2>3, <2>4 DEF AtWork
  <2>6. u.pc \in {"write", "ready"} /\ u.buf = t.buf
    BY <2>1, <2>3
  <2>7. AtWork(u)'
    BY <1>a, <2>4, <2>5, <2>6 DEF AtWork
  <2>8. OwnerInv' /\ HandOver'
    BY <1>a, <2>4, OwnerSideKept DEF ownerVars
  <2> QED
    BY <1>b, <2>4, <2>7, <2>8
<1>4. CASE LogReady(t)
  <2>1. PICK u : u = [t EXCEPT !.pc = "zero"]
    OBVIOUS
  <2>2. u.buf = t.buf /\ u.pc = "zero" /\ u.i = t.i /\ u.last = t.last
    BY <1>0, <2>1, ThreadAt
  <2>3. t.pc = "ready" /\ Move(t, u) /\ UNCHANGED <<pc, cur, added, dropped, position, stream>>
    BY <1>4, <2>1 DEF LogReady, ownerVars
  <2>4. ready'[1 - cur] /\ ready'[cur] = ready[cur]
    BY <1>0, <1>4, <1>a DEF LogReady
  <2>5. AtWork(u)'
    BY <1>a, <2>2, <2>3, <2>4 DEF AtWork
  <2>6. OwnerInv' /\ HandOver'
    BY <1>a, <2>3, <2>4, OwnerSideKept DEF ownerVars
  <2> QED
    BY <1>b, <2>3, <2>5, <2>6
<1>5. CASE LogZero(t)
  <2>1. PICK u : u = [t EXCEPT !.pc = "close"]
    OBVIOUS
  <2>2. u.buf = t.buf /\ u.pc = "close" /\ u.i = t.i /\ u.last = t.last
    BY <1>0, <2>1, ThreadAt
  <2>3. t.pc = "zero" /\ Move(t, u) /\ UNCHANGED <<pc, cur, added, dropped, ready, stream>>
    BY <1>5, <2>1 DEF LogZero, ownerVars
  <2>4. position'[1 - cur] = 0 /\ position'[cur] = position[cur]
    BY <1>0, <1>5, <1>a DEF LogZero
  <2>5. AtWork(u)'
    BY <1>a, <2>2, <2>3, <2>4 DEF AtWork
  <2>6. OwnerInv' /\ HandOver'
    BY <1>a, <2>3, <2>4, OwnerSideKept DEF ownerVars
  <2> QED
    BY <1>b, <2>3, <2>5, <2>6
<1>6. CASE LogClose(t)
  <2>1. t.pc = "close" /\ Ends(t) /\ UNCHANGED <<pc, cur, added, dropped, ready, position>>
    BY <1>6 DEF LogClose, ownerVars, bufVars
  <2>2. stream' # "open"
    BY <1>6 DEF LogClose
  <2>3. AtRest'
    BY <1>a, <2>1, <2>2 DEF AtWork, AtRest, Full
  <2>4. OwnerInv' /\ HandOver'
    BY <1>a, <2>1, OwnerSideKept DEF ownerVars
  <2> QED
    BY <1>c, <2>1, <2>3, <2>4
<1> QED
  BY <1>1, <1>2, <1>3, <1>4, <1>5, <1>6 DEF Log

LEMMA DestroyOwnership ==
  ASSUME TypeInv, Ownership, Destroy PROVE Ownership'
BY DEF Destroy, Ownership, OwnerInv, HandOver, OtherInv, AtRest, Full, bufVars

LEMMA NextOwnership ==
  ASSUME TypeInv, Ownership, Timely, [Next]_vars PROVE Ownership'
<1>1. CASE UNCHANGED vars
  BY <1>1 DEF vars, Ownership, OwnerInv, HandOver, OtherInv, AtRest, AtWork, Full
<1> QED
  BY <1>1, AddOwnership, LogOwnership, DestroyOwnership DEF Next

\* While the file keeps up, the two atomics do keep the threads apart: there is
\* at most one thread, it has the stream and the buffer that the owner does not
\* have, and the owner never stores outside a buffer.
THEOREM OneWriterPerBuffer ==
  ASSUME Timely
  PROVE  Spec => [](/\ NoOverrun
                    /\ \A t, u \in threads : t = u
                    /\ \A t \in threads : t.buf = 1 - cur)
<1>1. Init => TypeInv /\ Ownership
  BY InitTypeInv, InitOwnership
<1>2. (TypeInv /\ Ownership) /\ [Next]_vars => (TypeInv /\ Ownership)'
  BY NextTypeInv, NextOwnership
<1>3. Ownership => /\ NoOverrun
                   /\ \A t, u \in threads : t = u
                   /\ \A t \in threads : t.buf = 1 - cur
  BY DEF Ownership, OwnerInv, OtherInv, AtWork, NoOverrun
<1> QED
  BY <1>1, <1>2, <1>3, PTL DEF Spec

-----------------------------------------------------------------------------
(* Where the entries are.                                                  *)

\* The newest entry that a buffer or the file may hold.
Newest == IF pc \in {"store", "incr"} THEN added - 1 ELSE added

Below(n) == 0..(n - 1)
Places(b) == Below(position[b])

\* A thread has written the place k of the buffer b.
Written(b, k) == \E t \in threads : t.buf = b /\ k < t.i

\* What is held is not newer than Newest, is in one place only, and is in the
\* file exactly when the thread of its buffer has come past its place.
NothingNewer == ToSet(file) \subseteq 1..Newest
HeldOnce ==
  /\ \A b \in Buf : \A k \in Places(b) :
       /\ content[b][k] \in 1..Newest
       /\ content[b][k] \in ToSet(file) <=> Written(b, k)
  /\ \A b, c \in Buf : \A k \in Places(b), l \in Places(c) :
       content[b][k] = content[c][l] => b = c /\ k = l
JustStored == pc = "incr" => content[cur][position[cur]] = added

EntryInv == NothingNewer /\ HeldOnce /\ JustStored

\* The destructor writes its entries and leaves the position as it is.
Entries == pc # "gone" => EntryInv

\* The elements of a sequence that grows.
LEMMA ToSetAppend ==
  ASSUME NEW S, NEW s \in Seq(S), NEW e \in S
  PROVE  ToSet(Append(s, e)) = ToSet(s) \cup {e}
<1>1. /\ Append(s, e) \in Seq(S) /\ Len(Append(s, e)) = Len(s) + 1 /\ Len(s) \in Nat
      /\ \A k \in 1..Len(s) : Append(s, e)[k] = s[k]
      /\ Append(s, e)[Len(s) + 1] = e
  OBVIOUS
<1>2. DOMAIN s = 1..Len(s) /\ DOMAIN Append(s, e) = 1..(Len(s) + 1)
  BY <1>1, LenProperties
<1>3. \A x : x \in ToSet(Append(s, e)) <=> x \in ToSet(s) \/ x = e
  BY <1>1, <1>2 DEF ToSet
<1> QED
  BY <1>3

LEMMA ToSetConcat ==
  ASSUME NEW S, NEW s \in Seq(S), NEW t \in Seq(S)
  PROVE  ToSet(s \o t) = ToSet(s) \cup ToSet(t)
<1>1. /\ s \o t \in Seq(S) /\ Len(s) \in Nat /\ Len(t) \in Nat
      /\ DOMAIN s = 1..Len(s) /\ DOMAIN t = 1..Len(t)
  BY LenProperties, ConcatProperties
<1>2. DOMAIN (s \o t) = 1..(Len(s) + Len(t))
  BY <1>1, LenProperties, ConcatProperties
<1>3. \A i \in 1..(Len(s) + Len(t)) :
         (s \o t)[i] = IF i <= Len(s) THEN s[i] ELSE t[i - Len(s)]
  BY ConcatProperties
<1>4. ToSet(s \o t) \subseteq ToSet(s) \cup ToSet(t)
  BY <1>1, <1>2, <1>3 DEF ToSet
<1>5. \A i \in 1..Len(s) : i \in DOMAIN (s \o t) /\ (s \o t)[i] = s[i]
  BY <1>1, <1>2, <1>3
<1>6. \A i \in 1..Len(t) : Len(s) + i \in DOMAIN (s \o t) /\ (s \o t)[Len(s) + i] = t[i]
  BY <1>1, <1>2, <1>3
<1>7. ToSet(s) \subseteq ToSet(s \o t)
  BY <1>1, <1>5 DEF ToSet
<1>8. ToSet(t) \subseteq ToSet(s \o t)
  BY <1>1, <1>6 DEF ToSet
<1> QED
  BY <1>4, <1>7, <1>8

\* A sequence without repetitions is one of those that SetToSeqs makes of its
\* elements.
LEMMA SetToSeqsHas ==
  ASSUME NEW S, NEW s \in Seq(S),
         \A i, j \in 1..Len(s) : s[i] = s[j] => i = j
  PROVE  s \in SetToSeqs(ToSet(s))
<1>1. Len(s) \in Nat /\ DOMAIN s = 1..Len(s) /\ s \in [1..Len(s) -> S]
  BY LenProperties
<1>2. s \in [1..Len(s) -> ToSet(s)]
  BY <1>1 DEF ToSet
<1>3. s \in Bijection(1..Len(s), ToSet(s))
  BY <1>1, <1>2 DEF ToSet, Bijection, Injection, Surjection, IsInjective
<1>4. Cardinality(ToSet(s)) = Len(s)
  BY <1>1, <1>3, FS_CountingElements DEF ExistsBijection
<1> QED
  BY <1>2, <1>4 DEF SetToSeqs

\* A step that takes no entry away from the file or moves one in it.
LEMMA EntriesKept ==
  ASSUME TypeInv, EntryInv, Newest' \in Nat, Newest <= Newest', UNCHANGED file,
         \A b \in Buf : \A k \in Below(position'[b]) :
            /\ k \in Places(b) /\ content'[b][k] = content[b][k]
            /\ Written(b, k)' <=> Written(b, k),
         JustStored'
  PROVE  EntryInv'
<1>1. Newest \in Nat \/ Newest = 0 - 1
  BY DEF Newest, TypeInv, TypeOK
<1>2. 1..Newest \subseteq 1..Newest'
  BY <1>1
<1>3. NothingNewer'
  BY <1>2 DEF EntryInv, NothingNewer
<1>4. HeldOnce'
  BY <1>2 DEF EntryInv, HeldOnce, Places
<1> QED
  BY <1>3, <1>4 DEF EntryInv

LEMMA InitEntries == Init => Entries
<1> SUFFICES ASSUME Init PROVE EntryInv
    BY DEF Entries
<1>1. ToSet(file) = {}
  BY DEF Init, ToSet
<1> QED
  BY <1>1 DEF Init, EntryInv, NothingNewer, HeldOnce, JustStored, Places, Below, Buf

LEMMA AddEntries ==
  ASSUME TypeInv, Ownership, EntryInv, Add PROVE EntryInv'
<1> USE BufferAssumption
<1>0. /\ cur \in Buf /\ added \in Nat /\ position \in [Buf -> 0..N]
      /\ content \in [Buf -> [0..(N - 1) -> 0..MaxEntries]]
      /\ pc \in {"store", "incr"} => added > 0
  BY DEF TypeInv, TypeOK, OwnerWritten
<1>1. CASE AddBegin
  <2>1. Newest' \in Nat /\ Newest <= Newest' /\ JustStored'
    BY <1>0, <1>1 DEF AddBegin, Newest, JustStored
  <2> QED
    BY <1>1, <2>1, EntriesKept DEF AddBegin, Places, Written, bufVars
<1>2. CASE AddStore
  <2>1. position[cur] < N
    BY <1>2 DEF AddStore, Ownership, OwnerInv
  <2> DEFINE row == [content[cur] EXCEPT ![position[cur]] = added]
  <2>2. content' = [content EXCEPT ![cur] = row] /\ pc = "store" /\ pc' = "incr"
        /\ UNCHANGED <<cur, added, position, threads, file>>
    BY <1>2, <2>1 DEF AddStore
  <2>3. content'[cur] = row /\ \A b \in Buf \ {cur} : content'[b] = content[b]
    BY <1>0, <2>2
  <2>4. /\ position[cur] \in 0..(N - 1) /\ row[position[cur]] = added
        /\ \A k \in Places(cur) : row[k] = content[cur][k]
    BY <1>0, <2>1 DEF Places, Below
  <2> HIDE DEF row
  <2>5. \A b \in Buf : \A k \in Places(b) : content'[b][k] = content[b][k]
    BY <2>3, <2>4
  <2>6. Newest' \in Nat /\ Newest <= Newest' /\ JustStored'
    BY <1>0, <2>2, <2>3, <2>4 DEF Newest, JustStored
  <2>7. \A b \in Buf : position'[b] = position[b] /\ \A k \in Places(b) : Written(b, k)' <=> Written(b, k)
    BY <2>2 DEF Places, Written
  <2>8. \A b \in Buf : \A k \in Below(position'[b]) :
           /\ k \in Places(b) /\ content'[b][k] = content[b][k]
           /\ Written(b, k)' <=> Written(b, k)
    BY <2>5, <2>7 DEF Places
  <2> QED
    BY <2>2, <2>6, <2>8, EntriesKept
<1>3. CASE AddIncr
  <2>1. /\ pc = "incr" /\ pc' = "test" /\ Newest = added - 1 /\ Newest' = added
        /\ UNCHANGED <<cur, added, content, threads, file>>
    BY <1>3 DEF AddIncr, Newest
  <2>2. /\ position[cur] \in Nat /\ Below(position'[cur]) = Places(cur) \cup {position[cur]}
        /\ \A b \in Buf \ {cur} : Below(position'[b]) = Places(b)
    BY <1>0, <1>3 DEF AddIncr, Places, Below
  <2>3. content[cur][position[cur]] = added /\ added \notin ToSet(file) /\ added > 0
    BY <1>0, <2>1 DEF EntryInv, JustStored, NothingNewer
  <2>4. \A k : ~Written(cur, k)
    BY <1>0, OtherBuf DEF Written, Ownership, OtherInv, AtWork
  <2>5. \A b \in Buf : \A k \in Places(b) : content[b][k] \in 1..(added - 1)
    BY <2>1 DEF EntryInv, HeldOnce
  <2>6. \A b \in Buf : \A k \in Below(position'[b]) :
          (k \in Places(b)) \/ (b = cur /\ k = position[cur])
    BY <2>2
  <2>7. \A b : \A k : Written(b, k)' <=> Written(b, k)
    BY <2>1 DEF Written
  <2>8. NothingNewer' /\ JustStored'
    BY <1>0, <2>1 DEF EntryInv, NothingNewer, JustStored
  <2>9. \A b \in Buf : \A k \in Below(position'[b]) :
          content[b][k] \in 1..added /\ (content[b][k] \in ToSet(file) <=> Written(b, k))
    <3> SUFFICES ASSUME NEW b \in Buf, NEW k \in Below(position'[b])
                 PROVE  content[b][k] \in 1..added /\ (content[b][k] \in ToSet(file) <=> Written(b, k))
        OBVIOUS
    <3>1. CASE k \in Places(b)
      BY <1>0, <2>5, <3>1 DEF EntryInv, HeldOnce
    <3>2. CASE b = cur /\ k = position[cur]
      BY <1>0, <2>3, <2>4, <3>2
    <3> QED
      BY <2>6, <3>1, <3>2
  <2>10. \A b, c \in Buf : \A k \in Below(position'[b]), l \in Below(position'[c]) :
           content[b][k] = content[c][l] => b = c /\ k = l
    <3> SUFFICES ASSUME NEW b \in Buf, NEW c \in Buf, NEW k \in Below(position'[b]), NEW l \in Below(position'[c]),
                        content[b][k] = content[c][l]
                 PROVE  b = c /\ k = l
        OBVIOUS
    <3>1. CASE k \in Places(b) /\ l \in Places(c)
      BY <3>1 DEF EntryInv, HeldOnce
    <3>2. CASE k \in Places(b) /\ c = cur /\ l = position[cur]
      BY <1>0, <2>3, <2>5, <3>2
    <3>3. CASE b = cur /\ k = position[cur] /\ l \in Places(c)
      BY <1>0, <2>3, <2>5, <3>3
    <3> QED
      BY <2>6, <3>1, <3>2, <3>3
  <2>11. HeldOnce'
    BY <2>1, <2>7, <2>9, <2>10 DEF HeldOnce, Places
  <2> QED
    BY <2>8, <2>11 DEF EntryInv
<1>4. CASE AddTest
  <2>1. Newest' \in Nat /\ Newest <= Newest' /\ JustStored'
    BY <1>0, <1>4 DEF AddTest, Newest, JustStored
  <2> QED
    BY <1>4, <2>1, EntriesKept DEF AddTest, Places, Written
<1>5. CASE AddCheck
  <2>1. Newest' \in Nat /\ Newest <= Newest' /\ JustStored'
    BY <1>0, <1>5 DEF AddCheck, Newest, JustStored
  <2>2. \A b \in Buf : \A k \in Places(b) : Written(b, k)' <=> Written(b, k)
    <3>1. threads' = threads \/ threads' = threads \cup {[buf |-> cur, pc |-> "start", last |-> 0, i |-> 0]}
      BY <1>5 DEF AddCheck
    <3> QED
      BY <3>1 DEF Written, Places, Below
  <2> QED
    BY <1>5, <2>1, <2>2, EntriesKept DEF AddCheck, Places, bufVars
<1> QED
  BY <1>1, <1>2, <1>3, <1>4, <1>5 DEF Add

\* How many places the thread has written; those of its buffer are the only ones.
LEMMA WrittenBy ==
  ASSUME TypeInv, Ownership, NEW t \in threads
  PROVE  \A b, k : Written(b, k) <=> b = t.buf /\ k < t.i
BY OnlyThread DEF Written

\* A step of a thread that writes nothing, and keeps or empties its buffer.
LEMMA ThreadKeeps ==
  ASSUME TypeInv, EntryInv, UNCHANGED <<pc, cur, added, content, file>>,
         position'[cur] = position[cur],
         position'[1 - cur] = position[1 - cur] \/ position'[1 - cur] = 0,
         \A k \in Below(position'[1 - cur]) : Written(1 - cur, k)' <=> Written(1 - cur, k),
         \A k : Written(cur, k)' <=> Written(cur, k)
  PROVE  EntryInv'
<1>1. Newest' = Newest /\ Newest \in Nat
  BY DEF Newest, TypeInv, TypeOK, OwnerWritten
<1>2. JustStored'
  BY DEF EntryInv, JustStored
<1>3. \A b \in Buf : b = cur \/ b = 1 - cur
  BY OtherBuf DEF Buf
<1>4. \A k \in Below(position'[1 - cur]) : k \in Places(1 - cur)
  BY DEF Places, Below
<1>5. \A b \in Buf : \A k \in Below(position'[b]) :
         /\ k \in Places(b) /\ content'[b][k] = content[b][k]
         /\ Written(b, k)' <=> Written(b, k)
  BY <1>3, <1>4 DEF Places
<1> QED
  BY <1>1, <1>2, <1>5, EntriesKept

LEMMA LogEntries ==
  ASSUME TypeInv, Ownership, EntryInv, NEW t \in threads, Log(t), pc # "gone"
  PROVE  EntryInv'
<1> USE BufferAssumption
<1>0. /\ t \in Thread /\ t.i \in Nat /\ t.last \in Nat /\ t.buf \in Buf
      /\ position \in [Buf -> 0..N] /\ added \in Nat
      /\ content \in [Buf -> [0..(N - 1) -> 0..MaxEntries]]
      /\ file \in Seq(1..MaxEntries)
      /\ pc \in {"store", "incr"} => added > 0
      /\ cur \in Buf /\ 1 - cur \in Buf /\ 1 - cur # cur /\ t.buf = 1 - cur
  BY OtherBuf, ThreadTyped, OnlyThread DEF TypeInv, TypeOK, OwnerWritten, AtWork
<1>a. threads = {t} /\ AtWork(t)
  BY OnlyThread
<1>b. \A b, k : Written(b, k) <=> b = t.buf /\ k < t.i
  BY WrittenBy
<1>c. Newest \in Nat /\ UNCHANGED <<pc, cur, added, content>>
  BY <1>0 DEF Newest, Log, LogStart, LogOpen, LogWrite, LogReady, LogZero, LogClose, ownerVars, bufVars
<1>d. Newest' = Newest
  BY <1>c DEF Newest
<1>e. ASSUME NEW u, Move(t, u) PROVE \A b, k : Written(b, k)' <=> b = u.buf /\ k < u.i
  BY <1>a, <1>e DEF Written, Move
<1>f. ASSUME Ends(t) PROVE \A b, k : ~Written(b, k)'
  BY <1>a, <1>f DEF Written, Ends
<1>1. CASE LogStart(t)
  <2>1. PICK u : u = [t EXCEPT !.pc = "open", !.last = position[t.buf]]
    OBVIOUS
  <2>2. u.buf = t.buf /\ u.i = t.i
    <3>1. position[t.buf] \in Nat
      BY <1>0
    <3> QED
      BY <1>0, <2>1, <3>1, ThreadOpening
  <2>3. Move(t, u) /\ UNCHANGED <<position, file>>
    BY <1>0, <1>1, <1>a, <2>1 DEF LogStart, AtWork, bufVars
  <2> QED
    BY <1>0, <1>b, <1>c, <1>e, <2>2, <2>3, ThreadKeeps
<1>2. CASE LogOpen(t)
  <2>1. PICK u : u = [t EXCEPT !.pc = "write"]
    OBVIOUS
  <2>2. u.buf = t.buf /\ u.i = t.i
    BY <1>0, <2>1, ThreadAt
  <2>3. (Move(t, u) \/ Ends(t)) /\ UNCHANGED <<position, file>> /\ t.i = 0
    BY <1>2, <1>a, <2>1 DEF LogOpen, AtWork, bufVars
  <2>4. \A k \in Below(position'[1 - cur]) : ~Written(1 - cur, k)
    BY <1>0, <1>b, <2>3 DEF Below
  <2>5. CASE Move(t, u)
    BY <1>0, <1>b, <1>c, <1>e, <2>2, <2>3, <2>5, ThreadKeeps
  <2>6. CASE Ends(t)
    BY <1>0, <1>b, <1>c, <1>f, <2>3, <2>4, <2>6, ThreadKeeps
  <2> QED
    BY <2>3, <2>5, <2>6
<1>3. CASE LogWrite(t)
  <2>1. PICK q \in {"write", "ready"} : q = IF t.i + 1 = t.last THEN "ready" ELSE "write"
    OBVIOUS
  <2>2. PICK u : u = [t EXCEPT !.i = @ + 1, !.pc = q]
    OBVIOUS
  <2>3. u.buf = t.buf /\ u.i = t.i + 1
    BY <1>0, <2>2, ThreadWriting
  <2>4. Move(t, u) /\ UNCHANGED position
    BY <1>3, <2>1, <2>2 DEF LogWrite, bufVars
  <2>5. stream = "open" /\ position[t.buf] = N /\ t.i < N
    BY <1>3, <1>a DEF LogWrite, AtWork
  <2> DEFINE e == content[t.buf][t.i]
  <2>6. t.i \in Places(t.buf) /\ file' = Append(file, e)
    BY <1>0, <1>3, <2>5 DEF LogWrite, Places, Below
  <2>7. e \in 1..Newest /\ e \in 1..MaxEntries
    <3>1. e \in 1..Newest
      BY <1>0, <2>6 DEF EntryInv, HeldOnce
    <3>2. content[t.buf] \in [0..(N - 1) -> 0..MaxEntries] /\ t.i \in 0..(N - 1)
      BY <1>0, <2>5
    <3>3. e \in 0..MaxEntries
      BY <3>2
    <3> QED
      BY <3>1, <3>3
  <2> HIDE DEF e
  <2>8. ToSet(file') = ToSet(file) \cup {e}
    <3>1. file \in Seq(1..MaxEntries) /\ e \in 1..MaxEntries /\ file' = Append(file, e)
      BY <1>0, <2>6, <2>7
    <3>2. PICK S : S = 1..MaxEntries
      OBVIOUS
    <3>3. file \in Seq(S) /\ e \in S
      BY <3>1, <3>2
    <3> QED
      BY ONLY <3>1, <3>3, ToSetAppend
  <2>9. NothingNewer' /\ JustStored'
    BY <1>c, <1>d, <2>4, <2>7, <2>8 DEF EntryInv, NothingNewer, JustStored
  <2>10. \A b \in Buf : \A k \in Places(b) :
            content[b][k] \in ToSet(file') <=> Written(b, k)'
    <3> SUFFICES ASSUME NEW b \in Buf, NEW k \in Places(b)
                 PROVE  content[b][k] \in ToSet(file') <=> Written(b, k)'
        OBVIOUS
    <3>1. content[b][k] \in ToSet(file) <=> b = t.buf /\ k < t.i
      BY <1>b DEF EntryInv, HeldOnce
    <3>2. content[b][k] = e <=> b = t.buf /\ k = t.i
      <4>1. t.buf \in Buf /\ t.i \in Places(t.buf) /\ e = content[t.buf][t.i]
        BY <1>0, <2>6 DEF e
      <4>2. content[b][k] = content[t.buf][t.i] => b = t.buf /\ k = t.i
        BY <4>1 DEF EntryInv, HeldOnce
      <4> QED
        BY <4>1, <4>2
    <3>3. Written(b, k)' <=> b = t.buf /\ k < t.i + 1
      BY <1>e, <2>3, <2>4
    <3>4. k \in Nat /\ t.i \in Nat
      BY <1>0 DEF Places, Below
    <3>5. k < t.i + 1 <=> k < t.i \/ k = t.i
      BY <3>4
    <3>6. content[b][k] \in ToSet(file') <=> content[b][k] \in ToSet(file) \/ content[b][k] = e
      BY <2>8
    <3> QED
      BY <3>1, <3>2, <3>3, <3>5, <3>6
  <2>11. HeldOnce'
    BY <1>c, <1>d, <2>4, <2>10 DEF EntryInv, HeldOnce, Places
  <2> QED
    BY <2>9, <2>11 DEF EntryInv
<1>4. CASE LogReady(t)
  <2>1. PICK u : u = [t EXCEPT !.pc = "zero"]
    OBVIOUS
  <2>2. u.buf = t.buf /\ u.i = t.i
    BY <1>0, <2>1, ThreadAt
  <2>3. Move(t, u) /\ UNCHANGED <<position, file>>
    BY <1>4, <2>1 DEF LogReady
  <2> QED
    BY <1>0, <1>b, <1>c, <1>e, <2>2, <2>3, ThreadKeeps
<1>5. CASE LogZero(t)
  <2>1. PICK u : u = [t EXCEPT !.pc = "close"]
    OBVIOUS
  <2>2. u.buf = t.buf /\ u.i = t.i
    BY <1>0, <2>1, ThreadAt
  <2>3. Move(t, u) /\ UNCHANGED file
    BY <1>5, <2>1 DEF LogZero
  <2>4. position' = [position EXCEPT ![1 - cur] = 0]
    BY <1>0, <1>5 DEF LogZero
  <2>5. position'[cur] = position[cur] /\ position'[1 - cur] = 0
    BY <1>0, <2>4
  <2>6. \A b \in Buf : position'[b] = position[b] \/ position'[b] = 0
    BY <1>0, <2>4
  <2> QED
    BY <1>0, <1>b, <1>c, <1>e, <2>2, <2>3, <2>5, <2>6, ThreadKeeps
<1>6. CASE LogClose(t)
  <2>1. Ends(t) /\ UNCHANGED <<position, file>> /\ position[1 - cur] = 0
    BY <1>0, <1>6, <1>a DEF LogClose, AtWork, bufVars
  <2>2. Below(position'[1 - cur]) = {}
    BY <2>1 DEF Below
  <2> QED
    BY <1>0, <1>b, <1>c, <1>f, <2>1, <2>2, ThreadKeeps
<1> QED
  BY <1>1, <1>2, <1>3, <1>4, <1>5, <1>6 DEF Log

LEMMA NextEntries ==
  ASSUME TypeInv, Ownership, Entries, [Next]_vars PROVE Entries'
<1>1. CASE Add
  BY <1>1, AddEntries DEF Entries, Add, AddBegin, AddStore, AddIncr, AddTest, AddCheck
<1>2. ASSUME NEW t \in threads, Log(t) PROVE Entries'
  <2>1. pc # "gone"
    BY DEF Ownership, HandOver
  <2> QED
    BY <1>2, <2>1, LogEntries DEF Entries
<1>3. CASE Destroy
  BY <1>3 DEF Destroy, Entries
<1>4. CASE UNCHANGED vars
  BY <1>4 DEF vars, Entries, EntryInv, NothingNewer, HeldOnce, JustStored, Newest, Places, Written
<1> QED
  BY <1>1, <1>2, <1>3, <1>4 DEF Next

-----------------------------------------------------------------------------
(* The logger implements EventLog.                                         *)

LEMMA HeldElements ==
  ASSUME TypeInv, NEW b \in Buf
  PROVE  \A e : e \in ToSet(Held(b)) <=> \E k \in Places(b) : content[b][k] = e
<1>1. /\ position[b] \in Nat /\ DOMAIN Held(b) = 1..position[b]
      /\ \A k \in 1..position[b] : Held(b)[k] = content[b][k - 1]
  BY BufferAssumption DEF Held, TypeInv, TypeOK
<1>2. ASSUME NEW e, e \in ToSet(Held(b)) PROVE \E k \in Places(b) : content[b][k] = e
  <2>1. PICK k \in 1..position[b] : e = content[b][k - 1]
    BY <1>1, <1>2 DEF ToSet
  <2>2. k - 1 \in Places(b)
    BY <1>1 DEF Places, Below
  <2> QED
    BY <2>1, <2>2
<1>3. ASSUME NEW e, NEW k \in Places(b), content[b][k] = e PROVE e \in ToSet(Held(b))
  <2>1. k + 1 \in 1..position[b] /\ (k + 1) - 1 = k
    BY <1>1 DEF Places, Below
  <2>2. Held(b)[k + 1] = e
    BY <1>1, <1>3, <2>1
  <2> QED
    BY <1>1, <2>1, <2>2 DEF ToSet
<1> QED
  BY <1>2, <1>3

\* What was taken and is not written, place by place.
InBuffer(e) == \E b \in Buf : \E k \in Places(b) : content[b][k] = e
BeingStored(e) == pc \in {"store", "incr"} /\ e = added

TakenIs == \A e : e \in Taken <=> (InBuffer(e) \/ BeingStored(e)) /\ e \notin ToSet(file)

LEMMA TakenMeaning == TypeInv => TakenIs
BY HeldElements DEF Taken, TakenIs, InBuffer, BeingStored, Buf

LEMMA TakenMeaningNext == TypeInv' => TakenIs'
BY TakenMeaning, PTL

\* A step that neither takes an entry nor writes one is a stutter.
LEMMA SameTaken ==
  ASSUME TypeInv, TypeInv', UNCHANGED <<added, file>>,
         \A e : e \notin ToSet(file) =>
           (InBuffer(e) \/ BeingStored(e) <=> InBuffer(e)' \/ BeingStored(e)')
  PROVE  UNCHANGED Promise!logVars
<1>1. \A e : e \in Taken <=> e \in Taken'
  BY TakenMeaning, TakenMeaningNext DEF TakenIs
<1> QED
  BY <1>1 DEF Promise!logVars

EventStep == [Promise!Give \/ Promise!Write]_(Promise!logVars)

\* Some of the entries that were taken are written, in some order.
LEMMA WriteStep ==
  ASSUME NEW S, S \subseteq Taken, S # {}, NEW s \in SetToSeqs(S),
         file' = file \o s, Taken' = Taken \ S, UNCHANGED added
  PROVE  EventStep
<1>1. S \in (SUBSET Taken) \ {{}}
  OBVIOUS
<1>2. Promise!SetToSeqs(S) = SetToSeqs(S)
  BY DEF Promise!SetToSeqs, SetToSeqs, Promise!Cardinality, Cardinality
<1>3. Promise!Write
  BY <1>1, <1>2 DEF Promise!Write
<1> QED
  BY <1>3 DEF EventStep

LEMMA Typed ==
  ASSUME TypeInv
  PROVE  /\ cur \in Buf /\ added \in Nat /\ position \in [Buf -> 0..N]
         /\ content \in [Buf -> [0..(N - 1) -> 0..MaxEntries]]
         /\ file \in Seq(1..MaxEntries) /\ Len(file) \in Nat
         /\ ready \in [Buf -> BOOLEAN]
BY BufferAssumption DEF TypeInv, TypeOK

LEMMA AddImplements ==
  ASSUME TypeInv, TypeInv', Ownership, EntryInv, Add PROVE EventStep
<1> USE BufferAssumption
<1>0. /\ cur \in Buf /\ added \in Nat /\ position \in [Buf -> 0..N]
      /\ content \in [Buf -> [0..(N - 1) -> 0..MaxEntries]]
  BY Typed
<1>t. TakenIs /\ TakenIs'
  BY TakenMeaning, TakenMeaningNext
<1>1. CASE AddBegin
  <2>1. added' = added + 1 /\ file' = file /\ pc = "idle" /\ pc' \in {"store", "check"}
    BY <1>1 DEF AddBegin
  <2>2. \A e : InBuffer(e)' <=> InBuffer(e)
    BY <1>1 DEF AddBegin, InBuffer, Places, bufVars
  <2>3. added' \notin ToSet(file)
    BY <1>0, <2>1 DEF EntryInv, NothingNewer, Newest
  <2>4. CASE pc' = "store"
    <3>1. \A e : e \in Taken' <=> e \in Taken \cup {added'}
      BY <1>0, <1>t, <2>1, <2>2, <2>3, <2>4 DEF TakenIs, BeingStored
    <3> QED
      BY <2>1, <3>1 DEF EventStep, Promise!Give
  <2>5. CASE pc' = "check"
    <3>1. \A e : e \in Taken' <=> e \in Taken
      BY <1>0, <1>t, <2>1, <2>2, <2>5 DEF TakenIs, BeingStored
    <3> QED
      BY <2>1, <3>1 DEF EventStep, Promise!Give
  <2> QED
    BY <2>1, <2>4, <2>5
<1>2. CASE AddStore
  <2>1. pc = "store" /\ pc' = "incr" /\ UNCHANGED <<added, position, file>>
    BY <1>2 DEF AddStore, Ownership, OwnerInv
  <2>2. \A b \in Buf : \A k \in Places(b) : content'[b][k] = content[b][k]
    <3>1. content' = [content EXCEPT ![cur][position[cur]] = added]
      BY <1>2, <2>1 DEF AddStore
    <3>2. position[cur] \notin Places(cur)
      BY <1>0 DEF Places, Below
    <3> QED
      BY <1>0, <3>1, <3>2
  <2>3. \A e : InBuffer(e)' <=> InBuffer(e)
    BY <2>1, <2>2 DEF InBuffer, Places
  <2> QED
    BY <2>1, <2>3, SameTaken DEF BeingStored, EventStep
<1>3. CASE AddIncr
  <2>1. pc = "incr" /\ pc' = "test" /\ UNCHANGED <<added, content, file>>
    BY <1>3 DEF AddIncr
  <2>2. /\ position[cur] \in Nat /\ Below(position'[cur]) = Places(cur) \cup {position[cur]}
        /\ \A b \in Buf \ {cur} : Below(position'[b]) = Places(b)
    BY <1>0, <1>3 DEF AddIncr, Places, Below
  <2>3. content[cur][position[cur]] = added
    BY <2>1 DEF EntryInv, JustStored
  <2>4. \A e : InBuffer(e)' <=> InBuffer(e) \/ e = added
    BY <1>0, <2>1, <2>2, <2>3 DEF InBuffer, Places
  <2> QED
    BY <2>1, <2>4, SameTaken DEF BeingStored, EventStep
<1>4. CASE AddTest
  <2>1. \A e : InBuffer(e)' <=> InBuffer(e)
    BY <1>4 DEF AddTest, InBuffer, Places
  <2> QED
    BY <1>4, <2>1, SameTaken DEF AddTest, BeingStored, EventStep
<1>5. CASE AddCheck
  <2>1. \A e : InBuffer(e)' <=> InBuffer(e)
    BY <1>5 DEF AddCheck, InBuffer, Places, bufVars
  <2> QED
    BY <1>5, <2>1, SameTaken DEF AddCheck, BeingStored, EventStep
<1> QED
  BY <1>1, <1>2, <1>3, <1>4, <1>5 DEF Add

LEMMA LogImplements ==
  ASSUME TypeInv, TypeInv', Ownership, EntryInv, NEW t \in threads, Log(t)
  PROVE  EventStep
<1> USE BufferAssumption
<1>0. /\ t \in Thread /\ t.i \in Nat /\ t.last \in Nat /\ t.buf \in Buf
      /\ position \in [Buf -> 0..N] /\ added \in Nat
      /\ content \in [Buf -> [0..(N - 1) -> 0..MaxEntries]]
      /\ file \in Seq(1..MaxEntries)
      /\ cur \in Buf /\ 1 - cur \in Buf /\ 1 - cur # cur /\ t.buf = 1 - cur
  BY Typed, OtherBuf, ThreadTyped, OnlyThread DEF AtWork
<1>t. TakenIs /\ TakenIs'
  BY TakenMeaning, TakenMeaningNext
<1>a. AtWork(t)
  BY OnlyThread
<1>b. \A b, k : Written(b, k) <=> b = t.buf /\ k < t.i
  BY WrittenBy
<1>c. ASSUME UNCHANGED <<pc, added, position, content, file>> PROVE EventStep
  <2>1. \A e : (InBuffer(e)' <=> InBuffer(e)) /\ (BeingStored(e)' <=> BeingStored(e))
    BY <1>c DEF InBuffer, BeingStored, Places
  <2> QED
    BY <1>c, <2>1, SameTaken DEF EventStep
<1>1. CASE LogStart(t) \/ LogOpen(t) \/ LogReady(t) \/ LogClose(t)
  BY <1>1, <1>c DEF LogStart, LogOpen, LogReady, LogClose, ownerVars, bufVars
<1>2. CASE LogWrite(t)
  <2>1. PICK e : e = content[t.buf][t.i]
    OBVIOUS
  <2>2. /\ t.i \in Places(t.buf) /\ file' = Append(file, e)
        /\ UNCHANGED <<pc, added, position, content>>
    BY <1>0, <1>2, <1>a, <2>1 DEF LogWrite, AtWork, Places, Below, ownerVars, bufVars
  <2>3. e \in 1..MaxEntries /\ e \notin ToSet(file) /\ InBuffer(e)
    <3>1. e \in 1..Newest /\ (e \in ToSet(file) <=> Written(t.buf, t.i))
      BY <1>0, <2>1, <2>2 DEF EntryInv, HeldOnce
    <3>2. content[t.buf] \in [0..(N - 1) -> 0..MaxEntries] /\ t.i \in 0..(N - 1)
      BY <1>0, <2>2 DEF Places, Below
    <3>3. e \in 0..MaxEntries
      BY <2>1, <3>2
    <3>4. InBuffer(e)
      BY <1>0, <2>1, <2>2 DEF InBuffer
    <3> QED
      BY <1>0, <1>b, <3>1, <3>3, <3>4
  <2>4. ToSet(file') = ToSet(file) \cup {e}
    <3>1. PICK S : S = 1..MaxEntries
      OBVIOUS
    <3>2. file \in Seq(S) /\ e \in S
      BY <1>0, <2>3, <3>1
    <3>3. file' = Append(file, e)
      BY <2>2
    <3> QED
      BY ONLY <3>2, <3>3, ToSetAppend
  <2>5. \A x : (InBuffer(x)' <=> InBuffer(x)) /\ (BeingStored(x)' <=> BeingStored(x))
    BY <2>2 DEF InBuffer, BeingStored, Places
  <2>6. e \in Taken /\ Taken' = Taken \ {e}
    <3>1. \A x : x \in Taken' <=> x \in Taken \ {e}
      BY <1>t, <2>4, <2>5 DEF TakenIs
    <3> QED
      BY <1>t, <2>3, <3>1 DEF TakenIs
  <2>7. <<e>> \in SetToSeqs({e}) /\ file' = file \o <<e>>
    <3> PICK s : s = <<e>>
        OBVIOUS
    <3>1. /\ s \in Seq({e}) /\ Len(s) = 1 /\ ToSet(s) = {e}
          /\ \A i, j \in 1..Len(s) : s[i] = s[j] => i = j
      BY DEF ToSet
    <3>2. s \in SetToSeqs(ToSet(s))
      BY ONLY <3>1, SetToSeqsHas
    <3>3. file' = file \o <<e>>
      BY <1>0, <2>2, <2>3
    <3> QED
      BY <3>1, <3>2, <3>3
  <2> QED
    BY <2>2, <2>6, <2>7, WriteStep
<1>3. CASE LogZero(t)
  <2>1. position' = [position EXCEPT ![1 - cur] = 0] /\ UNCHANGED <<pc, added, content, file>>
    BY <1>0, <1>3 DEF LogZero, ownerVars
  <2>2. Below(position'[1 - cur]) = {} /\ Below(position'[cur]) = Places(cur)
    BY <1>0, <2>1 DEF Places, Below
  <2>3. \A b \in Buf : b = cur \/ b = 1 - cur
    BY <1>0 DEF Buf
  <2>4. \A k \in Places(1 - cur) : k < t.i
    BY <1>0, <1>3, <1>a DEF LogZero, AtWork, Places, Below
  <2>5. \A k \in Places(1 - cur) : content[1 - cur][k] \in ToSet(file)
    BY <1>0, <1>b, <2>4 DEF EntryInv, HeldOnce
  <2>6. \A e : e \notin ToSet(file) => (InBuffer(e)' <=> InBuffer(e))
    <3>1. \A e : InBuffer(e)' <=> \E k \in Places(cur) : content[cur][k] = e
      BY <1>0, <2>1, <2>2, <2>3 DEF InBuffer, Places
    <3>2. \A e : InBuffer(e) <=> \/ \E k \in Places(cur) : content[cur][k] = e
                               \/ \E k \in Places(1 - cur) : content[1 - cur][k] = e
      BY <1>0, <2>3 DEF InBuffer
    <3> QED
      BY <2>5, <3>1, <3>2
  <2> QED
    BY <2>1, <2>6, SameTaken DEF BeingStored, EventStep
<1> QED
  BY <1>1, <1>2, <1>3 DEF Log

LEMMA DestroyImplements ==
  ASSUME TypeInv, TypeInv', Ownership, EntryInv, Destroy PROVE EventStep
<1> USE BufferAssumption
<1>0. /\ cur \in Buf /\ position \in [Buf -> 0..N] /\ file \in Seq(1..MaxEntries)
      /\ TakenIs /\ TakenIs'
      /\ pc = "idle" /\ pc' = "gone" /\ threads = {}
      /\ UNCHANGED <<added, position, content>>
  BY TakenMeaning, TakenMeaningNext DEF TypeInv, TypeOK, Destroy, bufVars
<1>1. \A e : (InBuffer(e)' <=> InBuffer(e)) /\ ~BeingStored(e) /\ ~BeingStored(e)'
  BY <1>0 DEF InBuffer, BeingStored, Places
<1>2. CASE file' = file
  BY <1>0, <1>1, <1>2, SameTaken DEF EventStep
<1>3. CASE file' = file \o Held(cur) /\ position[cur] = 0
  <2>1. Held(cur) = <<>>
    BY <1>0, <1>3, HeldIsSeq, EmptySeq
  <2>2. file' = file
    BY <1>0, <1>3, <2>1, ConcatEmptySeq
  <2> QED
    BY <1>2, <2>2
<1>4. CASE file' = file \o Held(cur) /\ position[cur] # 0
  <2>1. /\ Held(cur) \in Seq(1..MaxEntries) /\ Len(Held(cur)) = position[cur]
        /\ \A k \in 1..position[cur] : Held(cur)[k] = content[cur][k - 1]
    BY <1>0, HeldIsSeq
  <2>2. \A e : e \in ToSet(Held(cur)) <=> \E k \in Places(cur) : content[cur][k] = e
    BY <1>0, HeldElements
  <2> DEFINE S == ToSet(Held(cur))
  <2>3. S \subseteq Taken
    <3>1. \A k \in Places(cur) : content[cur][k] \notin ToSet(file)
      BY <1>0 DEF EntryInv, HeldOnce, Written
    <3> QED
      BY <1>0, <2>2, <3>1 DEF TakenIs, InBuffer
  <2>4. S # {}
    <3>1. 0 \in Places(cur)
      BY <1>0, <1>4 DEF Places, Below
    <3> QED
      BY <2>2, <3>1
  <2>5. Held(cur) \in SetToSeqs(S)
    <3>1. \A i, j \in 1..position[cur] : Held(cur)[i] = Held(cur)[j] => i = j
      <4> SUFFICES ASSUME NEW i \in 1..position[cur], NEW j \in 1..position[cur],
                          Held(cur)[i] = Held(cur)[j]
                   PROVE  i = j
          OBVIOUS
      <4>1. i - 1 \in Places(cur) /\ j - 1 \in Places(cur)
        BY <1>0 DEF Places, Below
      <4>2. content[cur][i - 1] = content[cur][j - 1]
        BY <2>1
      <4>3. i - 1 = j - 1
        BY <1>0, <4>1, <4>2 DEF EntryInv, HeldOnce
      <4> QED
        BY <1>0, <4>3
    <3> QED
      BY <2>1, <3>1, SetToSeqsHas
  <2>6. ToSet(file') = ToSet(file) \cup S
    BY <1>0, <1>4, <2>1, ToSetConcat
  <2>7. Taken' = Taken \ S
    <3>1. \A e : e \in Taken' <=> e \in Taken \ S
      BY <1>0, <1>1, <2>6 DEF TakenIs
    <3> QED
      BY <3>1
  <2> QED
    BY <1>0, <1>4, <2>3, <2>4, <2>5, <2>7, WriteStep
<1> QED
  BY <1>2, <1>3, <1>4 DEF Destroy

\* While the file keeps up, and although it may fail to open now and then, the
\* double buffer does what EventLog promises.
THEOREM BufferImplementsLog == ASSUME Timely PROVE Spec => ImplementsEventLog
<1>1. Init => TypeInv /\ Ownership /\ Entries /\ Promise!Init
  <2> SUFFICES ASSUME Init PROVE Promise!Init
      BY InitTypeInv, InitOwnership, InitEntries
  <2>1. \A e : e \notin Taken
    BY InitTypeInv, TakenMeaning DEF Init, TakenIs, InBuffer, BeingStored, Places, Below
  <2> QED
    BY <2>1 DEF Init, Promise!Init
<1>2. (TypeInv /\ Ownership /\ Entries) /\ [Next]_vars
         => (TypeInv /\ Ownership /\ Entries)' /\ EventStep
  <2> SUFFICES ASSUME TypeInv, Ownership, Entries, [Next]_vars
               PROVE  (TypeInv /\ Ownership /\ Entries)' /\ EventStep
      OBVIOUS
  <2>1. TypeInv' /\ Ownership' /\ Entries'
    BY NextTypeInv, NextOwnership, NextEntries
  <2>2. CASE Add
    BY <2>1, <2>2, AddImplements DEF Entries, Add, AddBegin, AddStore, AddIncr, AddTest, AddCheck
  <2>3. ASSUME NEW t \in threads, Log(t) PROVE EventStep
    BY <2>1, <2>3, LogImplements DEF Entries, Ownership, HandOver
  <2>4. CASE Destroy
    BY <2>1, <2>4, DestroyImplements DEF Entries, Destroy
  <2>5. CASE UNCHANGED vars
    <3>1. \A e : (InBuffer(e)' <=> InBuffer(e)) /\ (BeingStored(e)' <=> BeingStored(e))
      BY <2>5 DEF vars, InBuffer, BeingStored, Places
    <3> QED
      BY <2>1, <2>5, <3>1, SameTaken DEF vars, EventStep
  <2> QED
    BY <2>1, <2>2, <2>3, <2>4, <2>5 DEF Next
<1> QED
  BY <1>1, <1>2, PTL DEF Spec, ImplementsEventLog, Promise!Spec, EventStep

-----------------------------------------------------------------------------
(* While no call of open fails.                                            *)

\* The current buffer goes on from the entry n.
CurrentFrom(n) ==
  /\ Newest = n + position[cur]
  /\ \A k \in Places(cur) : content[cur][k] = n + k + 1

\* What a thread has still to write comes between the file and that.
InOrder ==
  \/ threads = {} /\ position[1 - cur] = 0 /\ CurrentFrom(Len(file))
  \/ \E t \in threads :
       /\ CurrentFrom(Len(file) + (N - t.i))
       /\ \A k \in t.i..(N - 1) : content[t.buf][k] = (Len(file) + 1) + (k - t.i)

Numbered == \A k \in 1..Len(file) : file[k] = k

OrderInv ==
  /\ Numbered
  /\ pc \in {"idle", "gone"} => ready[cur]
  /\ pc # "gone" => JustStored /\ InOrder
  /\ pc = "gone" => Len(file) = added

LEMMA InitOrder == Init => OrderInv
BY BufferAssumption
   DEF Init, OrderInv, Numbered, JustStored, InOrder, CurrentFrom, Newest, Places, Below, Buf

\* The order depends on the threads, the current buffer and the length of the file.
LEMMA OrderKept ==
  ASSUME InOrder, UNCHANGED <<cur, threads, file>>, Newest' = Newest,
         position'[1 - cur] = position[1 - cur], position'[cur] = position[cur],
         \A b \in Buf : \A k \in Places(b) : content'[b][k] = content[b][k],
         cur \in Buf,
         \A t \in threads : \A k \in t.i..(N - 1) : content'[t.buf][k] = content[t.buf][k]
  PROVE  InOrder'
<1>1. \A n : CurrentFrom(n)' <=> CurrentFrom(n)
  BY DEF CurrentFrom, Places
<1> QED
  BY <1>1 DEF InOrder

LEMMA AddOrder ==
  ASSUME TypeInv, Ownership, OrderInv, Add PROVE OrderInv'
<1> USE BufferAssumption
<1>0. /\ cur \in Buf /\ added \in Nat /\ position \in [Buf -> 0..N]
      /\ content \in [Buf -> [0..(N - 1) -> 0..MaxEntries]]
      /\ ready \in [Buf -> BOOLEAN]
      /\ 1 - cur \in Buf /\ 1 - cur # cur /\ Len(file) \in Nat
  BY Typed, OtherBuf
<1>a. \A t \in threads : t.i \in Nat /\ t.buf = 1 - cur
  BY ThreadTyped, OnlyThread DEF AtWork
<1>b. pc # "gone" /\ pc' # "gone" /\ Numbered' /\ InOrder /\ JustStored
  BY DEF OrderInv, Numbered, Add, AddBegin, AddStore, AddIncr, AddTest, AddCheck
<1>1. CASE AddBegin
  <2>1. pc' = "store" /\ Newest' = Newest
    BY <1>0, <1>1 DEF AddBegin, OrderInv, Newest
  <2>2. InOrder'
    BY <1>0, <1>1, <1>b, <2>1, OrderKept DEF AddBegin, bufVars
  <2> QED
    BY <1>b, <2>1, <2>2 DEF OrderInv, JustStored
<1>2. CASE AddStore
  <2>1. pc' = "incr" /\ Newest' = Newest /\ UNCHANGED <<cur, added, position, threads, file>>
        /\ position[cur] < N
        /\ content' = [content EXCEPT ![cur][position[cur]] = added]
    BY <1>2 DEF AddStore, Ownership, OwnerInv, Newest
  <2>2. position[cur] \in 0..(N - 1) /\ position[cur] \notin Places(cur)
    BY <1>0, <2>1 DEF Places, Below
  <2>3. content'[cur][position[cur]] = added
    BY <1>0, <2>1, <2>2
  <2>4. \A b \in Buf : \A k \in Places(b) : content'[b][k] = content[b][k]
    BY <1>0, <2>1, <2>2
  <2>5. content'[1 - cur] = content[1 - cur]
    BY <1>0, <2>1
  <2>6. InOrder'
    BY <1>0, <1>a, <1>b, <2>1, <2>4, <2>5, OrderKept
  <2> QED
    BY <1>b, <2>1, <2>3, <2>6 DEF OrderInv, JustStored
<1>3. CASE AddIncr
  <2>1. /\ pc = "incr" /\ pc' = "test" /\ Newest' = Newest + 1
        /\ UNCHANGED <<cur, content, threads, file>>
        /\ content[cur][position[cur]] = Newest + 1
    BY <1>0, <1>3, <1>b DEF AddIncr, Newest, JustStored
  <2>2. position[cur] \in Nat /\ position' = [position EXCEPT ![cur] = @ + 1]
    BY <1>0, <1>3 DEF AddIncr
  <2>3. position'[cur] = position[cur] + 1 /\ position'[1 - cur] = position[1 - cur]
    BY <1>0, <2>2
  <2>4. ASSUME NEW n \in Nat, CurrentFrom(n) PROVE CurrentFrom(n)'
    <3>1. Newest = n + position[cur] /\ \A k \in Places(cur) : content[cur][k] = n + k + 1
      BY <2>4 DEF CurrentFrom
    <3>2. Newest' = n + position'[cur]
      BY <2>1, <2>2, <2>3, <3>1
    <3>3. \A k \in Below(position'[cur]) : k \in Places(cur) \/ k = position[cur]
      BY <2>2, <2>3 DEF Places, Below
    <3>4. content[cur][position[cur]] = n + position[cur] + 1
      BY <2>1, <3>1
    <3>5. \A k \in Below(position'[cur]) : content[cur][k] = n + k + 1
      BY <3>1, <3>3, <3>4
    <3> QED
      BY <2>1, <3>2, <3>5 DEF CurrentFrom, Places
  <2>5. ASSUME threads = {}, position[1 - cur] = 0, CurrentFrom(Len(file)) PROVE InOrder'
    <3>1. CurrentFrom(Len(file))'
      BY <1>0, <2>1, <2>4, <2>5
    <3> QED
      BY <2>1, <2>3, <2>5, <3>1 DEF InOrder
  <2>6. ASSUME NEW t \in threads, CurrentFrom(Len(file) + (N - t.i)),
               \A k \in t.i..(N - 1) : content[t.buf][k] = (Len(file) + 1) + (k - t.i)
        PROVE  InOrder'
    <3>1. t.i <= N /\ t.i \in Nat
      BY ThreadTyped DEF PlaceIn
    <3>2. Len(file) + (N - t.i) \in Nat
      BY <1>0, <3>1
    <3>3. CurrentFrom(Len(file) + (N - t.i))'
      BY <2>1, <2>4, <2>6, <3>2
    <3> QED
      BY <2>1, <2>6, <3>3 DEF InOrder
  <2>7. InOrder'
    BY <1>b, <2>5, <2>6 DEF InOrder
  <2> QED
    BY <1>b, <2>1, <2>7 DEF OrderInv, JustStored
<1>4. CASE AddTest
  <2>1. pc' = "check" /\ Newest' = Newest /\ UNCHANGED <<cur, position, content, threads, file>>
    BY <1>4 DEF AddTest, Newest
  <2>2. InOrder'
    BY <1>0, <1>b, <2>1, OrderKept
  <2> QED
    BY <1>b, <2>1, <2>2 DEF OrderInv, JustStored
<1>5. CASE AddCheck /\ ready[cur]
  <2>1. /\ pc' = "idle" /\ Newest' = Newest
        /\ UNCHANGED <<cur, ready, position, content, threads, file>>
    BY <1>5 DEF AddCheck, Newest, bufVars
  <2>2. InOrder'
    BY <1>0, <1>b, <2>1, OrderKept
  <2> QED
    BY <1>5, <1>b, <2>1, <2>2 DEF OrderInv, JustStored
<1>6. CASE AddCheck /\ ~ready[cur]
  <2>1. threads = {} /\ AtRest /\ position[cur] = N
    BY <1>6 DEF AddCheck, Ownership, OwnerInv, HandOver, OtherInv, Full
  <2>2. PICK t : t = [buf |-> cur, pc |-> "start", last |-> 0, i |-> 0]
    OBVIOUS
  <2>3. /\ threads' = {t} /\ cur' = 1 - cur /\ pc' = "idle" /\ Newest' = added /\ Newest = added
        /\ UNCHANGED <<ready, position, content, file>>
    BY <1>6, <2>1, <2>2 DEF AddCheck, Newest, bufVars
  <2>4. position[1 - cur] = 0 /\ CurrentFrom(Len(file))
    BY <1>b, <2>1 DEF InOrder
  <2>5. added = Len(file) + N /\ \A k \in 0..(N - 1) : content[cur][k] = Len(file) + k + 1
    BY <2>1, <2>3, <2>4 DEF CurrentFrom, Places, Below
  <2>6. CurrentFrom(Len(file) + (N - t.i))'
    <3>1. Newest' = (Len(file) + (N - t.i)) + position'[cur']
      BY <1>0, <2>2, <2>3, <2>4, <2>5
    <3>2. Below(position'[cur']) = {}
      BY <2>3, <2>4 DEF Below
    <3> QED
      BY <2>3, <3>1, <3>2 DEF CurrentFrom, Places
  <2>7. \A k \in t.i..(N - 1) : content'[t.buf][k] = (Len(file') + 1) + (k - t.i)
    BY <1>0, <2>2, <2>3, <2>5
  <2>8. InOrder'
    BY <2>3, <2>6, <2>7 DEF InOrder
  <2>9. ready'[cur']
    BY <2>1, <2>3, <2>4 DEF AtRest, Full
  <2> QED
    BY <1>b, <2>3, <2>8, <2>9 DEF OrderInv, JustStored
<1> QED
  BY <1>1, <1>2, <1>3, <1>4, <1>5, <1>6 DEF Add

\* One entry more in the file is one less to write.
LEMMA OneFurther ==
  ASSUME NEW n \in Nat, NEW i \in Nat, NEW m, NEW j, m = n + 1, j = i + 1
  PROVE  /\ m + (N - j) = n + (N - i)
         /\ \A k \in i..(N - 1) : (m + 1) + (k - j) = (n + 1) + (k - i)
BY BufferAssumption

LEMMA LogOrder ==
  ASSUME TypeInv, Ownership, OrderInv, NEW t \in threads, Log(t), stream' # "failed"
  PROVE  OrderInv'
<1> USE BufferAssumption
<1>0. /\ cur \in Buf /\ position \in [Buf -> 0..N] /\ ready \in [Buf -> BOOLEAN]
      /\ content \in [Buf -> [0..(N - 1) -> 0..MaxEntries]]
      /\ file \in Seq(1..MaxEntries)
      /\ 1 - cur \in Buf /\ 1 - cur # cur /\ Len(file) \in Nat
  BY Typed, OtherBuf
<1>a. /\ t \in Thread /\ t.i \in Nat /\ t.i <= N /\ t.last \in Nat /\ t.buf = 1 - cur
      /\ AtWork(t) /\ threads = {t}
  BY ThreadTyped, OnlyThread DEF AtWork, PlaceIn
<1>b. pc # "gone" /\ UNCHANGED <<pc, cur, added, content>>
  BY DEF Ownership, HandOver, Log, LogStart, LogOpen, LogWrite, LogReady, LogZero, LogClose,
         ownerVars, bufVars
<1>c. /\ CurrentFrom(Len(file) + (N - t.i)) /\ JustStored
      /\ \A k \in t.i..(N - 1) : content[t.buf][k] = (Len(file) + 1) + (k - t.i)
  BY <1>a, <1>b DEF OrderInv, InOrder
<1>d. position'[cur] = position[cur] /\ ready'[cur] = ready[cur]
  BY <1>0, <1>a DEF Log, LogStart, LogOpen, LogWrite, LogReady, LogZero, LogClose, bufVars
<1>e. \A n : CurrentFrom(n) => CurrentFrom(n)'
  BY <1>b, <1>d DEF CurrentFrom, Places, Newest
<1>f. JustStored' /\ (pc' \in {"idle", "gone"} => ready'[cur'])
  BY <1>b, <1>c, <1>d DEF OrderInv, JustStored
\* A step that writes nothing keeps i, or ends the thread when all is written.
<1>g. ASSUME NEW u, Move(t, u), u.i = t.i, u.buf = t.buf, UNCHANGED file PROVE OrderInv'
  <2>1. threads' = {u}
    BY <1>g, OnlyThread
  <2>2. CurrentFrom(Len(file) + (N - u.i))'
    BY <1>c, <1>e, <1>g
  <2>3. InOrder'
    BY <1>b, <1>c, <1>g, <2>1, <2>2 DEF InOrder
  <2> QED
    BY <1>b, <1>f, <1>g, <2>3 DEF OrderInv, Numbered
<1>1. CASE LogStart(t)
  <2>1. PICK u : u = [t EXCEPT !.pc = "open", !.last = position[t.buf]]
    OBVIOUS
  <2>2. u.buf = t.buf /\ u.i = t.i
    <3>1. position[t.buf] \in Nat
      BY <1>0, <1>a
    <3> QED
      BY <1>a, <2>1, <3>1, ThreadOpening
  <2>3. Move(t, u) /\ UNCHANGED file
    BY <1>1, <1>a, <2>1 DEF LogStart, AtWork
  <2> QED
    BY <1>g, <2>2, <2>3
<1>2. CASE LogOpen(t)
  <2>1. PICK u : u = [t EXCEPT !.pc = "write"]
    OBVIOUS
  <2>2. u.buf = t.buf /\ u.i = t.i
    BY <1>a, <2>1, ThreadAt
  <2>3. Move(t, u) /\ UNCHANGED file
    BY <1>2, <2>1 DEF LogOpen
  <2> QED
    BY <1>g, <2>2, <2>3
<1>3. CASE LogWrite(t)
  <2>1. PICK q \in {"write", "ready"} : q = IF t.i + 1 = t.last THEN "ready" ELSE "write"
    OBVIOUS
  <2>2. PICK u : u = [t EXCEPT !.i = @ + 1, !.pc = q]
    OBVIOUS
  <2>3. u.buf = t.buf /\ u.i = t.i + 1
    BY <1>a, <2>2, ThreadWriting
  <2>4. Move(t, u) /\ t.i < N /\ file' = Append(file, content[t.buf][t.i])
    BY <1>3, <1>a, <2>1, <2>2 DEF LogWrite, AtWork
  <2>5. threads' = {u}
    BY <2>4, OnlyThread
  <2>6. content[t.buf][t.i] = Len(file) + 1
    <3>1. t.i \in t.i..(N - 1) /\ (Len(file) + 1) + (t.i - t.i) = Len(file) + 1
      BY <1>0, <1>a, <2>4
    <3> QED
      BY <1>c, <3>1
  <2>7. /\ Len(file') = Len(file) + 1 /\ file'[Len(file) + 1] = Len(file) + 1
        /\ \A k \in 1..Len(file) : file'[k] = file[k]
    <3>1. file' = Append(file, Len(file) + 1)
      BY <2>4, <2>6
    <3> QED
      BY <1>0, <3>1
  <2>0. /\ Len(file') + (N - u.i) = Len(file) + (N - t.i)
        /\ \A k \in t.i..(N - 1) : (Len(file') + 1) + (k - u.i) = (Len(file) + 1) + (k - t.i)
    <3>1. Len(file) \in Nat /\ t.i \in Nat /\ Len(file') = Len(file) + 1 /\ u.i = t.i + 1
      BY <1>0, <1>a, <2>3, <2>7
    <3>2. PICK n \in Nat, i \in Nat, m \in Nat, j \in Nat :
            n = Len(file) /\ i = t.i /\ m = Len(file') /\ j = u.i
      BY ONLY <3>1
    <3>3. m = n + 1 /\ j = i + 1
      BY ONLY <3>1, <3>2
    <3>4. /\ m + (N - j) = n + (N - i)
          /\ \A k \in i..(N - 1) : (m + 1) + (k - j) = (n + 1) + (k - i)
      BY ONLY <3>3, OneFurther, n \in Nat, i \in Nat
    <3> QED
      BY ONLY <3>2, <3>4
  <2>8. Numbered'
    <3>1. \A k \in 1..Len(file') : k \in 1..Len(file) \/ k = Len(file) + 1
      BY <1>0, <2>7
    <3> QED
      BY <2>7, <3>1 DEF OrderInv, Numbered
  <2>9. CurrentFrom(Len(file) + (N - u.i))'
    BY <1>c, <1>e, <2>0
  <2>10. \A k \in u.i..(N - 1) : content'[u.buf][k] = (Len(file') + 1) + (k - u.i)
    <3> SUFFICES ASSUME NEW k \in u.i..(N - 1)
                 PROVE  content'[u.buf][k] = (Len(file') + 1) + (k - u.i)
        OBVIOUS
    <3>1. k \in t.i..(N - 1)
      BY <1>a, <2>3
    <3>2. (Len(file') + 1) + (k - u.i) = (Len(file) + 1) + (k - t.i)
      BY <2>0, <3>1
    <3> QED
      BY <1>b, <1>c, <2>3, <3>1, <3>2
  <2>11. InOrder'
    BY <2>5, <2>9, <2>10 DEF InOrder
  <2> QED
    BY <1>b, <1>f, <2>8, <2>11 DEF OrderInv
<1>4. CASE LogReady(t)
  <2>1. PICK u : u = [t EXCEPT !.pc = "zero"]
    OBVIOUS
  <2>2. u.buf = t.buf /\ u.i = t.i
    BY <1>a, <2>1, ThreadAt
  <2>3. Move(t, u) /\ UNCHANGED file
    BY <1>4, <2>1 DEF LogReady
  <2> QED
    BY <1>g, <2>2, <2>3
<1>5. CASE LogZero(t)
  <2>1. PICK u : u = [t EXCEPT !.pc = "close"]
    OBVIOUS
  <2>2. u.buf = t.buf /\ u.i = t.i
    BY <1>a, <2>1, ThreadAt
  <2>3. Move(t, u) /\ UNCHANGED file
    BY <1>5, <2>1 DEF LogZero
  <2> QED
    BY <1>g, <2>2, <2>3
<1>6. CASE LogClose(t)
  <2>1. t.i = N /\ position[1 - cur] = 0 /\ UNCHANGED <<position, file>> /\ threads' = {}
    BY <1>6, <1>a, OnlyThread DEF LogClose, AtWork, bufVars
  <2>2. CurrentFrom(Len(file))'
    <3>1. Len(file) + (N - t.i) = Len(file)
      BY <1>0, <2>1
    <3> QED
      BY <1>c, <1>e, <2>1, <3>1
  <2>3. InOrder'
    BY <1>b, <2>1, <2>2 DEF InOrder
  <2> QED
    BY <1>b, <1>f, <2>1, <2>3 DEF OrderInv, Numbered
<1> QED
  BY <1>1, <1>2, <1>3, <1>4, <1>5, <1>6 DEF Log

LEMMA DestroyOrder ==
  ASSUME TypeInv, OrderInv, Destroy, stream' # "failed" PROVE OrderInv'
<1> USE BufferAssumption
<1>0. /\ cur \in Buf /\ position[cur] \in Nat /\ file \in Seq(1..MaxEntries) /\ Len(file) \in Nat
  BY Typed DEF TypeInv, TypeOK
<1>1. /\ pc = "idle" /\ pc' = "gone" /\ threads = {} /\ file' = file \o Held(cur)
      /\ UNCHANGED <<cur, added, ready>>
  BY DEF Destroy, bufVars
<1>2. CurrentFrom(Len(file)) /\ Newest = added
  BY <1>1 DEF OrderInv, InOrder, Newest
<1>3. /\ Held(cur) \in Seq(1..MaxEntries) /\ Len(Held(cur)) = position[cur]
      /\ \A k \in 1..position[cur] : Held(cur)[k] = content[cur][k - 1]
  BY <1>0, HeldIsSeq
<1>4. /\ Len(file') = Len(file) + position[cur]
      /\ \A i \in 1..(Len(file) + position[cur]) :
           file'[i] = IF i <= Len(file) THEN file[i] ELSE Held(cur)[i - Len(file)]
  BY <1>0, <1>1, <1>3, ConcatProperties
<1>5. \A k \in 1..position[cur] : Held(cur)[k] = Len(file) + k
  <2> SUFFICES ASSUME NEW k \in 1..position[cur] PROVE Held(cur)[k] = Len(file) + k
      OBVIOUS
  <2>1. k - 1 \in Places(cur)
    BY <1>0 DEF Places, Below
  <2>2. content[cur][k - 1] = Len(file) + (k - 1) + 1
    BY <1>2, <2>1 DEF CurrentFrom
  <2> QED
    BY <1>0, <1>3, <2>2
<1>6. Numbered'
  <2> SUFFICES ASSUME NEW i \in 1..Len(file') PROVE file'[i] = i
      BY DEF Numbered
  <2>1. CASE i <= Len(file)
    <3>1. i \in 1..Len(file) /\ file'[i] = file[i]
      BY <1>0, <1>4, <2>1
    <3> QED
      BY <3>1 DEF OrderInv, Numbered
  <2>2. CASE ~(i <= Len(file))
    <3>1. i - Len(file) \in 1..position[cur] /\ file'[i] = Held(cur)[i - Len(file)]
      BY <1>0, <1>4, <2>2
    <3> QED
      BY <1>0, <1>5, <3>1
  <2> QED
    BY <2>1, <2>2
<1>7. Len(file') = added'
  BY <1>1, <1>2, <1>4 DEF CurrentFrom
<1> QED
  BY <1>1, <1>6, <1>7 DEF OrderInv

LEMMA NextOrder ==
  ASSUME TypeInv, Ownership, OrderInv, [Next]_vars, stream' # "failed" PROVE OrderInv'
<1>1. CASE UNCHANGED vars
  BY <1>1 DEF vars, OrderInv, Numbered, JustStored, InOrder, CurrentFrom, Newest, Places
<1> QED
  BY <1>1, AddOrder, LogOrder, DestroyOrder DEF Next

\* While the file keeps up and no call of open fails, the log is what was
\* added, in order, without gaps or repetition, and all of it at the end.
THEOREM LogKeepsTheOrder == ASSUME Timely PROVE Spec => LogIsFaithful
<1>1. Init => TypeInv /\ Ownership /\ OrderInv
  BY InitTypeInv, InitOwnership, InitOrder
<1>2. (TypeInv /\ Ownership /\ OrderInv) /\ [Next]_vars /\ (stream # "failed")'
         => (TypeInv /\ Ownership /\ OrderInv)'
  BY NextTypeInv, NextOwnership, NextOrder
<1>3. TypeInv /\ OrderInv => /\ file = [k \in 1..Len(file) |-> k]
                             /\ pc = "gone" => Len(file) = added
  <2> SUFFICES ASSUME TypeInv, OrderInv PROVE file = [k \in 1..Len(file) |-> k]
      BY DEF OrderInv
  <2>1. file \in Seq(1..MaxEntries)
    BY Typed
  <2>2. file = [k \in 1..Len(file) |-> file[k]]
    BY <2>1
  <2> QED
    BY <2>2 DEF OrderInv, Numbered
<1> QED
  BY <1>1, <1>2, <1>3, PTL DEF Spec, LogIsFaithful
=============================================================================
