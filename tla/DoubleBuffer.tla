----------------------------- MODULE DoubleBuffer -----------------------------
(***************************************************************************)
(* The logger's double buffer (Double_buffer, Logger_buffer): one thread   *)
(* adds log entries to the current buffer; when it is full, a detached     *)
(* thread writes it to the file while the owner goes on with the other     *)
(* one.  Nothing but two atomics per buffer keeps the threads apart.       *)
(*                                                                         *)
(* Entries are numbered in the order in which they are added.  A store     *)
(* outside the buffer is undefined behaviour: the owner stops there        *)
(* ("overrun"), and no property is about what comes after.  The ofstream is *)
(* not made for two threads either; its calls are taken as atomic here,    *)
(* which matters only without Timely.                                      *)
(***************************************************************************)
EXTENDS Naturals, Sequences, SequencesExt

CONSTANTS
  N,           \* entries in one buffer (size)
  MaxEntries,  \* entries that are added (a bound)
  Timely,      \* the file keeps up: a buffer is full only when the thread that
               \* writes the other one has ended
  OpenMayFail  \* the log file may not be opened, once in a while

ASSUME BufferAssumption ==
  /\ N \in Nat \ {0} /\ MaxEntries \in Nat
  /\ Timely \in BOOLEAN /\ OpenMayFail \in BOOLEAN

VARIABLES
  pc,        \* owner: "idle", "store", "incr", "test", "check", "gone", "overrun"
  cur,       \* current_buffer
  added,     \* entries given to add so far
  dropped,   \* those of them that were refused
  ready,     \* ready_ of each buffer
  position,  \* position_ of each buffer
  content,   \* buffer_ of each buffer, 0 in places never written
  threads,   \* the log_buffer threads: a set of records
  stream,    \* output_file_: "closed", "open", or "failed" (failbit is set)
  file       \* the entries in the log file

vars == <<pc, cur, added, dropped, ready, position, content, threads, stream, file>>
ownerVars == <<pc, cur, added, dropped>>
bufVars   == <<ready, position, content>>

Buf == {0, 1}

\* A thread of log_buffer: last is last_position, i the loop's counter.
Thread == [buf : Buf, pc : {"start", "open", "write", "ready", "zero", "close"},
           last : Nat, i : Nat]

TypeOK ==
  /\ pc \in {"idle", "store", "incr", "test", "check", "gone", "overrun"}
  /\ cur \in Buf
  /\ added \in 0..MaxEntries /\ dropped \subseteq 1..MaxEntries
  /\ ready \in [Buf -> BOOLEAN] /\ position \in [Buf -> 0..N]
  /\ content \in [Buf -> [0..(N - 1) -> 0..MaxEntries]]
  /\ threads \subseteq Thread
  /\ stream \in {"closed", "open", "failed"}
  /\ file \in Seq(1..MaxEntries)

Init ==
  /\ pc = "idle" /\ cur = 0 /\ added = 0 /\ dropped = {}
  /\ ready = [b \in Buf |-> TRUE] /\ position = [b \in Buf |-> 0]
  /\ content = [b \in Buf |-> [k \in 0..(N - 1) |-> 0]]
  /\ threads = {} /\ stream = "closed" /\ file = <<>>

-----------------------------------------------------------------------------
(* The owner: add.                                                         *)

\* The assumption that Timely stands for: what fills the current buffer, or
\* finds it full, comes when no log_buffer thread is running.
InTime == Timely /\ (~ready[cur] \/ position[cur] = N - 1) => threads = {}

AddBegin ==
  /\ pc = "idle" /\ added < MaxEntries /\ InTime
  /\ added' = added + 1
  /\ IF ready[cur]
     THEN pc' = "store" /\ UNCHANGED dropped
     ELSE pc' = "check" /\ dropped' = dropped \cup {added'}
  /\ UNCHANGED <<cur, bufVars, threads, stream, file>>

AddStore ==
  /\ pc = "store"
  /\ IF position[cur] < N
     THEN /\ content' = [content EXCEPT ![cur][position[cur]] = added]
          /\ pc' = "incr"
     ELSE pc' = "overrun" /\ UNCHANGED content
  /\ UNCHANGED <<cur, added, dropped, ready, position, threads, stream, file>>

\* Mutant of AddIncr: position_ is incremented twice.
AddIncrTwice ==
  /\ pc = "incr" /\ pc' = "test"
  /\ position' = [position EXCEPT ![cur] = IF @ + 2 > N THEN N ELSE @ + 2]
  /\ UNCHANGED <<cur, added, dropped, ready, content, threads, stream, file>>

AddIncr ==
  /\ pc = "incr" /\ pc' = "test"
  /\ position' = [position EXCEPT ![cur] = @ + 1]
  /\ UNCHANGED <<cur, added, dropped, ready, content, threads, stream, file>>

AddTest ==
  /\ pc = "test" /\ pc' = "check"
  /\ ready' = [ready EXCEPT ![cur] = @ /\ position[cur] < N]
  /\ UNCHANGED <<cur, added, dropped, position, content, threads, stream, file>>

\* A buffer that is full (or was not ready) is handed to a thread.
AddCheck ==
  /\ pc = "check" /\ pc' = "idle"
  /\ IF ready[cur]
     THEN UNCHANGED <<threads, cur>>
     ELSE /\ threads' = threads \cup {[buf |-> cur, pc |-> "start", last |-> 0, i |-> 0]}
          /\ cur' = 1 - cur
  /\ UNCHANGED <<added, dropped, bufVars, stream, file>>

-----------------------------------------------------------------------------
(* log_buffer, in a thread.                                                *)

Move(t, u) == threads' = (threads \ {t}) \cup {u}
Ends(t)    == threads' = threads \ {t}

LogStart(t) ==
  /\ t.pc = "start"
  /\ IF position[t.buf] = 0
     THEN Ends(t)
     ELSE Move(t, [t EXCEPT !.pc = "open", !.last = position[t.buf]])
  /\ UNCHANGED <<ownerVars, bufVars, stream, file>>

\* open fails when the stream is open already: "data will be lost".
LogOpen(t) ==
  /\ t.pc = "open"
  /\ \/ /\ stream # "open" /\ stream' = "open"
        /\ Move(t, [t EXCEPT !.pc = "write"])
     \/ /\ stream = "open" \/ OpenMayFail
        /\ stream' = "failed" /\ Ends(t)
  /\ UNCHANGED <<ownerVars, bufVars, file>>

\* Mutant of LogWrite: the loop starts at the second entry.
LogWriteSkipsFirst(t) ==
  /\ t.pc = "write"
  /\ file' = IF stream = "open" /\ t.i # 0 THEN Append(file, content[t.buf][t.i]) ELSE file
  /\ Move(t, [t EXCEPT !.i = @ + 1, !.pc = IF t.i + 1 = t.last THEN "ready" ELSE "write"])
  /\ UNCHANGED <<ownerVars, bufVars, stream>>

\* The loop, an entry at a time; nothing is written on a stream that failed.
LogWrite(t) ==
  /\ t.pc = "write"
  /\ file' = IF stream = "open" THEN Append(file, content[t.buf][t.i]) ELSE file
  /\ Move(t, [t EXCEPT !.i = @ + 1, !.pc = IF t.i + 1 = t.last THEN "ready" ELSE "write"])
  /\ UNCHANGED <<ownerVars, bufVars, stream>>

\* Mutant of LogReady: the buffer stays not ready.
LogReadyNever(t) ==
  /\ t.pc = "ready"
  /\ Move(t, [t EXCEPT !.pc = "zero"])
  /\ UNCHANGED <<ownerVars, bufVars, stream, file>>

\* make_ready_to_fill, two stores: the buffer is ready before it is empty.
LogReady(t) ==
  /\ t.pc = "ready"
  /\ ready' = [ready EXCEPT ![t.buf] = TRUE]
  /\ Move(t, [t EXCEPT !.pc = "zero"])
  /\ UNCHANGED <<ownerVars, position, content, stream, file>>

LogZero(t) ==
  /\ t.pc = "zero"
  /\ position' = [position EXCEPT ![t.buf] = 0]
  /\ Move(t, [t EXCEPT !.pc = "close"])
  /\ UNCHANGED <<ownerVars, ready, content, stream, file>>

LogClose(t) ==
  /\ t.pc = "close"
  /\ stream' = IF stream = "open" THEN "closed" ELSE "failed"
  /\ Ends(t)
  /\ UNCHANGED <<ownerVars, bufVars, file>>

Log(t) == \/ LogStart(t) \/ LogOpen(t) \/ LogWrite(t)
          \/ LogReady(t) \/ LogZero(t) \/ LogClose(t)

-----------------------------------------------------------------------------
\* The entries of a buffer that are in it and not in the file.
Held(b) == [k \in 1..position[b] |-> content[b][k - 1]]

\* The destructor writes the current buffer, in the owner's thread.  (It does
\* not wait for the threads: Destroy is only modelled when there is none, for
\* a thread that is left uses an object that is gone.)
Destroy ==
  /\ pc = "idle" /\ threads = {}
  /\ pc' = "gone"
  /\ \/ stream # "open" /\ file' = file \o Held(cur) /\ stream' = "closed"
     \/ OpenMayFail /\ position[cur] # 0 /\ file' = file /\ stream' = "failed"
  /\ UNCHANGED <<cur, added, dropped, bufVars, threads>>

Add == AddBegin \/ AddStore \/ AddIncr \/ AddTest \/ AddCheck

Next == Add \/ (\E t \in threads : Log(t)) \/ Destroy

\* The threads and a call of add that has begun go on.
Fairness == WF_vars(\E t \in threads : Log(t)) /\ WF_vars(Add /\ ~AddBegin)

Spec == Init /\ [][Next]_vars /\ Fairness

-----------------------------------------------------------------------------
(* Properties.                                                             *)

\* While no call of open fails, and the file keeps up, the log is what was
\* added, in order, without gaps and without repetition, however the writing
\* thread and the owner interleave: at any time the first entries, and all at
\* the destruction.
LogIsFaithful ==
  [](stream # "failed") =>
    [](/\ file = [k \in 1..Len(file) |-> k]
       /\ pc = "gone" => Len(file) = added)

\* Entries that add has taken and that are not in the file.
Taken ==
  (ToSet(Held(0)) \cup ToSet(Held(1))
     \cup (IF pc \in {"store", "incr"} THEN {added} ELSE {})) \ ToSet(file)

Promise == INSTANCE EventLog WITH given <- added, pending <- Taken, log <- file

\* Even when the file cannot be opened now and then (a buffer is then written
\* later, after newer entries), an entry is refused at once or stays in a
\* buffer until it is written, and no entry is written twice.
ImplementsEventLog == Promise!Spec

\* While no call of open fails, a full buffer is written and taken into use
\* again.
FullIsWritten == [](stream # "failed") => \A b \in Buf : ~ready[b] ~> ready[b]

\* "If the buffer is ready to fill. (if it still has some space)": an entry is
\* stored where there is space.
NoOverrun == pc # "overrun"
=============================================================================
