------------------------------ MODULE FileStore ------------------------------
(***************************************************************************)
(* The file-backed document store (FileMCPClient, store/cases.py): one     *)
(* collection file, read and rewritten as a whole in a worker thread, under *)
(* an asyncio lock inside each process and an advisory flock between them. *)
(*                                                                         *)
(* A worker is one caller with its thread.  Cancelling the caller releases *)
(* the asyncio lock while the thread goes on; a process may die anywhere.  *)
(***************************************************************************)
EXTENDS StoreOps

CONSTANTS
    Workers,
    Procs,       \* processes sharing the directory
    ProcOf,      \* worker -> process
    NoOp, Nobody,
    Torn,        \* a file that holds part of a dump
    NoFile,      \* the .tmp sibling does not exist
    Flock,       \* is fcntl available?  Without it _file_lock does nothing
    ReadFaults   \* may opening or reading the file fail (OSError)?

ASSUME FileStoreAssumption ==
    /\ ProcOf \in [Workers -> Procs]
    /\ \A o \in Ops : o # NoOp
    /\ Nobody \notin Workers
    /\ \A s \in Stores : s # Torn /\ s # NoFile
    /\ Torn # NoFile
    /\ Flock \in BOOLEAN /\ ReadFaults \in BOOLEAN

Steps == {"idle", "waiting", "started", "locked", "loaded", "dumping", "dumped", "written"}

VARIABLES
    file,      \* the collection file
    tmp,       \* its .tmp sibling
    flock,     \* holder of the advisory lock on the .lock sidecar
    lock,      \* process -> holder of the collection's asyncio lock
    step,      \* worker -> how far its call is
    op,        \* worker -> its operation
    snapshot,  \* worker -> the store its thread read
    awaited    \* worker -> is the caller still waiting for the thread?

vars == <<file, tmp, flock, lock, step, op, snapshot, awaited>>

TypeOK ==
    /\ file \in Stores \cup {Torn}
    /\ tmp \in Stores \cup {Torn, NoFile}
    /\ flock \in Workers \cup {Nobody}
    /\ lock \in [Procs -> Workers \cup {Nobody}]
    /\ step \in [Workers -> Steps]
    /\ op \in [Workers -> Ops \cup {NoOp}]
    /\ snapshot \in [Workers -> Stores]
    /\ awaited \in [Workers -> BOOLEAN]
    /\ \A w \in Workers : op[w] = NoOp <=> step[w] = "idle"

Init ==
    /\ file = EmptyStore
    /\ tmp = NoFile
    /\ flock = Nobody
    /\ lock = [p \in Procs |-> Nobody]
    /\ step = [w \in Workers |-> "idle"]
    /\ op = [w \in Workers |-> NoOp]
    /\ snapshot = [w \in Workers |-> EmptyStore]
    /\ awaited = [w \in Workers |-> FALSE]

At(w, s) == step[w] = s
Goto(w, s) == step' = [step EXCEPT ![w] = s]

-----------------------------------------------------------------------------
\* call_tool: the operation is built before any lock is taken.
CallTool(w, o) ==
    /\ At(w, "idle")
    /\ Goto(w, "waiting")
    /\ op' = [op EXCEPT ![w] = o]
    /\ awaited' = [awaited EXCEPT ![w] = TRUE]
    /\ UNCHANGED <<file, tmp, flock, lock, snapshot>>

\* async with lock: the cycle is handed to a thread.
TakeLock(w) ==
    /\ At(w, "waiting")
    /\ lock[ProcOf[w]] = Nobody
    /\ lock' = [lock EXCEPT ![ProcOf[w]] = w]
    /\ Goto(w, "started")
    /\ UNCHANGED <<file, tmp, flock, op, snapshot, awaited>>

\* Mutant of TakeFlock: the lock is shared (LOCK_SH).
LocksShared(w) ==
    /\ At(w, "started")
    /\ flock' = w
    /\ Goto(w, "locked")
    /\ UNCHANGED <<file, tmp, lock, op, snapshot, awaited>>

\* _file_lock, blocking in the thread.
TakeFlock(w) ==
    /\ At(w, "started")
    /\ Flock => flock = Nobody
    /\ flock' = IF Flock THEN w ELSE flock
    /\ Goto(w, "locked")
    /\ UNCHANGED <<file, tmp, lock, op, snapshot, awaited>>

\* _read_store: a file that is missing, torn or unreadable reads as an empty store.
Readings == {IF file = Torn THEN EmptyStore ELSE file} \cup {s \in {EmptyStore} : ReadFaults}

ReadStore(w) ==
    /\ At(w, "locked")
    /\ \E s \in Readings : snapshot' = [snapshot EXCEPT ![w] = s]
    /\ Goto(w, "loaded")
    /\ UNCHANGED <<file, tmp, flock, lock, op, awaited>>

\* apply(store) leaves the store as it is: nothing is written.
SkipWrite(w) ==
    /\ At(w, "loaded")
    /\ ~Dirty(op[w], snapshot[w])
    /\ Goto(w, "written")
    /\ UNCHANGED <<file, tmp, flock, lock, op, snapshot, awaited>>

\* _atomic_write opens the .tmp file, truncating it ...
OpenTmp(w) ==
    /\ At(w, "loaded")
    /\ Dirty(op[w], snapshot[w])
    /\ tmp' = Torn
    /\ Goto(w, "dumping")
    /\ UNCHANGED <<file, flock, lock, op, snapshot, awaited>>

\* ... dumps the new store into it ...
DumpTmp(w) ==
    /\ At(w, "dumping")
    /\ tmp' = ApplyOp(op[w], snapshot[w])
    /\ Goto(w, "dumped")
    /\ UNCHANGED <<file, flock, lock, op, snapshot, awaited>>

\* ... or fails to (a full disk): the error ends the call and leaves a torn .tmp ...
FailDump(w) ==
    /\ At(w, "dumping")
    /\ Goto(w, "written")
    /\ UNCHANGED <<file, tmp, flock, lock, op, snapshot, awaited>>

(* ... and renames it over the collection file.  The rename raises when the .tmp is
   gone or, where there is no flock (Windows), open in another thread. *)
Replace(w) ==
    /\ At(w, "dumped")
    /\ IF tmp = NoFile \/ \E v \in Workers : At(v, "dumping") THEN UNCHANGED <<file, tmp>>
       ELSE file' = tmp /\ tmp' = NoFile
    /\ Goto(w, "written")
    /\ UNCHANGED <<flock, lock, op, snapshot, awaited>>

\* Mutant of Finish: the flock is not released.
KeepsFlock(w) ==
    /\ At(w, "written")
    /\ lock' = IF awaited[w] THEN [lock EXCEPT ![ProcOf[w]] = Nobody] ELSE lock
    /\ Goto(w, "idle")
    /\ op' = [op EXCEPT ![w] = NoOp]
    /\ snapshot' = [snapshot EXCEPT ![w] = EmptyStore]
    /\ awaited' = [awaited EXCEPT ![w] = FALSE]
    /\ UNCHANGED <<file, tmp, flock>>

(* The flock is released and the thread ends; a caller that still waits releases
   the asyncio lock. *)
Finish(w) ==
    /\ At(w, "written")
    /\ flock' = IF flock = w THEN Nobody ELSE flock
    /\ lock' = IF awaited[w] THEN [lock EXCEPT ![ProcOf[w]] = Nobody] ELSE lock
    /\ Goto(w, "idle")
    /\ op' = [op EXCEPT ![w] = NoOp]
    /\ snapshot' = [snapshot EXCEPT ![w] = EmptyStore]
    /\ awaited' = [awaited EXCEPT ![w] = FALSE]
    /\ UNCHANGED <<file, tmp>>

(* The caller is cancelled.  A call that has not reached a running thread is
   dropped; a running thread goes on without the asyncio lock. *)
Cancel(w) ==
    /\ awaited[w]
    /\ awaited' = [awaited EXCEPT ![w] = FALSE]
    /\ lock' = IF At(w, "waiting") THEN lock ELSE [lock EXCEPT ![ProcOf[w]] = Nobody]
    /\ \/ /\ step[w] \in {"waiting", "started"}
          /\ Goto(w, "idle") /\ op' = [op EXCEPT ![w] = NoOp]
       \/ ~At(w, "waiting") /\ UNCHANGED <<step, op>>
    /\ UNCHANGED <<file, tmp, flock, snapshot>>

Crashed(p) == {w \in Workers : ProcOf[w] = p}

\* The process dies; the kernel drops its flock, the files stay.
Crash(p) ==
    /\ \E w \in Crashed(p) : ~At(w, "idle")
    /\ step' = [w \in Workers |-> IF w \in Crashed(p) THEN "idle" ELSE step[w]]
    /\ op' = [w \in Workers |-> IF w \in Crashed(p) THEN NoOp ELSE op[w]]
    /\ awaited' = [w \in Workers |-> IF w \in Crashed(p) THEN FALSE ELSE awaited[w]]
    /\ flock' = IF flock \in Crashed(p) THEN Nobody ELSE flock
    /\ snapshot' = [w \in Workers |-> IF w \in Crashed(p) THEN EmptyStore ELSE snapshot[w]]
    /\ lock' = [lock EXCEPT ![p] = Nobody]
    /\ UNCHANGED <<file, tmp>>

ThreadStep(w) ==
    TakeFlock(w) \/ ReadStore(w) \/ SkipWrite(w) \/ OpenTmp(w) \/ DumpTmp(w)
    \/ FailDump(w) \/ Replace(w) \/ Finish(w)

Next ==
    \/ \E w \in Workers :
          (\E o \in Ops : CallTool(w, o)) \/ TakeLock(w) \/ ThreadStep(w) \/ Cancel(w)
    \/ \E p \in Procs : Crash(p)

(* Threads run; waiters of the asyncio lock (a FIFO queue) and of the flock (a
   kernel wait queue) are served in turn.  A call is at one of the two locks or
   in its thread, so one condition per caller says it. *)
Fairness == \A w \in Workers : SF_vars(TakeLock(w) \/ ThreadStep(w))

Spec == Init /\ [][Next]_vars /\ Fairness

-----------------------------------------------------------------------------
\* A call counts as made, and not yet effective, until its rename (or its skip).
Pending == [w \in Workers |-> IF step[w] \in {"idle", "written"} THEN NoOp ELSE op[w]]

Abstract == INSTANCE AtomicStore WITH store <- file, pending <- Pending

(* The file store implements the atomic store: whatever the interleaving of two
   processes, their threads, cancelled callers and crashes, each call applies
   to the current collection as a whole or not at all. *)
AtomicSpec == Abstract!Spec

(* Every call ends: no order of the two locks leaves a caller waiting. *)
CallsEnd == \A w \in Workers : At(w, "waiting") ~> At(w, "idle")
=============================================================================
