----------------------------- MODULE StoreProofs -----------------------------
(***************************************************************************)
(* Proofs about the document store and the Cases kept in it.  FileStore    *)
(* implements the atomic store, for any number of processes, callers and   *)
(* documents, where fcntl is there and reads of the collection file do not *)
(* fail.  CaseStore, whose calls are atomic for that reason: what          *)
(* whole-summary upserts keep, and which updates they lose, with any       *)
(* number of writers.                                                      *)
(***************************************************************************)
EXTENDS FileStore, CaseStore, TLAPS

\* The thread is between its flock and the release of it.
Held == {"locked", "loaded", "dumping", "dumped", "written"}

FlockInv == \A w \in Workers : step[w] \in Held <=> flock = w

\* Nobody replaced the file since the holder of the flock read it.
SnapshotInv ==
    \A w \in Workers : step[w] \in {"loaded", "dumping", "dumped"} => snapshot[w] = file

DumpInv == \A w \in Workers : step[w] = "dumped" => tmp = ApplyOp(op[w], file)

IInv == TypeOK /\ file \in Stores /\ FlockInv /\ SnapshotInv /\ DumpInv

\* Every operation of _operation leaves a store.
LEMMA ApplyIsStore ==
    ASSUME NEW o \in Ops, NEW s \in Stores
    PROVE  ApplyOp(o, s) \in Stores
  <1>1. o.name \in OpNames /\ o.key \in Keys /\ o.item \in Items
    BY DEF Ops
  <1>2. ASSUME Dirty(o, s)
        PROVE  DocAfter(o, s[o.key]) \in (SUBSET Items) \cup {Absent}
    <2>1. s[o.key] \in (SUBSET Items) \cup {Absent}
      BY <1>1 DEF Stores
    <2>2. CASE o.name = "insert-one"
      BY <1>1, <2>2 DEF DocAfter
    <2>3. CASE o.name \in {"update-one", "upsert-one"}
      BY <1>1, <2>1, <2>3 DEF DocAfter
    <2>4. CASE o.name = "delete-one"
      BY <2>4 DEF DocAfter
    <2>5. o.name # "find-one"
      BY <1>2 DEF Dirty
    <2> QED BY <1>1, <2>2, <2>3, <2>4, <2>5 DEF OpNames
  <1> QED BY <1>1, <1>2 DEF ApplyOp, Stores

LEMMA EmptyIsStore == EmptyStore \in Stores
  BY DEF EmptyStore, Stores

\* The operations of the two levels are the same.
LEMMA SameOps ==
    /\ Abstract!Ops = Ops
    /\ Abstract!EmptyStore = EmptyStore
    /\ \A o, s : Abstract!ApplyOp(o, s) = ApplyOp(o, s)
  BY DEF Abstract!Ops, Abstract!OpNames, Ops, OpNames, Abstract!EmptyStore, EmptyStore,
         Abstract!ApplyOp, ApplyOp, Abstract!Dirty, Dirty, Abstract!DocAfter, DocAfter

LEMMA InitInv == Init => IInv
  BY EmptyIsStore, FileStoreAssumption
  DEF Init, IInv, TypeOK, FlockInv, SnapshotInv, DumpInv, Held, Steps

-----------------------------------------------------------------------------
(* Where fcntl is there and reads do not fail, each step keeps the invariant:
   only the holder of the flock reads, dumps and replaces. *)
LEMMA StepInv ==
    ASSUME Flock, ~ReadFaults, IInv, [Next]_vars
    PROVE  IInv'
  <1> USE FileStoreAssumption DEF At, Goto
  <1>1. ASSUME NEW w \in Workers, NEW o \in Ops, CallTool(w, o)
        PROVE  IInv'
    BY <1>1 DEF CallTool, IInv, TypeOK, FlockInv, SnapshotInv, DumpInv, Held, Steps
  <1>2. ASSUME NEW w \in Workers, TakeLock(w)
        PROVE  IInv'
    BY <1>2 DEF TakeLock, IInv, TypeOK, FlockInv, SnapshotInv, DumpInv, Held, Steps
  <1>3. ASSUME NEW w \in Workers, TakeFlock(w)
        PROVE  IInv'
    BY <1>3 DEF TakeFlock, IInv, TypeOK, FlockInv, SnapshotInv, DumpInv, Held, Steps
  <1>4. ASSUME NEW w \in Workers, ReadStore(w)
        PROVE  IInv'
    BY <1>4 DEF ReadStore, Readings, IInv, TypeOK, FlockInv, SnapshotInv, DumpInv, Held, Steps
  <1>5. ASSUME NEW w \in Workers, SkipWrite(w)
        PROVE  IInv'
    BY <1>5 DEF SkipWrite, IInv, TypeOK, FlockInv, SnapshotInv, DumpInv, Held, Steps
  <1>6. ASSUME NEW w \in Workers, OpenTmp(w)
        PROVE  IInv'
    BY <1>6 DEF OpenTmp, IInv, TypeOK, FlockInv, SnapshotInv, DumpInv, Held, Steps
  <1>7. ASSUME NEW w \in Workers, DumpTmp(w)
        PROVE  IInv'
    <2>1. ApplyOp(op[w], snapshot[w]) \in Stores
      BY <1>7, ApplyIsStore DEF DumpTmp, IInv, TypeOK
    <2> QED
      BY <1>7, <2>1 DEF DumpTmp, IInv, TypeOK, FlockInv, SnapshotInv, DumpInv, Held, Steps
  <1>8. ASSUME NEW w \in Workers, FailDump(w)
        PROVE  IInv'
    BY <1>8 DEF FailDump, IInv, TypeOK, FlockInv, SnapshotInv, DumpInv, Held, Steps
  <1>9. ASSUME NEW w \in Workers, Replace(w)
        PROVE  IInv'
    <2>1. tmp = ApplyOp(op[w], file) /\ op[w] \in Ops /\ tmp \in Stores
      BY <1>9, ApplyIsStore DEF Replace, IInv, TypeOK, DumpInv
    <2>2. \A v \in Workers : v # w => step[v] \notin Held
      BY <1>9 DEF Replace, IInv, FlockInv, Held
    <2> QED
      BY <1>9, <2>1, <2>2 DEF Replace, IInv, TypeOK, FlockInv, SnapshotInv, DumpInv, Held, Steps
  <1>10. ASSUME NEW w \in Workers, Finish(w)
         PROVE  IInv'
    BY <1>10, EmptyIsStore
    DEF Finish, IInv, TypeOK, FlockInv, SnapshotInv, DumpInv, Held, Steps
  <1>11. ASSUME NEW w \in Workers, Cancel(w)
         PROVE  IInv'
    BY <1>11 DEF Cancel, IInv, TypeOK, FlockInv, SnapshotInv, DumpInv, Held, Steps
  <1>12. ASSUME NEW p \in Procs, Crash(p)
         PROVE  IInv'
    BY <1>12, EmptyIsStore
    DEF Crash, Crashed, IInv, TypeOK, FlockInv, SnapshotInv, DumpInv, Held, Steps
  <1>13. CASE UNCHANGED vars
    BY <1>13 DEF vars, IInv, TypeOK, FlockInv, SnapshotInv, DumpInv
  <1> QED
    BY <1>1, <1>2, <1>3, <1>4, <1>5, <1>6, <1>7, <1>8, <1>9, <1>10, <1>11, <1>12, <1>13
    DEF Next, ThreadStep

(* A thread that reads, dumps or replaces works on the current collection and
   holds the flock alone; the collection file is never torn. *)
THEOREM StoreInvariant ==
    ASSUME Flock, ~ReadFaults
    PROVE  Spec => []IInv
  BY InitInv, StepInv, PTL DEF Spec

\* The types of the store's state, as the runs check them.
THEOREM TypeCorrect ==
    ASSUME Flock, ~ReadFaults
    PROVE  Spec => []TypeOK
  BY StoreInvariant, PTL DEF IInv

-----------------------------------------------------------------------------
\* Every step of the file store is a step of the atomic store, or none.
LEMMA StepRefines ==
    ASSUME Flock, ~ReadFaults, IInv, IInv', [Next]_vars
    PROVE  [Abstract!Next]_<<file, Pending>>
  <1> USE DEF At, Goto
  <1>1. ASSUME NEW w \in Workers, NEW o \in Ops, CallTool(w, o)
        PROVE  Abstract!Request(w, o)
    BY <1>1 DEF CallTool, Pending, Abstract!Request, IInv, TypeOK
  <1>2. ASSUME NEW w \in Workers,
               TakeLock(w) \/ TakeFlock(w) \/ ReadStore(w) \/ OpenTmp(w) \/ DumpTmp(w)
        PROVE  UNCHANGED <<file, Pending>>
    BY <1>2 DEF TakeLock, TakeFlock, ReadStore, OpenTmp, DumpTmp, Pending, IInv, TypeOK
  <1>3. ASSUME NEW w \in Workers, SkipWrite(w)
        PROVE  Abstract!Commit(w)
    BY <1>3, SameOps, FileStoreAssumption
    DEF SkipWrite, Pending, Abstract!Commit, IInv, TypeOK, SnapshotInv, ApplyOp
  <1>4. ASSUME NEW w \in Workers, Replace(w)
        PROVE  Abstract!Commit(w)
    <2>1. tmp = ApplyOp(op[w], file) /\ op[w] \in Ops /\ tmp \in Stores
      BY <1>4, ApplyIsStore DEF Replace, IInv, TypeOK, DumpInv
    <2>2. file' = ApplyOp(op[w], file)
      BY <1>4, <2>1, FileStoreAssumption DEF Replace, IInv, FlockInv, Held
    <2> QED
      BY <1>4, <2>1, <2>2, SameOps, FileStoreAssumption
      DEF Replace, Pending, Abstract!Commit, IInv, TypeOK
  <1>5. ASSUME NEW w \in Workers, FailDump(w)
        PROVE  Abstract!Abort({w})
    BY <1>5 DEF FailDump, Pending, Abstract!Abort, IInv, TypeOK
  <1>6. ASSUME NEW w \in Workers, Finish(w)
        PROVE  UNCHANGED <<file, Pending>>
    BY <1>6 DEF Finish, Pending, IInv, TypeOK
  <1>7. ASSUME NEW w \in Workers, Cancel(w)
        PROVE  Abstract!Abort({w}) \/ UNCHANGED <<file, Pending>>
    BY <1>7 DEF Cancel, Pending, Abstract!Abort, IInv, TypeOK
  <1>8. ASSUME NEW p \in Procs, Crash(p)
        PROVE  Abstract!Abort(Crashed(p))
    BY <1>8 DEF Crash, Crashed, Pending, Abstract!Abort, IInv, TypeOK
  <1>9. CASE UNCHANGED vars
    BY <1>9 DEF vars, Pending
  <1>10. \A p : Crashed(p) \in SUBSET Workers
    BY DEF Crashed
  <1> QED
    BY <1>1, <1>2, <1>3, <1>4, <1>5, <1>6, <1>7, <1>8, <1>9, <1>10, SameOps
    DEF Next, ThreadStep, Abstract!Next

(* FileMCPClient keeps the promise of MCPClientProtocol: every call takes effect
   once, at its rename, on the collection as it then is, or not at all, whatever
   the processes, cancelled callers, failed dumps and crashes around it. *)
THEOREM FileStoreIsAtomic ==
    ASSUME Flock, ~ReadFaults
    PROVE  Spec => AtomicSpec
  <1>1. Init => Abstract!Init
    BY SameOps DEF Init, Abstract!Init, Pending
  <1> QED
    BY <1>1, StoreInvariant, StepRefines, PTL DEF Spec, AtomicSpec, Abstract!Spec

-----------------------------------------------------------------------------
(* The Case document. *)

\* model_copy of a summary is a summary.
LEMMA UpdateIsSummary ==
    ASSUME NEW j \in Jobs, NEW s \in Summaries
    PROVE  Update(j, s) \in Summaries
  <1>1. CASE j \in [kind : {"rename", "autoname"}, title : Titles]
    BY <1>1 DEF Update, Summaries
  <1>2. CASE j \in [kind : {"set-bbox"}, bbox : Boxes \cup {NoBox}]
    BY <1>2 DEF Update, Summaries
  <1>3. CASE j \in [kind : {"pin-aoi"}, bbox : Boxes]
    BY <1>3 DEF Update, Summaries
  <1>4. CASE j \in [kind : {"merge"}, layers : (SUBSET Layers) \ {{}}]
    BY <1>4 DEF Update, Summaries
  <1> QED BY <1>1, <1>2, <1>3, <1>4 DEF Jobs

LEMMA FieldIs == ASSUME NEW j \in Jobs PROVE FieldOf(j) \in Fields
  BY DEF Jobs, FieldOf, Fields

(* The history variable exists exactly when the document does. *)
Minted == summary = NoCase <=> intended = NoCase

CaseInv == CaseTypeOK /\ Minted /\ StorageFieldsSurvive

LEMMA CaseInvInit == CaseInit => CaseInv
  <1> SUFFICES ASSUME CaseInit
               PROVE  CaseInv
    OBVIOUS
  <1>1. extra \in Extras /\ extra.handles = {} /\ ~extra.owned
    BY DEF CaseInit, Extras
  <1> QED
    BY <1>1 DEF CaseInit, CaseInv, CaseTypeOK, Minted, StorageFieldsSurvive

LEMMA CaseInvStep == CaseInv /\ [CaseNext]_caseVars => CaseInv'
  <1> SUFFICES ASSUME CaseInv, [CaseNext]_caseVars
               PROVE  CaseInv'
    OBVIOUS
  <1> USE CaseStoreAssumption DEF CaseInv
  <1>1. ASSUME NEW title \in Titles \cup {Untitled}, NEW box \in Boxes \cup {NoBox},
               MintCase(title, box)
        PROVE  CaseInv'
    <2>1. summary' \in Summaries
      BY <1>1 DEF MintCase, Summaries
    <2>2. extra' \in Extras /\ extra'.owned /\ extra'.handles = extra.handles
      BY <1>1 DEF MintCase, CaseTypeOK, Extras
    <2> QED
      BY <1>1, <2>1, <2>2 DEF MintCase, CaseTypeOK, Minted, StorageFieldsSurvive
  <1>2. ASSUME NEW w \in Writers, NEW j \in Jobs, GetCase(w, j)
        PROVE  CaseInv'
    BY <1>2 DEF GetCase, CaseTypeOK, Minted, StorageFieldsSurvive
  <1>3. ASSUME NEW w \in Writers, UpsertCase(w)
        PROVE  CaseInv'
    <2>1. job[w] \in Jobs /\ read[w] \in Summaries /\ intended \in Summaries /\ summary # NoCase
      BY <1>3 DEF UpsertCase, CaseTypeOK, Minted
    <2>2. summary' \in Summaries /\ intended' \in Summaries
      BY <1>3, <2>1, UpdateIsSummary DEF UpsertCase
    <2>3. since' \in [Writers -> SUBSET Fields] /\ overwritten' \in SUBSET Fields
      BY <1>3, <2>1, FieldIs DEF UpsertCase, Overwrites, CaseTypeOK
    <2> QED
      BY <1>3, <2>1, <2>2, <2>3 DEF UpsertCase, Done, CaseTypeOK, Minted, StorageFieldsSurvive
  <1>4. ASSUME NEW w \in Writers, GiveUp(w)
        PROVE  CaseInv'
    BY <1>4 DEF GiveUp, Done, CaseTypeOK, Minted, StorageFieldsSurvive
  <1>5. ASSUME StopNaming
        PROVE  CaseInv'
    BY <1>5 DEF StopNaming, CaseTypeOK, Minted, StorageFieldsSurvive
  <1>6. ASSUME DeleteCase
        PROVE  CaseInv'
    <2>1. summary' \in Summaries /\ intended' \in Summaries
      BY <1>6 DEF DeleteCase, CaseTypeOK, Minted, Summaries
    <2> QED
      BY <1>6, <2>1 DEF DeleteCase, CaseTypeOK, Minted, StorageFieldsSurvive
  <1>7. ASSUME NEW handles \in SUBSET Layers, SetCaseLayerHandles(handles)
        PROVE  CaseInv'
    <2>1. extra' \in Extras /\ extra'.owned = extra.owned /\ extra'.handles = handles
      BY <1>7 DEF SetCaseLayerHandles, CaseTypeOK, Extras
    <2> QED
      BY <1>7, <2>1 DEF SetCaseLayerHandles, CaseTypeOK, Minted, StorageFieldsSurvive
  <1>8. CASE UNCHANGED caseVars
    BY <1>8 DEF caseVars, CaseTypeOK, Minted, StorageFieldsSurvive
  <1> QED BY <1>1, <1>2, <1>3, <1>4, <1>5, <1>6, <1>7, <1>8 DEF CaseNext

\* The types of the document, of its writers and of the summaries they hold.
THEOREM CaseTypes == CaseSpec => []CaseTypeOK
  BY CaseInvInit, CaseInvStep, PTL DEF CaseSpec, CaseInv

(* upsert_case never drops the owner stamp or the handle map, however stale the
   summary it writes back. *)
THEOREM StorageFieldsAreKept == CaseSpec => []StorageFieldsSurvive
  BY CaseInvInit, CaseInvStep, PTL DEF CaseSpec, CaseInv

\* model_copy keeps the status.
LEMMA UpdateKeepsStatus ==
    ASSUME NEW j \in Jobs, NEW s \in Summaries
    PROVE  Update(j, s).status = s.status
  <1>1. CASE j \in [kind : {"rename", "autoname"}, title : Titles]
    BY <1>1 DEF Update, Summaries
  <1>2. CASE j \in [kind : {"set-bbox"}, bbox : Boxes \cup {NoBox}]
    BY <1>2 DEF Update, Summaries
  <1>3. CASE j \in [kind : {"pin-aoi"}, bbox : Boxes]
    BY <1>3 DEF Update, Summaries
  <1>4. CASE j \in [kind : {"merge"}, layers : (SUBSET Layers) \ {{}}]
    BY <1>4 DEF Update, Summaries
  <1> QED BY <1>1, <1>2, <1>3, <1>4 DEF Jobs

(* However many writers there are, an operation that starts after the deletion
   of a Case does not bring it back. *)
THEOREM LateWritesReviveNothing == CaseSpec => DeletionIsFinal
  <1> DEFINE Final ==
        summary # NoCase /\ summary.status = "deleted" /\ ~ReadBeforeDelete
        => summary' # NoCase /\ summary'.status = "deleted"
  <1>1. CaseInv /\ [CaseNext]_caseVars => [Final]_caseVars
    <2> SUFFICES ASSUME CaseInv, CaseNext, summary # NoCase, summary.status = "deleted", ~ReadBeforeDelete
                 PROVE  summary' # NoCase /\ summary'.status = "deleted"
      OBVIOUS
    <2>1. ASSUME NEW w \in Writers, UpsertCase(w)
          PROVE  summary' # NoCase /\ summary'.status = "deleted"
      <3>1. job[w] \in Jobs /\ read[w] \in Summaries /\ read[w].status # "active"
        BY <2>1 DEF UpsertCase, CaseInv, CaseTypeOK, ReadBeforeDelete
      <3>2. read[w].status = "deleted"
        BY <3>1 DEF Summaries
      <3>3. summary' \in Summaries /\ summary'.status = "deleted"
        BY <2>1, <3>1, <3>2, UpdateIsSummary, UpdateKeepsStatus DEF UpsertCase
      <3> QED BY <3>3, CaseStoreAssumption
    <2>2. ASSUME DeleteCase
          PROVE  summary' # NoCase /\ summary'.status = "deleted"
      <3>1. summary' \in Summaries /\ summary'.status = "deleted"
        BY <2>2 DEF DeleteCase, CaseInv, CaseTypeOK, Summaries
      <3> QED BY <3>1, CaseStoreAssumption
    <2>3. CASE UNCHANGED summary
      BY <2>3
    <2> QED
      BY <2>1, <2>2, <2>3 DEF CaseNext, MintCase, GiveUp, GetCase, StopNaming, SetCaseLayerHandles
  <1> HIDE DEF Final
  <1>2. CaseSpec => [][Final]_caseVars
    BY CaseInvInit, CaseInvStep, <1>1, PTL DEF CaseSpec
  <1> QED BY <1>2 DEF Final, DeletionIsFinal

-----------------------------------------------------------------------------
\* Two summaries that agree in the fields outside F; the status may differ.
Alike(s, r, F) ==
    /\ s.title = r.title \/ "title" \in F
    /\ s.bbox = r.bbox \/ "bbox" \in F
    /\ s.layers = r.layers \/ "layers" \in F

(* What a writer read is still what is stored, in every field that nobody updated or
   put back since. *)
ReadsAreFresh == \A w \in Writers : job[w] # NoJob => Alike(read[w], summary, since[w] \cup overwritten)

LInv == CaseInv /\ UpdatesLand /\ ReadsAreFresh

\* An operation changes its own field, the same way in each summary it is applied to.
LEMMA UpdateKeepsAlike ==
    ASSUME NEW j \in Jobs, NEW s \in Summaries, NEW r \in Summaries, NEW F, Alike(s, r, F)
    PROVE  Alike(Update(j, s), Update(j, r), F \ ({FieldOf(j)} \ {"layers"}))
  <1>1. CASE j \in [kind : {"rename", "autoname"}, title : Titles]
    BY <1>1 DEF Update, FieldOf, Summaries, Alike
  <1>2. CASE j \in [kind : {"set-bbox"}, bbox : Boxes \cup {NoBox}]
    BY <1>2 DEF Update, FieldOf, Summaries, Alike
  <1>3. CASE j \in [kind : {"pin-aoi"}, bbox : Boxes]
    BY <1>3 DEF Update, FieldOf, Summaries, Alike
  <1>4. CASE j \in [kind : {"merge"}, layers : (SUBSET Layers) \ {{}}]
    BY <1>4 DEF Update, FieldOf, Summaries, Alike
  <1> QED BY <1>1, <1>2, <1>3, <1>4 DEF Jobs

LEMMA UpdateIsLocal ==
    ASSUME NEW j \in Jobs, NEW s \in Summaries
    PROVE  Alike(s, Update(j, s), {FieldOf(j)})
  <1>1. CASE j \in [kind : {"rename", "autoname"}, title : Titles]
    BY <1>1 DEF Update, FieldOf, Summaries, Alike
  <1>2. CASE j \in [kind : {"set-bbox"}, bbox : Boxes \cup {NoBox}]
    BY <1>2 DEF Update, FieldOf, Summaries, Alike
  <1>3. CASE j \in [kind : {"pin-aoi"}, bbox : Boxes]
    BY <1>3 DEF Update, FieldOf, Summaries, Alike
  <1>4. CASE j \in [kind : {"merge"}, layers : (SUBSET Layers) \ {{}}]
    BY <1>4 DEF Update, FieldOf, Summaries, Alike
  <1> QED BY <1>1, <1>2, <1>3, <1>4 DEF Jobs

LEMMA AlikeChain ==
    ASSUME NEW s, NEW r, NEW q, NEW F, NEW G, NEW H, Alike(s, r, F), Alike(r, q, G), F \cup G \subseteq H
    PROVE  Alike(s, q, H) /\ Alike(q, s, H)
  BY DEF Alike

\* UpdatesLand in these words.
LEMMA LandsIsAlike == UpdatesLand <=> (summary # NoCase => Alike(summary, intended, overwritten))
  BY DEF UpdatesLand, Alike

LEMMA LandStep ==
    ASSUME LInv, [CaseNext]_caseVars
    PROVE  LInv'
  <1> USE DEF LInv
  <1>0. CaseInv'
    BY CaseInvStep
  <1>1. ASSUME NEW title \in Titles \cup {Untitled}, NEW box \in Boxes \cup {NoBox},
               MintCase(title, box)
        PROVE  LInv'
    BY <1>0, <1>1 DEF MintCase, CaseInv, CaseTypeOK, UpdatesLand, ReadsAreFresh
  <1>2. ASSUME NEW w \in Writers, NEW j \in Jobs, GetCase(w, j)
        PROVE  LInv'
    BY <1>0, <1>2 DEF GetCase, CaseInv, CaseTypeOK, UpdatesLand, ReadsAreFresh, Alike
  <1>3. ASSUME NEW w \in Writers, UpsertCase(w)
        PROVE  LInv'
    <2> DEFINE own == FieldOf(job[w])
               stale == since[w] \cup overwritten
    <2>1. job[w] \in Jobs /\ read[w] \in Summaries /\ intended \in Summaries /\ summary \in Summaries
      BY <1>3 DEF UpsertCase, CaseInv, CaseTypeOK, Minted
    <2>2. /\ summary' = Update(job[w], read[w]) /\ intended' = Update(job[w], intended)
          /\ overwritten' = (overwritten \cup since[w]) \ ({own} \ {"layers"})
          /\ since' = [v \in Writers |-> IF v = w \/ job[v] = NoJob THEN {} ELSE since[v] \cup {own}]
          /\ job' = [job EXCEPT ![w] = NoJob] /\ read' = [read EXCEPT ![w] = NoCase]
      BY <1>3 DEF UpsertCase, Overwrites, Done
    <2>3. Alike(read[w], summary, stale) /\ Alike(summary, intended, overwritten)
      BY <1>3, <2>1, LandsIsAlike, CaseStoreAssumption DEF UpsertCase, ReadsAreFresh
    <2>4. Alike(read[w], intended, stale)
      BY <2>3, AlikeChain
    <2>5. Alike(summary', intended', stale \ ({own} \ {"layers"}))
      BY <2>1, <2>2, <2>4, UpdateKeepsAlike
    <2>6. UpdatesLand'
      BY <2>2, <2>5 DEF UpdatesLand, Alike
    <2>7. ReadsAreFresh'
      <3> SUFFICES ASSUME NEW v \in Writers, job'[v] # NoJob
                   PROVE  Alike(read'[v], summary', since'[v] \cup overwritten')
        BY DEF ReadsAreFresh
      <3>1. /\ v # w /\ job[v] # NoJob /\ read'[v] = read[v] /\ since'[v] = since[v] \cup {own}
        BY <2>2 DEF CaseInv, CaseTypeOK
      <3>2. Alike(read[v], summary, since[v] \cup overwritten)
        BY <3>1 DEF ReadsAreFresh
      <3>3. Alike(read[v], read[w], since[v] \cup stale)
        <4>1. Alike(summary, read[w], stale)
          BY <2>3 DEF Alike
        <4> QED BY <3>2, <4>1, AlikeChain
      <3>4. Alike(read[w], summary', {own})
        BY <2>1, <2>2, UpdateIsLocal
      <3>5. since[v] \cup stale \cup {own} \subseteq since'[v] \cup overwritten'
        BY <2>2, <3>1
      <3> QED BY <3>1, <3>3, <3>4, <3>5, AlikeChain
    <2> QED
      BY <1>0, <2>6, <2>7
  <1>4. ASSUME NEW w \in Writers, GiveUp(w)
        PROVE  LInv'
    BY <1>0, <1>4 DEF GiveUp, Done, CaseInv, CaseTypeOK, UpdatesLand, ReadsAreFresh
  <1>5. ASSUME StopNaming
        PROVE  LInv'
    BY <1>0, <1>5 DEF StopNaming, UpdatesLand, ReadsAreFresh
  <1>6. ASSUME DeleteCase
        PROVE  LInv'
    <2>1. summary \in Summaries /\ intended \in Summaries
      BY <1>6 DEF DeleteCase, CaseInv, CaseTypeOK, Minted
    <2>2. /\ summary'.title = summary.title /\ summary'.bbox = summary.bbox /\ summary'.layers = summary.layers
          /\ intended'.title = intended.title /\ intended'.bbox = intended.bbox
          /\ intended'.layers = intended.layers
      BY <1>6, <2>1 DEF DeleteCase, Summaries
    <2>3. UNCHANGED <<job, read, since, overwritten>> /\ summary # NoCase
      BY <1>6 DEF DeleteCase
    <2> QED
      BY <1>0, <2>2, <2>3 DEF UpdatesLand, ReadsAreFresh, Alike
  <1>7. ASSUME NEW handles \in SUBSET Layers, SetCaseLayerHandles(handles)
        PROVE  LInv'
    BY <1>0, <1>7 DEF SetCaseLayerHandles, UpdatesLand, ReadsAreFresh
  <1>8. CASE UNCHANGED caseVars
    BY <1>0, <1>8 DEF caseVars, UpdatesLand, ReadsAreFresh
  <1> QED BY <1>1, <1>2, <1>3, <1>4, <1>5, <1>6, <1>7, <1>8 DEF CaseNext

(* With any number of tasks between a read and a write of the Case, in any order, every
   rename, AOI change, name and merge lands and stays in each field that no write put
   back to the value it had read before the update. *)
THEOREM OnlyOvertakenUpdatesAreLost == CaseSpec => []UpdatesLand
  <1>1. CaseInit => LInv
    BY CaseInvInit DEF CaseInit, LInv, UpdatesLand, ReadsAreFresh
  <1>2. LInv /\ [CaseNext]_caseVars => LInv'
    BY LandStep
  <1> QED BY <1>1, <1>2, PTL DEF CaseSpec, LInv
=============================================================================
