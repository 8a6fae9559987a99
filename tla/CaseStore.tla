------------------------------ MODULE CaseStore ------------------------------
(***************************************************************************)
(* One Case document and its writers (Persistence, store/cases.py; case    *)
(* commands and auto-naming, server/turn/cases.py; the layer and AOI       *)
(* writes, server/session/case_state.py and server/dispatch/aoi.py).       *)
(*                                                                         *)
(* A store call is atomic (FileStore).  Most writers make two of them:     *)
(* get_case reads the summary, and after an await upsert_case $sets the    *)
(* whole summary back with one field changed.  Deleting the Case and       *)
(* saving its handle map are single calls that touch one field.            *)
(***************************************************************************)
CONSTANTS
    Writers,   \* tasks that may be between a read and a write of the Case
    Kinds,     \* the read-modify-write operations they run
    Layers, Titles, Boxes,
    Untitled,  \* the title "Untitled Case"
    NoBox,     \* no AOI
    NoCase,    \* the Case is not in the store
    NoJob

AllKinds == {"rename", "set-bbox", "autoname", "merge", "pin-aoi"}

Jobs ==
    [kind : {"rename", "autoname"}, title : Titles]
      \cup [kind : {"set-bbox"}, bbox : Boxes \cup {NoBox}]
      \cup [kind : {"pin-aoi"}, bbox : Boxes]
      \cup [kind : {"merge"}, layers : (SUBSET Layers) \ {{}}]

\* What CaseSummary carries.
Summaries ==
    [status : {"active", "deleted"}, title : Titles \cup {Untitled},
     bbox : Boxes \cup {NoBox}, layers : SUBSET Layers]

\* The storage-only fields.
Extras == [owned : BOOLEAN, handles : SUBSET Layers]

ASSUME CaseStoreAssumption ==
    /\ Kinds \subseteq AllKinds
    /\ Untitled \notin Titles /\ NoBox \notin Boxes
    /\ \A s \in Summaries : s # NoCase
    /\ \A j \in Jobs : j # NoJob

VARIABLES
    summary,    \* the summary fields of the stored document, or NoCase
    extra,      \* its storage-only fields
    job,        \* writer -> the operation it is in
    read,       \* writer -> the summary get_case gave it
    autonamed,  \* is the Case in _AUTONAMED_CASES?
    intended,   \* history: the summary had each call changed its own field only
    saved,      \* history: the handle map saved last
    since,      \* history: writer -> the fields others have updated since its read
    overwritten \* history: the fields a write put back to a value read too early

caseVars == <<summary, extra, job, read, autonamed, intended, saved, since, overwritten>>

Fields == {"title", "bbox", "layers"}

CaseTypeOK ==
    /\ summary \in Summaries \cup {NoCase}
    /\ extra \in Extras
    /\ job \in [Writers -> Jobs \cup {NoJob}]
    /\ read \in [Writers -> Summaries \cup {NoCase}]
    /\ autonamed \in BOOLEAN
    /\ intended \in Summaries \cup {NoCase}
    /\ saved \in SUBSET Layers
    /\ since \in [Writers -> SUBSET Fields] /\ overwritten \in SUBSET Fields
    /\ \A w \in Writers : job[w] # NoJob => read[w] # NoCase /\ summary # NoCase

CaseInit ==
    /\ summary = NoCase
    /\ extra = [owned |-> FALSE, handles |-> {}]
    /\ job = [w \in Writers |-> NoJob]
    /\ read = [w \in Writers |-> NoCase]
    /\ autonamed = FALSE
    /\ intended = NoCase
    /\ saved = {}
    /\ since = [w \in Writers |-> {}] /\ overwritten = {}

-----------------------------------------------------------------------------
(* _mint_case: a fresh Case stamped with its owner.  One auto-created for a prompt
   has no AOI and counts as named, whether or not the prompt gave it a title. *)
MintCase(title, box) ==
    /\ summary = NoCase
    /\ summary' = [status |-> "active", title |-> title, bbox |-> box, layers |-> {}]
    /\ intended' = summary'
    /\ extra' = [extra EXCEPT !.owned = TRUE]
    /\ autonamed' \in {FALSE, box = NoBox}
    /\ UNCHANGED <<job, read, saved, since, overwritten>>

\* The field an operation is about.
FieldOf(j) ==
    CASE j.kind \in {"rename", "autoname"} -> "title"
      [] j.kind \in {"set-bbox", "pin-aoi"} -> "bbox"
      [] j.kind = "merge" -> "layers"

\* model_copy: the one field the operation is about.
Update(j, s) ==
    CASE j.kind \in {"rename", "autoname"} -> [s EXCEPT !.title = j.title]
      [] j.kind \in {"set-bbox", "pin-aoi"} -> [s EXCEPT !.bbox = j.bbox]
      [] j.kind = "merge" -> [s EXCEPT !.layers = @ \cup j.layers]

(* Does the operation write after reading s?  A merge that adds nothing and a
   pin of the same extent do not; auto-naming looks for an untitled Case. *)
Writes(j, s) ==
    CASE j.kind = "autoname" -> ~autonamed /\ s.title = Untitled
      [] j.kind \in {"merge", "pin-aoi"} -> Update(j, s) # s
      [] OTHER -> TRUE

\* get_case of an operation that goes on to write.
GetCase(w, j) ==
    /\ job[w] = NoJob
    /\ j.kind \in Kinds
    /\ summary # NoCase
    /\ Writes(j, summary)
    /\ job' = [job EXCEPT ![w] = j]
    /\ read' = [read EXCEPT ![w] = summary]
    /\ since' = [since EXCEPT ![w] = {}]
    /\ UNCHANGED <<summary, extra, autonamed, intended, saved, overwritten>>

\* Auto-naming finds a title, or a prompt that gives none, and stops checking.
StopNaming ==
    /\ "autoname" \in Kinds
    /\ ~autonamed /\ summary # NoCase
    /\ autonamed' = TRUE
    /\ UNCHANGED <<summary, extra, job, read, intended, saved, since, overwritten>>

Done(w) ==
    /\ job' = [job EXCEPT ![w] = NoJob]
    /\ read' = [read EXCEPT ![w] = NoCase]

(* What the write of w does to the updates of the others: each field they changed since
   its read is put back.  Its own field holds what the call meant, unless the call adds
   to what it read. *)
Overwrites(w) ==
    LET own == FieldOf(job[w])
        kept == IF own = "layers" THEN {} ELSE {own}
    IN  /\ overwritten' = (overwritten \cup since[w]) \ kept
        /\ since' = [v \in Writers |-> IF v = w \/ job[v] = NoJob THEN {} ELSE since[v] \cup {own}]

\* Mutant of UpsertCase: null fields are left out of the $set.
DropsNulls(w) ==
    /\ job[w] # NoJob
    /\ LET s == Update(job[w], read[w])
       IN  summary' = [s EXCEPT !.bbox = IF s.bbox = NoBox THEN summary.bbox ELSE @]
    /\ intended' = Update(job[w], intended)
    /\ autonamed' = (autonamed \/ job[w].kind = "autoname")
    /\ Overwrites(w)
    /\ Done(w)
    /\ UNCHANGED <<extra, saved>>

\* Mutant of UpsertCase: the status is not read back from the store.
ResetsStatus(w) ==
    /\ job[w] # NoJob
    /\ summary' = [Update(job[w], read[w]) EXCEPT !.status = "active"]
    /\ intended' = Update(job[w], intended)
    /\ autonamed' = (autonamed \/ job[w].kind = "autoname")
    /\ Overwrites(w)
    /\ Done(w)
    /\ UNCHANGED <<extra, saved>>

(* upsert_case: $set of every summary field as it was read, the changed one
   apart; the storage-only fields are not in the summary. *)
UpsertCase(w) ==
    /\ job[w] # NoJob
    /\ summary' = Update(job[w], read[w])
    /\ intended' = Update(job[w], intended)
    /\ autonamed' = (autonamed \/ job[w].kind = "autoname")
    /\ Overwrites(w)
    /\ Done(w)
    /\ UNCHANGED <<extra, saved>>

\* The store raises, or a turn is cancelled between its two calls.
GiveUp(w) ==
    /\ job[w] # NoJob
    /\ Done(w)
    /\ since' = [since EXCEPT ![w] = {}]
    /\ UNCHANGED <<summary, extra, autonamed, intended, saved, overwritten>>

\* delete_case: one $set of the status.
DeleteCase ==
    /\ summary # NoCase
    /\ summary' = [summary EXCEPT !.status = "deleted"]
    /\ intended' = [intended EXCEPT !.status = "deleted"]
    /\ UNCHANGED <<extra, job, read, autonamed, saved, since, overwritten>>

\* set_case_layer_handles: one $set, no upsert.
SetCaseLayerHandles(handles) ==
    /\ summary # NoCase
    /\ extra' = [extra EXCEPT !.handles = handles]
    /\ saved' = handles
    /\ UNCHANGED <<summary, job, read, autonamed, intended, since, overwritten>>

CaseNext ==
    \/ \E title \in Titles \cup {Untitled}, box \in Boxes \cup {NoBox} : MintCase(title, box)
    \/ \E w \in Writers : UpsertCase(w) \/ GiveUp(w) \/ \E j \in Jobs : GetCase(w, j)
    \/ StopNaming \/ DeleteCase
    \/ \E handles \in SUBSET Layers : SetCaseLayerHandles(handles)

CaseSpec == CaseInit /\ [][CaseNext]_caseVars

-----------------------------------------------------------------------------
(* The owner stamp that lists the Case for its creator and the handle map the
   model was shown survive every whole-summary upsert, stale ones included. *)
StorageFieldsSurvive == extra.handles = saved /\ (summary # NoCase => extra.owned)

(* Renames, AOI changes, names and merged layers land and stay, however the operations
   interleave: the document holds what each completed call meant to write, in every
   field that no operation put back by writing the Case as it had read it before. *)
UpdatesLand ==
    summary # NoCase =>
        /\ summary.title = intended.title \/ "title" \in overwritten
        /\ summary.bbox = intended.bbox \/ "bbox" \in overwritten
        /\ summary.layers = intended.layers \/ "layers" \in overwritten

\* A writer in progress read the Case as an active one.
ReadBeforeDelete == \E w \in Writers : job[w] # NoJob /\ read[w].status = "active"

(* A deletion is undone by an operation that read the Case before it, and by
   nothing else: one that starts later writes the status back as it found it
   (case_state.py, _persist_case_loaded_layers: "an archived or deleted Case is
   skipped rather than resurrected"). *)
DeletionIsFinal ==
    [][summary # NoCase /\ summary.status = "deleted" /\ ~ReadBeforeDelete
       => summary' # NoCase /\ summary'.status = "deleted"]_caseVars
=============================================================================
