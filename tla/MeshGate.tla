------------------------------ MODULE MeshGate ------------------------------
(***************************************************************************)
(* A mesh under review: MeshSession (tools/mesh/session.py), the gate that *)
(* shows it (gate_mesh_build, tools/mesh/gate.py, over gate_input_review,  *)
(* inputs/gate/input_review.py) and the edits mesh_op makes to its recipe  *)
(* meanwhile (tools/mesh/op_tool.py).                                      *)
(*                                                                         *)
(* A mesh is rebuilt whole from its recipe, so it is named here by the     *)
(* recipe it was built from; one edited by hand is Hand.  Building a mesh  *)
(* and writing its display file take a thread each time, and nothing locks *)
(* the session against two of them.                                        *)
(***************************************************************************)
EXTENDS Naturals

CONSTANTS
    Sessions,    \* meshes under review, each with the thread of its own gate
    Editors,     \* the threads that mesh_op calls run on
    Ops,         \* what an edit adds to a recipe: an op, or another size
    Gated,       \* the sessions built with input_mode user_gated; the others are auto
    MaxRounds,   \* MAX_ROUNDS, the cards of a review
    NoSession

ASSUME MeshAssumption ==
    /\ Sessions \cap Editors = {}
    /\ NoSession \notin Sessions
    /\ Gated \subseteq Sessions
    /\ MaxRounds \in Nat \ {0}

Recipes == SUBSET Ops
Declared == {}
Build(r) == [by |-> "recipe", of |-> r]
Hand == [by |-> "hand", of |-> {}]
None == [by |-> "none", of |-> {}]
Meshes == {Build(r) : r \in Recipes} \cup {Hand, None}
Threads == Sessions \cup Editors

VARIABLES
    gate,       \* session -> where its review is
    round,      \* session -> the cards shown so far
    atGate,     \* _AT_GATE, the one session mesh_op acts on
    recipe,     \* session -> recipe
    mesh,       \* session -> _mesh
    face,       \* session -> the mesh whose display file _display names
    note,       \* session -> is regen_note set?
    adopted,    \* session -> does the journal hold an adopt event?
    journal,    \* session -> the recipe the journal was last written with
    job,        \* thread -> what it does, to which session, and the mesh it holds
    art,        \* session -> the accepted artifact, {} if none
    raced       \* history: sessions two threads have worked on at once

meshVars == <<gate, round, atGate, recipe, mesh, face, note, adopted, journal, job, art, raced>>

Idle == [at |-> "idle", on |-> NoSession, holds |-> None]
Artifacts == [mesh : Meshes, recipe : Recipes, face : Meshes, note : BOOLEAN, replays : Meshes]

MeshTypeOK ==
    /\ gate \in [Sessions -> {"off", "present", "card", "revise", "adopt", "accept", "accepted", "refused"}]
    /\ round \in [Sessions -> 0..MaxRounds]
    /\ atGate \in Sessions \cup {NoSession}
    /\ recipe \in [Sessions -> Recipes]
    /\ mesh \in [Sessions -> Meshes]
    /\ face \in [Sessions -> Meshes]
    /\ note \in [Sessions -> BOOLEAN]
    /\ adopted \in [Sessions -> BOOLEAN]
    /\ journal \in [Sessions -> Recipes]
    /\ job \in [Threads -> [at : {"idle", "ensure", "build", "face", "rebuild", "write", "shown"},
                            on : Sessions \cup {NoSession}, holds : Meshes]]
    /\ art \in [Sessions -> SUBSET Artifacts]
    /\ raced \subseteq Sessions

MeshInit ==
    /\ gate = [s \in Sessions |-> "off"]
    /\ round = [s \in Sessions |-> 0]
    /\ atGate = NoSession
    /\ recipe = [s \in Sessions |-> Declared]
    /\ mesh = [s \in Sessions |-> None]
    /\ face = [s \in Sessions |-> None]
    /\ note = [s \in Sessions |-> FALSE]
    /\ adopted = [s \in Sessions |-> FALSE]
    /\ journal = [s \in Sessions |-> Declared]
    /\ job = [w \in Threads |-> Idle]
    /\ art = [s \in Sessions |-> {}]
    /\ raced = {}

-----------------------------------------------------------------------------
SetGate(s, g) == gate' = [gate EXCEPT ![s] = g]
Busy(s) == \E w \in Threads : job[w].on = s
Goes(w, step) == job' = [job EXCEPT ![w].at = step]

\* A thread starts on a session.
Begin(w, s) ==
    /\ job' = [job EXCEPT ![w] = [at |-> "ensure", on |-> s, holds |-> None]]
    /\ raced' = IF Busy(s) THEN raced \cup {s} ELSE raced

(* gate_mesh_build: a review opens, or the mesh is built and accepted at once
   (auto).  Either takes the place of another mesh that is open. *)
OpenGate(s) ==
    /\ gate[s] = "off"
    /\ \/ /\ s \in Gated
          /\ SetGate(s, "present")
          /\ atGate' = s
          /\ round' = [round EXCEPT ![s] = 1]
       \/ /\ s \notin Gated
          /\ SetGate(s, "accept")
          /\ atGate' = NoSession
          /\ UNCHANGED round
    /\ Begin(s, s)
    /\ UNCHANGED <<recipe, mesh, face, note, adopted, journal, art>>

\* Mutant of Regenerate: the mesh goes before the hand edit is looked at.
ClearsFirst(w, s, r) ==
    /\ recipe' = [recipe EXCEPT ![s] = r]
    /\ mesh' = [mesh EXCEPT ![s] = None]
    /\ face' = [face EXCEPT ![s] = None]
    /\ IF note[s] THEN UNCHANGED <<job, raced>> ELSE Begin(w, s)

(* append_op, alter_op, remove_op, set_params: the recipe is swapped, and unless a
   hand edit refuses it the mesh and its display are dropped to be built again. *)
Regenerate(w, s, r) ==
    /\ recipe' = [recipe EXCEPT ![s] = r]
    /\ IF note[s]
       THEN UNCHANGED <<mesh, face, job, raced>>
       ELSE /\ mesh' = [mesh EXCEPT ![s] = None]
            /\ face' = [face EXCEPT ![s] = None]
            /\ Begin(w, s)

\* mesh_op: an entry more, or one less, on the mesh at the gate.
MeshOp(w) ==
    /\ w \in Editors /\ job[w] = Idle
    /\ atGate # NoSession
    /\ \E o \in Ops :
          Regenerate(w, atGate, IF o \in recipe[atGate] THEN recipe[atGate] \ {o}
                                ELSE recipe[atGate] \cup {o})
    /\ UNCHANGED <<gate, round, atGate, note, adopted, journal, art>>

\* Mutant of Ensure: the mesh is built from the recipe the session was opened with.
BuildsDeclared(w) ==
    /\ job[w].at = "ensure"
    /\ job' = [job EXCEPT ![w] =
          IF mesh[job[w].on] = None
          THEN [@ EXCEPT !.at = "build", !.holds = Build(Declared)]
          ELSE [@ EXCEPT !.at = "face"]]
    /\ UNCHANGED <<gate, round, atGate, recipe, mesh, face, note, adopted, journal, art, raced>>

\* _ensure_built: a mesh that is not there is built from the recipe of now.
Ensure(w) ==
    /\ job[w].at = "ensure"
    /\ job' = [job EXCEPT ![w] =
          IF mesh[job[w].on] = None
          THEN [@ EXCEPT !.at = "build", !.holds = Build(recipe[job[w].on])]
          ELSE [@ EXCEPT !.at = "face"]]
    /\ UNCHANGED <<gate, round, atGate, recipe, mesh, face, note, adopted, journal, art, raced>>

\* The mesher returns; the journal is written with the recipe of now.
Built(w) ==
    /\ job[w].at \in {"build", "rebuild"}
    /\ LET s == job[w].on
       IN  /\ mesh' = [mesh EXCEPT ![s] = job[w].holds]
           /\ journal' = [journal EXCEPT ![s] = recipe[s]]
    /\ Goes(w, IF job[w].at = "build" THEN "face" ELSE "write")
    /\ UNCHANGED <<gate, round, atGate, recipe, face, note, adopted, art, raced>>

\* A review ends without a mesh: whoever is at the gate by then is not any more.
Refuse(s) == SetGate(s, "refused") /\ atGate' = NoSession

(* The mesher raises: an edit fails, a review ends with it, and so does the call
   whose review is over. *)
BuildFails(w) ==
    /\ job[w].at \in {"build", "rebuild"}
    /\ job' = [job EXCEPT ![w] = Idle]
    /\ IF w \in Editors THEN UNCHANGED <<gate, atGate>>
       ELSE IF gate[w] = "accept" THEN SetGate(w, "refused") /\ UNCHANGED atGate
       ELSE Refuse(w)
    /\ UNCHANGED <<round, recipe, mesh, face, note, adopted, journal, art, raced>>

(* _display_face: written for the mesh of now, which is built again if another
   thread has dropped it, unless it is there already. *)
Face(w) ==
    /\ job[w].at = "face"
    /\ job' = [job EXCEPT ![w] =
          CASE mesh[job[w].on] = None ->
                 [@ EXCEPT !.at = "rebuild", !.holds = Build(recipe[job[w].on])]
            [] mesh[job[w].on] # None /\ face[job[w].on] = None ->
                 [@ EXCEPT !.at = "write", !.holds = mesh[job[w].on]]
            [] mesh[job[w].on] # None /\ face[job[w].on] # None ->
                 [@ EXCEPT !.at = "shown", !.holds = mesh[job[w].on]]]
    /\ UNCHANGED <<gate, round, atGate, recipe, mesh, face, note, adopted, journal, art, raced>>

(* The thread is done: the display file it writes, or found, is what the session
   shows from now on. *)
Displayed(w) ==
    IF job[w].at = "write" THEN [face EXCEPT ![job[w].on] = job[w].holds] ELSE face

Returns(w) ==
    /\ job[w].at \in {"write", "shown"}
    /\ face' = Displayed(w)
    /\ job' = [job EXCEPT ![w] = Idle]
    /\ UNCHANGED <<atGate, recipe, mesh, note, adopted, journal, raced>>

\* What accept freezes: the mesh, the recipe of now, the display and the journal.
Freeze(s) ==
    [mesh |-> job[s].holds, recipe |-> recipe[s], face |-> Displayed(s)[s], note |-> note[s],
     replays |-> IF adopted[s] THEN Hand ELSE Build(journal[s])]

\* mesh_op returns.
EditDone(w) ==
    /\ w \in Editors
    /\ Returns(w)
    /\ UNCHANGED <<gate, round, art>>

\* The mesh is on the map: its card goes out.
Present(s) ==
    /\ gate[s] = "present"
    /\ Returns(s)
    /\ SetGate(s, "card")
    /\ UNCHANGED <<round, art>>

\* Mutant of Revised: the rounds are not counted.
AsksForever(s) ==
    /\ gate[s] = "revise" /\ job[s].at = "face"
    /\ SetGate(s, "present")
    /\ UNCHANGED <<round, atGate, recipe, mesh, face, note, adopted, journal, job, art, raced>>

\* A reply has been applied: the mesh is shown again, unless it was the last round.
Revised(s) ==
    /\ gate[s] = "revise" /\ job[s].at = "face"
    /\ IF round[s] < MaxRounds
       THEN /\ SetGate(s, "present")
            /\ round' = [round EXCEPT ![s] = @ + 1]
            /\ UNCHANGED <<atGate, job>>
       ELSE /\ Refuse(s)
            /\ job' = [job EXCEPT ![s] = Idle]
            /\ UNCHANGED round
    /\ UNCHANGED <<recipe, mesh, face, note, adopted, journal, art, raced>>

\* accept: the mesh is frozen.
Accept(s) ==
    /\ gate[s] = "accept"
    /\ Returns(s)
    /\ SetGate(s, "accepted")
    /\ art' = [art EXCEPT ![s] = {Freeze(s)}]
    /\ UNCHANGED round

\* The user proceeds: the gate closes and the mesh is accepted.
Proceed(s) ==
    /\ gate[s] = "card"
    /\ SetGate(s, "accept")
    /\ atGate' = NoSession
    /\ Begin(s, s)
    /\ UNCHANGED <<round, recipe, mesh, face, note, adopted, journal, art>>

\* The user declines, or nobody answers the card in time.
Decline(s) ==
    /\ gate[s] = "card"
    /\ Refuse(s)
    /\ UNCHANGED <<round, recipe, mesh, face, note, adopted, journal, job, art, raced>>

\* The reply resets the recipe: a hand edit goes, with everything else.
Reset(s) ==
    /\ gate[s] = "card"
    /\ SetGate(s, "revise")
    /\ recipe' = [recipe EXCEPT ![s] = Declared]
    /\ note' = [note EXCEPT ![s] = FALSE]
    /\ mesh' = [mesh EXCEPT ![s] = None]
    /\ face' = [face EXCEPT ![s] = None]
    /\ Begin(s, s)
    /\ UNCHANGED <<round, atGate, adopted, journal, art>>

\* The reply hands in a mesh edited by hand; adopt_layer first asks for the one it replaces.
Adopt(s) ==
    /\ gate[s] = "card"
    /\ SetGate(s, "adopt")
    /\ Begin(s, s)
    /\ UNCHANGED <<round, atGate, recipe, mesh, face, note, adopted, journal, art>>

(* The edited mesh takes its place, flagged and journalled.  A mesh without cells of its
   own, or a layer that cannot be read, is refused, and the refusal ends the review. *)
Replaced(s) ==
    /\ gate[s] = "adopt" /\ job[s].at = "face"
    /\ \/ /\ SetGate(s, "revise")
          /\ mesh' = [mesh EXCEPT ![s] = Hand]
          /\ face' = [face EXCEPT ![s] = None]
          /\ note' = [note EXCEPT ![s] = TRUE]
          /\ adopted' = [adopted EXCEPT ![s] = TRUE]
          /\ journal' = [journal EXCEPT ![s] = recipe[s]]
          /\ Goes(s, "ensure")
          /\ UNCHANGED atGate
       \/ /\ Refuse(s)
          /\ job' = [job EXCEPT ![s] = Idle]
          /\ UNCHANGED <<mesh, face, note, adopted, journal>>
    /\ UNCHANGED <<round, recipe, art, raced>>

(* The reply states another size.  After a hand edit it is refused, and the refusal
   ends the review. *)
Resize(s) ==
    /\ gate[s] = "card"
    /\ \E o \in Ops \ recipe[s] : Regenerate(s, s, recipe[s] \cup {o})
    /\ IF note[s] THEN Refuse(s) ELSE SetGate(s, "revise") /\ UNCHANGED atGate
    /\ UNCHANGED <<round, note, adopted, journal, art>>

Work(w) ==
    \/ Ensure(w) \/ Built(w) \/ BuildFails(w)
    \/ (w \in Sessions => gate[w] \notin {"revise", "adopt"}) /\ Face(w)
    \/ EditDone(w)
    \/ w \in Sessions /\ (Replaced(w) \/ Revised(w) \/ Present(w) \/ Accept(w))

Reply(s) == Proceed(s) \/ Decline(s) \/ Reset(s) \/ Adopt(s) \/ Resize(s)

Closed(s) == gate[s] \in {"accepted", "refused"}
AllClosed == (\A s \in Sessions : Closed(s)) /\ (\A w \in Threads : job[w] = Idle) /\ UNCHANGED meshVars

MeshNext ==
    \/ \E s \in Sessions : OpenGate(s) \/ Reply(s)
    \/ \E w \in Threads : MeshOp(w) \/ Work(w)
    \/ AllClosed

\* Threads run, a mesher returns or raises, and the time limit of a card runs out.
MeshFairness ==
    /\ \A w \in Threads : WF_meshVars(Work(w))
    /\ \A s \in Sessions : WF_meshVars(Decline(s))

MeshSpec == MeshInit /\ [][MeshNext]_meshVars /\ MeshFairness

-----------------------------------------------------------------------------
(* accept: "The RECIPE is frozen on as its provenance".  An accepted mesh is what
   that recipe builds, or is flagged as edited by hand, unless two threads met on it. *)
AcceptedIsItsRecipe ==
    \A s \in Sessions \ raced : \A a \in art[s] : a.mesh = IF a.note THEN Hand ELSE Build(a.recipe)

(* _display_face: "it can never answer for a dead mesh".  The display file frozen
   with a mesh shows that mesh, unless two threads met on it. *)
FaceIsTheMesh == \A s \in Sessions \ raced : \A a \in art[s] : a.face = a.mesh

(* The journal frozen with a mesh that was never edited by hand replays
   (replay_recipe) to that mesh, unless two threads met on it. *)
JournalReplays ==
    \A s \in Sessions \ raced : \A a \in art[s] : a.replays # Hand => a.replays = a.mesh

(* What accept freezes belongs together: the mesh, the recipe kept as its
   provenance, the display file and the journal that replays it. *)
AcceptedIsSound == AcceptedIsItsRecipe /\ FaceIsTheMesh /\ JournalReplays

(* "any later recipe edit refuses rather than regenerating the edit away": only a
   reset to the declared recipe replaces a mesh edited by hand. *)
HandEditStays ==
    [][\A s \in Sessions \ raced : mesh[s] = Hand /\ mesh'[s] # Hand =>
          recipe'[s] = Declared /\ ~note'[s]]_meshVars

(* A review ends, in a mesh or in a refusal, however many edits are made to its
   recipe meanwhile, if its mesher returns. *)
ReviewsEnd == \A s \in Sessions : gate[s] # "off" ~> Closed(s)
=============================================================================
