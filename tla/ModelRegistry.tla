---------------------------- MODULE ModelRegistry ----------------------------
(***************************************************************************)
(* Model versions: their rows in model_versions, which all processes       *)
(* share, and the scoring engine in the memory of each process.  An        *)
(* activation first commits the rows and then swaps the model of the       *)
(* process that serves its request; scores are computed meanwhile, with an *)
(* await between the choice of the version and its use.                    *)
(*                                                                         *)
(* UPDATE model_versions SET is_active = false has a snapshot: it waits    *)
(* for rows that another transaction holds and updates them as they are    *)
(* then, but rows inserted after it began are not in it.  What it does to  *)
(* the others shows when its transaction commits.                          *)
(***************************************************************************)
EXTENDS Naturals

CONSTANTS
  Processes,     \* API workers and Celery workers, each with an engine
  Api,           \* the ones that serve activations
  Activations,   \* activation requests
  Scorings,      \* scoring requests and scorer nodes
  Versions,
  Default,       \* settings.model_version
  DefaultFile,   \* settings.onnx_model_path; another version's path is named as the version
  MaxRestarts,   \* bound of the model: restarts of processes
  None

Files == Versions \cup {DefaultFile}

ASSUME RegistryAssumption ==
  /\ Api \subseteq Processes
  /\ Default \in Versions
  /\ DefaultFile \notin Versions
  /\ None \notin Files
  /\ Files \cap {"heuristic", "fallback"} = {}
  /\ MaxRestarts \in Nat

VARIABLES
  file,         \* what is at each path: chosen by Init, changed by no step
  registered,   \* versions that have a row
  active,       \* those whose row says is_active
  sessions,     \* per process, the file each version's session was loaded from
  engine,       \* _active_version of each process
  activation,   \* where each request is in activate_model_version
  wanted,       \* the version in its path
  place,        \* the process that serves it
  snapshot,     \* the rows its UPDATE sees
  scoring,      \* where each scoring is in score_transaction
  scorer,       \* the process it runs in
  chosen,       \* model_version as it chose it
  scoredBy,     \* what computed the score
  restarts,
  late          \* history: versions registered during another one's activation

registryVars   == <<file, registered, active, late>>
engineVars     == <<sessions, engine>>
activationVars == <<activation, wanted, place, snapshot>>
scoringVars    == <<scoring, scorer, chosen, scoredBy>>
vars == <<registryVars, engineVars, activationVars, scoringVars, restarts>>

-----------------------------------------------------------------------------
(* load_model.                                                             *)

Loads(path) == file[path] = "good"

\* Mutant: the version is made the active one before its file is looked for.
LoadMarksFirst(p, version, path) ==
  /\ sessions' = IF Loads(path) THEN [sessions EXCEPT ![p][version] = path] ELSE sessions
  /\ engine' = [engine EXCEPT ![p] = version]

\* A file that is missing or refused leaves the engine as it was.
Load(p, version, path) ==
  IF Loads(path)
  THEN /\ sessions' = [sessions EXCEPT ![p][version] = path]
       /\ engine' = [engine EXCEPT ![p] = version]
  ELSE UNCHANGED engineVars

\* The engine of a process that has just started: load_default.
FreshSessions == [v \in Versions |-> IF v = Default /\ Loads(DefaultFile) THEN DefaultFile ELSE None]
FreshVersion == IF Loads(DefaultFile) THEN Default ELSE None

Init ==
  /\ file \in [Files -> {"missing", "refused", "good"}]
  /\ registered = {}
  /\ active = {}
  /\ late = {}
  /\ sessions = [p \in Processes |-> FreshSessions]
  /\ engine = [p \in Processes |-> FreshVersion]
  /\ activation = [a \in Activations |-> "idle"]
  /\ wanted = [a \in Activations |-> None]
  /\ place = [a \in Activations |-> None]
  /\ snapshot = [a \in Activations |-> {}]
  /\ scoring = [s \in Scorings |-> "idle"]
  /\ scorer = [s \in Scorings |-> None]
  /\ chosen = [s \in Scorings |-> None]
  /\ scoredBy = [s \in Scorings |-> None]
  /\ restarts = 0

-----------------------------------------------------------------------------
(* register_model_version and activate_model_version.                      *)

\* The insert commits; a version that exists violates the primary key.
Register(v) ==
  /\ v \notin registered
  /\ registered' = registered \cup {v}
  /\ late' = IF \E a \in Activations : activation[a] = "updating" THEN late \cup {v} ELSE late
  /\ UNCHANGED <<file, active, engineVars, activationVars, scoringVars, restarts>>

\* The SELECT: 404 without a row.
Select(a, v, p) ==
  /\ activation[a] = "idle"
  /\ activation' = [activation EXCEPT ![a] = IF v \in registered THEN "selected" ELSE "not_found"]
  /\ wanted' = [wanted EXCEPT ![a] = v]
  /\ place' = [place EXCEPT ![a] = p]
  /\ UNCHANGED <<snapshot, registryVars, engineVars, scoringVars, restarts>>

\* Mutant: only the rows that are active by now are deactivated.
DeactivateKnown(a) ==
  /\ activation[a] = "selected"
  /\ activation' = [activation EXCEPT ![a] = "updating"]
  /\ snapshot' = [snapshot EXCEPT ![a] = active]
  /\ UNCHANGED <<wanted, place, registryVars, engineVars, scoringVars, restarts>>

\* The first UPDATE begins.
Deactivate(a) ==
  /\ activation[a] = "selected"
  /\ activation' = [activation EXCEPT ![a] = "updating"]
  /\ snapshot' = [snapshot EXCEPT ![a] = registered]
  /\ UNCHANGED <<wanted, place, registryVars, engineVars, scoringVars, restarts>>

\* The second UPDATE and the commit.
Commit(a) ==
  /\ activation[a] = "updating"
  /\ activation' = [activation EXCEPT ![a] = "committed"]
  /\ active' = (active \ snapshot[a]) \cup {wanted[a]}
  /\ UNCHANGED <<file, registered, late, wanted, place, snapshot, engineVars, scoringVars, restarts>>

\* The database fails or breaks a deadlock: the transaction rolls back.
Rollback(a) ==
  /\ activation[a] \in {"selected", "updating"}
  /\ activation' = [activation EXCEPT ![a] = "failed"]
  /\ UNCHANGED <<wanted, place, snapshot, registryVars, engineVars, scoringVars, restarts>>

\* Mutant: the model is swapped while the transaction is open.
SwapEarly(a) ==
  /\ activation[a] \in {"updating", "committed"}
  /\ Load(place[a], wanted[a], wanted[a])
  /\ activation' = [activation EXCEPT ![a] = IF @ = "committed" THEN "activated" ELSE "updating"]
  /\ UNCHANGED <<wanted, place, snapshot, registryVars, scoringVars, restarts>>

\* The model of this process is swapped.  A missing file is only logged, and the
\* answer is "activated" all the same; a file that is refused is a 500.
Swap(a) ==
  /\ activation[a] = "committed"
  /\ Load(place[a], wanted[a], wanted[a])
  /\ activation' = [activation EXCEPT ![a] = IF file[wanted[a]] = "refused" THEN "failed" ELSE "activated"]
  /\ UNCHANGED <<wanted, place, snapshot, registryVars, scoringVars, restarts>>

-----------------------------------------------------------------------------
(* score_transaction.                                                      *)

\* Mutant: no fallback to settings.model_version.
ChooseActive(s, p) ==
  /\ scoring[s] = "idle"
  /\ scoring' = [scoring EXCEPT ![s] = "extracting"]
  /\ scorer' = [scorer EXCEPT ![s] = p]
  /\ chosen' = [chosen EXCEPT ![s] = engine[p]]
  /\ UNCHANGED <<scoredBy, registryVars, engineVars, activationVars, restarts>>

\* The version is chosen before the features are awaited.
Choose(s, p) ==
  /\ scoring[s] = "idle"
  /\ scoring' = [scoring EXCEPT ![s] = "extracting"]
  /\ scorer' = [scorer EXCEPT ![s] = p]
  /\ chosen' = [chosen EXCEPT ![s] = IF engine[p] = None THEN Default ELSE engine[p]]
  /\ UNCHANGED <<scoredBy, registryVars, engineVars, activationVars, restarts>>

\* is_ready.
Ready(p) == engine[p] # None /\ sessions[p][engine[p]] # None

\* Mutant: the session of the version that is active by now computes the score.
InferWithActive(s) ==
  /\ scoring[s] = "extracting"
  /\ scoring' = [scoring EXCEPT ![s] = "scored"]
  /\ LET p == scorer[s]
     IN  scoredBy' = [scoredBy EXCEPT ![s] = IF Ready(p) THEN sessions[p][engine[p]] ELSE "heuristic"]
  /\ UNCHANGED <<scorer, chosen, registryVars, engineVars, activationVars, restarts>>

\* The session of the chosen version computes the score, or the heuristic, which
\* adds its name to the label.
Infer(s) ==
  /\ scoring[s] = "extracting"
  /\ scoring' = [scoring EXCEPT ![s] = "scored"]
  /\ LET p == scorer[s]
         session == sessions[p][chosen[s]]
     IN  scoredBy' = [scoredBy EXCEPT ![s] = IF Ready(p) /\ session # None THEN session ELSE "heuristic"]
  /\ UNCHANGED <<scorer, chosen, registryVars, engineVars, activationVars, restarts>>

\* Any exception: 0.5, labelled as a fallback.
InferenceFails(s) ==
  /\ scoring[s] = "extracting"
  /\ scoring' = [scoring EXCEPT ![s] = "scored"]
  /\ scoredBy' = [scoredBy EXCEPT ![s] = "fallback"]
  /\ UNCHANGED <<scorer, chosen, registryVars, engineVars, activationVars, restarts>>

-----------------------------------------------------------------------------
\* A process restarts: what it was doing is gone, and its engine has the default
\* model again, whatever the database says.
Restart(p) ==
  /\ restarts < MaxRestarts
  /\ restarts' = restarts + 1
  /\ sessions' = [sessions EXCEPT ![p] = FreshSessions]
  /\ engine' = [engine EXCEPT ![p] = FreshVersion]
  /\ activation' = [a \in Activations |->
                      IF place[a] = p /\ activation[a] \in {"selected", "updating", "committed"}
                      THEN "failed" ELSE activation[a]]
  /\ scoring' = [s \in Scorings |->
                   IF scorer[s] = p /\ scoring[s] = "extracting" THEN "lost" ELSE scoring[s]]
  /\ UNCHANGED <<registryVars, wanted, place, snapshot, scorer, chosen, scoredBy>>

\* Nothing is left to do but to wait for requests.
Waiting ==
  /\ \A a \in Activations : activation[a] \notin {"selected", "updating", "committed"}
  /\ \A s \in Scorings : scoring[s] # "extracting"
  /\ UNCHANGED vars

Next ==
  \/ \E v \in Versions : Register(v)
  \/ \E a \in Activations :
       \/ \E v \in Versions, p \in Api : Select(a, v, p)
       \/ Deactivate(a) \/ Commit(a) \/ Rollback(a) \/ Swap(a)
  \/ \E s \in Scorings :
       \/ \E p \in Processes : Choose(s, p)
       \/ Infer(s) \/ InferenceFails(s)
  \/ \E p \in Processes : Restart(p)
  \/ Waiting

Spec == Init /\ [][Next]_vars

-----------------------------------------------------------------------------
(* What the registry promises.                                             *)

\* The rows, the engines and the requests stay well formed; a scoring always has a
\* version to name, also in a process that has none loaded.
TypeOK ==
  /\ file \in [Files -> {"missing", "refused", "good"}]
  /\ registered \subseteq Versions
  /\ active \subseteq Versions
  /\ late \subseteq Versions
  /\ sessions \in [Processes -> [Versions -> Files \cup {None}]]
  /\ engine \in [Processes -> Versions \cup {None}]
  /\ activation \in [Activations -> {"idle", "not_found", "selected", "updating", "committed",
                                     "activated", "failed"}]
  /\ wanted \in [Activations -> Versions \cup {None}]
  /\ place \in [Activations -> Api \cup {None}]
  /\ snapshot \in [Activations -> SUBSET Versions]
  /\ scoring \in [Scorings -> {"idle", "extracting", "scored", "lost"}]
  /\ scorer \in [Scorings -> Processes \cup {None}]
  /\ chosen \in [Scorings -> Versions \cup {None}]
  /\ \A s \in Scorings : scoring[s] # "idle" => scorer[s] \in Processes /\ chosen[s] \in Versions
  /\ scoredBy \in [Scorings -> Files \cup {None, "heuristic", "fallback"}]
  /\ restarts \in 0..MaxRestarts

\* Concurrent activations leave one active version: two rows say is_active only
\* if one of them was registered while another activation was under way.
OneActive == \A u, v \in active : u = v \/ u \in late \/ v \in late

\* A score that names a version without a suffix was computed by that version's
\* model, whatever was swapped in while the features were fetched; the default
\* version's may come from the default path.
LabelNamesModel ==
  \A s \in Scorings : scoredBy[s] \in Files =>
    scoredBy[s] = chosen[s] \/ (chosen[s] = Default /\ scoredBy[s] = DefaultFile)

\* A process serves its default or a version for which the database recorded an
\* activation before: the swap comes after the commit.
ServedWasActivated ==
  \A p \in Processes : engine[p] \notin {None, Default} =>
    \E a \in Activations : /\ place[a] = p
                           /\ wanted[a] = engine[p]
                           /\ activation[a] = "activated"

\* Swapping never costs a process its model: once ready, only a restart, after which
\* the default file may not load, makes it fall back to the heuristic.
StaysReady ==
  [][\A p \in Processes : Ready(p) => Ready(p)' \/ restarts' # restarts]_vars

-----------------------------------------------------------------------------
(* The inductive invariant.                                                *)

\* What an activation's transaction has and has not seen.
ActivationsInv ==
  \A a \in Activations :
    /\ activation[a] # "idle" => wanted[a] \in Versions /\ place[a] \in Api
    /\ activation[a] = "updating" => registered \ snapshot[a] \subseteq late
    /\ activation[a] \in {"selected", "updating", "committed"} => wanted[a] \in registered

\* An engine's active version has a session, and every session is of its version.
EnginesInv ==
  \A p \in Processes :
    /\ engine[p] # None => sessions[p][engine[p]] # None
    /\ \A v \in Versions :
         sessions[p][v] \in {None, v} \/ (v = Default /\ sessions[p][v] = DefaultFile)

\* Nothing is scored before the features are there.
ScoringsInv == \A s \in Scorings : scoring[s] # "scored" => scoredBy[s] = None

IInv ==
  /\ TypeOK
  /\ active \subseteq registered
  /\ ActivationsInv
  /\ EnginesInv
  /\ ScoringsInv
  /\ OneActive
  /\ LabelNamesModel
  /\ ServedWasActivated
=============================================================================
