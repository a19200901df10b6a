------------------------- MODULE ModelRegistryProofs -------------------------
(***************************************************************************)
(* Safety of model activation for any processes, versions and requests,    *)
(* whatever is at the model paths.                                         *)
(***************************************************************************)
EXTENDS ModelRegistry, TLAPS

\* What load_model does to the engines: at most the session and the active version
\* of one process change, and only for a file that loads.
LEMMA LoadEffect ==
  ASSUME TypeOK, EnginesInv, NEW p \in Processes, NEW v \in Versions, Load(p, v, v)
  PROVE  /\ sessions' \in [Processes -> [Versions -> Files \cup {None}]]
         /\ engine' \in [Processes -> Versions \cup {None}]
         /\ \A q \in Processes \ {p} : sessions'[q] = sessions[q] /\ engine'[q] = engine[q]
         /\ \A u \in Versions \ {v} : sessions'[p][u] = sessions[p][u]
         /\ \/ sessions'[p][v] = v /\ engine'[p] = v /\ Loads(v)
            \/ sessions'[p][v] = sessions[p][v] /\ engine'[p] = engine[p]
<1> USE DEF TypeOK, Load, Files, engineVars
<1>1. CASE Loads(v)
  <2>1. /\ sessions' = [sessions EXCEPT ![p] = [sessions[p] EXCEPT ![v] = v]]
        /\ engine' = [engine EXCEPT ![p] = v]
    BY <1>1
  <2>2. [sessions[p] EXCEPT ![v] = v] \in [Versions -> Files \cup {None}]
    OBVIOUS
  <2> QED
    BY <1>1, <2>1, <2>2
<1>2. CASE ~Loads(v)
  BY <1>2
<1> QED
  BY <1>1, <1>2

\* The engine a process starts with has a session exactly for its version.
LEMMA FreshEffect ==
  /\ FreshSessions \in [Versions -> Files \cup {None}]
  /\ FreshVersion \in {None, Default}
  /\ FreshVersion # None => FreshSessions[FreshVersion] # None
  /\ \A v \in Versions : FreshSessions[v] \in {None, v} \/ (v = Default /\ FreshSessions[v] = DefaultFile)
BY RegistryAssumption DEF FreshSessions, FreshVersion, Files

-----------------------------------------------------------------------------
(* One lemma per conjunct of the inductive invariant.                      *)

\* Every step keeps the types; only Swap and Restart touch the engines.
LEMMA TypeStep == IInv /\ [Next]_vars => TypeOK'
<1> SUFFICES ASSUME IInv, [Next]_vars PROVE TypeOK'
  OBVIOUS
<1> USE RegistryAssumption DEF IInv, TypeOK, registryVars, engineVars, activationVars, scoringVars
<1>1. ASSUME NEW v \in Versions, Register(v) PROVE TypeOK'
  BY <1>1 DEF Register
<1>2. ASSUME NEW a \in Activations, NEW v \in Versions, NEW p \in Api, Select(a, v, p) PROVE TypeOK'
  BY <1>2 DEF Select
<1>3. ASSUME NEW a \in Activations, Deactivate(a) \/ Rollback(a) PROVE TypeOK'
  BY <1>3 DEF Deactivate, Rollback
<1>4. ASSUME NEW a \in Activations, Commit(a) PROVE TypeOK'
  BY <1>4 DEF Commit, ActivationsInv
<1>5. ASSUME NEW a \in Activations, Swap(a) PROVE TypeOK'
  <2>1. place[a] \in Processes /\ wanted[a] \in Versions
    BY <1>5 DEF Swap, ActivationsInv
  <2>2. /\ sessions' \in [Processes -> [Versions -> Files \cup {None}]]
        /\ engine' \in [Processes -> Versions \cup {None}]
    BY <1>5, <2>1, LoadEffect DEF Swap
  <2> QED
    BY <1>5, <2>2 DEF Swap
<1>6. ASSUME NEW s \in Scorings, NEW p \in Processes, Choose(s, p) PROVE TypeOK'
  BY <1>6 DEF Choose
<1>7. ASSUME NEW s \in Scorings, Infer(s) PROVE TypeOK'
  <2>1. scorer[s] \in Processes /\ chosen[s] \in Versions
    BY <1>7 DEF Infer
  <2>2. sessions[scorer[s]][chosen[s]] \in Files \cup {None}
    BY <2>1
  <2>3. scoredBy' \in [Scorings -> Files \cup {None, "heuristic", "fallback"}]
    BY <1>7, <2>2 DEF Infer
  <2> QED
    BY <1>7, <2>3 DEF Infer
<1>8. ASSUME NEW s \in Scorings, InferenceFails(s) PROVE TypeOK'
  BY <1>8 DEF InferenceFails
<1>9. ASSUME NEW p \in Processes, Restart(p) PROVE TypeOK'
  BY <1>9, FreshEffect DEF Restart
<1>10. CASE UNCHANGED vars
  BY <1>10 DEF vars
<1> QED
  BY <1>1, <1>2, <1>3, <1>4, <1>5, <1>6, <1>7, <1>8, <1>9, <1>10 DEF Next, Waiting

\* A transaction that has begun its UPDATE knows every row but those registered
\* since, which are late.
LEMMA ActivationsStep == IInv /\ [Next]_vars => ActivationsInv' /\ (active \subseteq registered)'
<1> SUFFICES ASSUME IInv, [Next]_vars PROVE ActivationsInv' /\ active' \subseteq registered'
  OBVIOUS
<1> USE DEF IInv, TypeOK, ActivationsInv, registryVars, activationVars
<1>1. ASSUME NEW v \in Versions, Register(v) PROVE ActivationsInv' /\ active' \subseteq registered'
  BY <1>1 DEF Register
<1>2. ASSUME NEW a \in Activations, NEW v \in Versions, NEW p \in Api, Select(a, v, p)
      PROVE  ActivationsInv' /\ active' \subseteq registered'
  BY <1>2 DEF Select
<1>3. ASSUME NEW a \in Activations, Deactivate(a) \/ Rollback(a) \/ Swap(a)
      PROVE  ActivationsInv' /\ active' \subseteq registered'
  BY <1>3 DEF Deactivate, Rollback, Swap
<1>4. ASSUME NEW a \in Activations, Commit(a) PROVE ActivationsInv' /\ active' \subseteq registered'
  BY <1>4 DEF Commit
<1>5. ASSUME NEW p \in Processes, Restart(p) PROVE ActivationsInv' /\ active' \subseteq registered'
  BY <1>5 DEF Restart
<1>6. CASE UNCHANGED <<registryVars, activationVars>>
  BY <1>6
<1> QED
  BY <1>1, <1>2, <1>3, <1>4, <1>5, <1>6 DEF Next, Waiting, vars, Choose, Infer, InferenceFails

\* A commit leaves active its own version and rows it did not see.
LEMMA OneActiveStep == IInv /\ [Next]_vars => OneActive'
<1> SUFFICES ASSUME IInv, [Next]_vars PROVE OneActive'
  OBVIOUS
<1> USE DEF IInv, TypeOK, OneActive, registryVars
<1>1. ASSUME NEW a \in Activations, Commit(a) PROVE OneActive'
  <2>1. active \ snapshot[a] \subseteq late
    BY <1>1 DEF Commit, ActivationsInv
  <2> QED
    BY <1>1, <2>1 DEF Commit
<1>2. ASSUME NEW v \in Versions, Register(v) PROVE OneActive'
  BY <1>2 DEF Register
<1>3. CASE UNCHANGED registryVars
  BY <1>3
<1> QED
  BY <1>1, <1>2, <1>3
     DEF Next, Waiting, vars, Select, Deactivate, Rollback, Swap, Choose, Infer, InferenceFails, Restart

\* Sessions stay those of their versions through swaps and restarts.
LEMMA EnginesStep == IInv /\ [Next]_vars => EnginesInv'
<1> SUFFICES ASSUME IInv, [Next]_vars PROVE EnginesInv'
  OBVIOUS
<1> USE RegistryAssumption DEF IInv, EnginesInv
<1>1. ASSUME NEW a \in Activations, Swap(a) PROVE EnginesInv'
  <2>1. place[a] \in Processes /\ wanted[a] \in Versions /\ wanted[a] # None
    BY <1>1 DEF Swap, ActivationsInv, Files, TypeOK
  <2> DEFINE p == place[a]
             v == wanted[a]
  <2>2. /\ \A q \in Processes \ {p} : sessions'[q] = sessions[q] /\ engine'[q] = engine[q]
        /\ \A u \in Versions \ {v} : sessions'[p][u] = sessions[p][u]
        /\ \/ sessions'[p][v] = v /\ engine'[p] = v
           \/ sessions'[p][v] = sessions[p][v] /\ engine'[p] = engine[p]
    BY <1>1, <2>1, LoadEffect DEF Swap
  <2>3. engine[p] \in Versions \cup {None}
    BY <2>1 DEF TypeOK
  <2> HIDE DEF p, v
  <2>4. v \in Versions /\ v # None /\ p \in Processes
    BY <2>1 DEF p, v
  <2> QED
    BY <2>2, <2>3, <2>4
<1>2. ASSUME NEW p \in Processes, Restart(p) PROVE EnginesInv'
  BY <1>2, FreshEffect DEF Restart, TypeOK
<1>3. CASE UNCHANGED engineVars
  BY <1>3 DEF engineVars
<1> QED
  BY <1>1, <1>2, <1>3
     DEF Next, Waiting, vars, engineVars, Register, Select, Deactivate, Commit, Rollback, Choose, Infer,
         InferenceFails

\* A score is computed by a session of the version it was labelled with when the
\* features were not yet there.
LEMMA LabelStep == IInv /\ [Next]_vars => LabelNamesModel'
<1> SUFFICES ASSUME IInv, [Next]_vars PROVE LabelNamesModel'
  OBVIOUS
<1> USE RegistryAssumption DEF IInv, TypeOK, LabelNamesModel, Files
<1>1. ASSUME NEW s \in Scorings, Infer(s) PROVE LabelNamesModel'
  <2>1. scorer[s] \in Processes /\ chosen[s] \in Versions
    BY <1>1 DEF Infer
  <2>2. \/ sessions[scorer[s]][chosen[s]] \in {None, chosen[s]}
        \/ chosen[s] = Default /\ sessions[scorer[s]][chosen[s]] = DefaultFile
    BY <2>1 DEF EnginesInv
  <2>3. scoredBy'[s] \in Files => \/ scoredBy'[s] = chosen[s]
                                  \/ chosen[s] = Default /\ scoredBy'[s] = DefaultFile
    BY <1>1, <2>2 DEF Infer
  <2> QED
    BY <1>1, <2>3 DEF Infer
<1>2. ASSUME NEW s \in Scorings, InferenceFails(s) PROVE LabelNamesModel'
  BY <1>2 DEF InferenceFails
<1>3. ASSUME NEW s \in Scorings, NEW p \in Processes, Choose(s, p) PROVE LabelNamesModel'
  <2>1. scoredBy[s] \notin Files
    BY <1>3 DEF Choose, ScoringsInv
  <2> QED
    BY <1>3, <2>1 DEF Choose
<1>4. CASE UNCHANGED <<chosen, scoredBy>>
  BY <1>4
<1> QED
  BY <1>1, <1>2, <1>3, <1>4
     DEF Next, Waiting, vars, scoringVars, Register, Select, Deactivate, Commit, Rollback, Swap, Restart

LEMMA ScoringsStep == IInv /\ [Next]_vars => ScoringsInv'
<1> SUFFICES ASSUME IInv, [Next]_vars PROVE ScoringsInv'
  OBVIOUS
<1> USE DEF IInv, TypeOK, ScoringsInv
<1>1. ASSUME NEW s \in Scorings, Infer(s) \/ InferenceFails(s) PROVE ScoringsInv'
  BY <1>1 DEF Infer, InferenceFails
<1>2. ASSUME NEW s \in Scorings, NEW p \in Processes, Choose(s, p) PROVE ScoringsInv'
  BY <1>2 DEF Choose
<1>3. ASSUME NEW p \in Processes, Restart(p) PROVE ScoringsInv'
  BY <1>3 DEF Restart
<1>4. CASE UNCHANGED scoringVars
  BY <1>4 DEF scoringVars
<1> QED
  BY <1>1, <1>2, <1>3, <1>4
     DEF Next, Waiting, vars, Register, Select, Deactivate, Commit, Rollback, Swap

\* What a process serves was activated in it, and an activation stays activated.
LEMMA ServedStep == IInv /\ [Next]_vars => ServedWasActivated'
<1> SUFFICES ASSUME IInv, [Next]_vars,
                    NEW p \in Processes, engine'[p] \notin {None, Default}
             PROVE  \E a \in Activations : /\ place'[a] = p
                                           /\ wanted'[a] = engine'[p]
                                           /\ activation'[a] = "activated"
  BY DEF ServedWasActivated
<1> USE RegistryAssumption DEF IInv, TypeOK
<1>1. ASSUME engine'[p] = engine[p],
             \A a \in Activations : activation[a] = "activated" =>
               activation'[a] = "activated" /\ place'[a] = place[a] /\ wanted'[a] = wanted[a]
      PROVE  \E a \in Activations : /\ place'[a] = p
                                    /\ wanted'[a] = engine'[p]
                                    /\ activation'[a] = "activated"
  <2>1. PICK a \in Activations : place[a] = p /\ wanted[a] = engine[p] /\ activation[a] = "activated"
    BY <1>1 DEF ServedWasActivated
  <2> QED
    BY <1>1, <2>1
<1>2. ASSUME NEW b \in Activations, Swap(b)
      PROVE  \E a \in Activations : /\ place'[a] = p
                                    /\ wanted'[a] = engine'[p]
                                    /\ activation'[a] = "activated"
  <2>1. place[b] \in Processes /\ wanted[b] \in Versions
    BY <1>2 DEF Swap, ActivationsInv
  <2>2. CASE engine'[p] = engine[p]
    BY <1>1, <1>2, <2>2 DEF Swap
  <2>3. CASE engine'[p] # engine[p]
    <3>1. p = place[b] /\ engine'[p] = wanted[b] /\ file[wanted[b]] = "good"
      BY <1>2, <2>1, <2>3, LoadEffect DEF Swap, Loads
    <3> QED
      BY <1>2, <3>1 DEF Swap
  <2> QED
    BY <2>2, <2>3
<1>3. ASSUME NEW q \in Processes, Restart(q)
      PROVE  \E a \in Activations : /\ place'[a] = p
                                    /\ wanted'[a] = engine'[p]
                                    /\ activation'[a] = "activated"
  <2>1. engine'[p] = engine[p]
    BY <1>3, FreshEffect DEF Restart
  <2> QED
    BY <1>1, <1>3, <2>1 DEF Restart
<1>4. ASSUME NEW b \in Activations, NEW v \in Versions, NEW q \in Api, Select(b, v, q)
      PROVE  \E a \in Activations : /\ place'[a] = p
                                    /\ wanted'[a] = engine'[p]
                                    /\ activation'[a] = "activated"
  BY <1>1, <1>4 DEF Select, engineVars
<1>5. ASSUME NEW b \in Activations, Deactivate(b) \/ Commit(b) \/ Rollback(b)
      PROVE  \E a \in Activations : /\ place'[a] = p
                                    /\ wanted'[a] = engine'[p]
                                    /\ activation'[a] = "activated"
  BY <1>1, <1>5 DEF Deactivate, Commit, Rollback, engineVars
<1>6. CASE UNCHANGED <<engineVars, activationVars>>
  BY <1>1, <1>6 DEF engineVars, activationVars
<1> QED
  BY <1>2, <1>3, <1>4, <1>5, <1>6
     DEF Next, Waiting, vars, Register, Choose, Infer, InferenceFails

\* Swapping keeps a session for the active version.
LEMMA ReadyStep ==
  IInv /\ [Next]_vars => \A p \in Processes : Ready(p) => Ready(p)' \/ restarts' # restarts
<1> SUFFICES ASSUME IInv, [Next]_vars, NEW p \in Processes, Ready(p), restarts' = restarts
           PROVE  Ready(p)'
  OBVIOUS
<1> USE RegistryAssumption DEF IInv, TypeOK
<1>1. CASE UNCHANGED engineVars
  BY <1>1 DEF engineVars, Ready
<1>2. ASSUME NEW a \in Activations, Swap(a) PROVE Ready(p)'
  <2>1. place[a] \in Processes /\ wanted[a] \in Versions /\ wanted[a] # None
    BY <1>2 DEF Swap, ActivationsInv, Files
  <2>2. /\ \A q \in Processes \ {place[a]} : sessions'[q] = sessions[q] /\ engine'[q] = engine[q]
        /\ \A u \in Versions \ {wanted[a]} : sessions'[place[a]][u] = sessions[place[a]][u]
        /\ \/ sessions'[place[a]][wanted[a]] = wanted[a] /\ engine'[place[a]] = wanted[a]
           \/ /\ sessions'[place[a]][wanted[a]] = sessions[place[a]][wanted[a]]
              /\ engine'[place[a]] = engine[place[a]]
    BY <1>2, <2>1, LoadEffect DEF Swap
  <2>3. engine[p] \in Versions
    BY DEF Ready
  <2> QED
    BY <2>1, <2>2, <2>3 DEF Ready
<1>3. ASSUME NEW q \in Processes, Restart(q) PROVE FALSE
  BY <1>3 DEF Restart
<1> QED
  BY <1>1, <1>2, <1>3
     DEF Next, Waiting, vars, engineVars, Register, Select, Deactivate, Commit, Rollback, Choose,
         Infer, InferenceFails

-----------------------------------------------------------------------------
(* The theorems.                                                           *)

\* The invariant holds in every reachable state.
THEOREM Invariance == Spec => []IInv
<1>1. Init => IInv
  <2> SUFFICES ASSUME Init PROVE IInv
    OBVIOUS
  <2> USE RegistryAssumption DEF Init
  <2>1. TypeOK
    BY FreshEffect DEF TypeOK
  <2>2. ActivationsInv /\ ScoringsInv /\ OneActive /\ active \subseteq registered
    BY DEF ActivationsInv, ScoringsInv, OneActive
  <2>3. EnginesInv
    BY FreshEffect DEF EnginesInv
  <2>4. LabelNamesModel
    BY DEF LabelNamesModel, Files
  <2>5. ServedWasActivated
    BY FreshEffect DEF ServedWasActivated
  <2> QED
    BY <2>1, <2>2, <2>3, <2>4, <2>5 DEF IInv
<1>2. IInv /\ [Next]_vars => IInv'
  BY TypeStep, ActivationsStep, OneActiveStep, EnginesStep, ScoringsStep, LabelStep, ServedStep DEF IInv
<1> QED
  BY <1>1, <1>2, PTL DEF Spec

\* Every reachable state is well formed, and a scoring has a version to name.
THEOREM TypeCorrect == Spec => []TypeOK
BY Invariance, PTL DEF IInv

\* Two versions are active at once only if one was registered during the other's
\* activation.
THEOREM OneActiveVersion == Spec => []OneActive
BY Invariance, PTL DEF IInv

\* A label without a suffix names the model that computed the score.
THEOREM LabelsNameModels == Spec => []LabelNamesModel
BY Invariance, PTL DEF IInv

\* A process never serves a version whose activation was not committed.
THEOREM ServedAfterActivation == Spec => []ServedWasActivated
BY Invariance, PTL DEF IInv

\* Only a restart can cost a process its model.
THEOREM SwapsKeepReady == Spec => StaysReady
<1>1. IInv /\ [Next]_vars =>
        [\A p \in Processes : Ready(p) => Ready(p)' \/ restarts' # restarts]_vars
  BY ReadyStep
<1> QED
  BY <1>1, Invariance, PTL DEF Spec, StaysReady
=============================================================================
