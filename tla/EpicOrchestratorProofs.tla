---------------------- MODULE EpicOrchestratorProofs ----------------------
(* What holds of the epic orchestrator for every set of repositories. *)
EXTENDS EpicOrchestrator, TLAPS

\* The part of the invariant that is about what ran (ch) and what it came to
\* (res): it must hold of the intermediate results of a scheduler turn too.
Sound(ch, res) ==
  /\ ch \in [Repo -> Child]
  /\ res \in [Repo -> Result]
  /\ \A r \in Repo : (ch[r] # "idle" \/ res[r] # "none") => r \in repos
  /\ \A r \in Repo : ch[r] # "idle" => deps[r] \subseteq Succeeded(res)
  /\ \A r \in Repo : /\ (res[r] \in {"SUCCESS", "FAILED"}) <=> (ch[r] = "settled")
                     /\ res[r] = "SKIPPED" => ch[r] = "idle"
  /\ \A r \in Repo : res[r] = "SKIPPED" =>
       \E d \in deps[r] : d \notin repos \/ res[d] \in {"FAILED", "SKIPPED"}

\* Where the workflow stands bounds what its variables can hold: nothing has
\* started before the loop, and what still runs is what the loop waits for.
Control ==
  /\ phase \in {"new", "planning", "planned"} =>
       \A r \in Repo : child[r] = "idle" /\ results[r] = "none"
  /\ \A r \in Repo : Live(r) => r \in inFlight
  /\ \A r \in inFlight : child[r] # "idle"
  /\ phase \in {"ending", "returned"} => inFlight = {}

\* The verdict was true when the loop was left, and nothing it reads changes.
VerdictHolds ==
  phase \in {"ending", "returned"} =>
    /\ verdict \in {"SUCCESS", "FAILED", "CANCELLED"}
    /\ verdict = "SUCCESS" => repos # {} /\ \A r \in repos : results[r] = "SUCCESS"
    /\ verdict = "FAILED" => /\ \A r \in repos : results[r] # "none"
                             /\ repos = {} \/ \E r \in repos : results[r] # "SUCCESS"
    /\ verdict = "CANCELLED" => cancelled
    /\ phase = "returned" => domain = DomainStatus(verdict)

IInv == TypeOK /\ Sound(child, results) /\ Control /\ VerdictHolds

-----------------------------------------------------------------------------
(* The transitive dependents of a repository.                              *)

\* What depends on d, or on a dependent of d, is a dependent of d.
LEMMA DependentsClosed ==
  ASSUME NEW d, NEW x \in repos, x # d,
         NEW y \in deps[x], y = d \/ y \in Dependents(d)
  PROVE  x \in Dependents(d)
BY DEF Dependents, ClosedUnder

\* A dependent of d waits for d or for another dependent of d: there is always
\* an edge to blame.
LEMMA DependentsHaveCause ==
  ASSUME NEW d, NEW x \in Dependents(d)
  PROVE  \E y \in deps[x] : y = d \/ y \in Dependents(d)
<1> DEFINE S == {z \in repos : \E y \in deps[z] : y = d \/ y \in Dependents(d)}
<1>1. ASSUME NEW z \in repos \ {d}, NEW e \in deps[z], e = d \/ e \in S
      PROVE  z \in S
  <2>1. CASE e = d
    BY <1>1, <2>1
  <2>2. CASE e # d /\ e \in S
    BY <1>1, <2>2, DependentsClosed
  <2> QED BY <1>1, <2>1, <2>2
<1>2. ClosedUnder(S, d)
  BY <1>1 DEF ClosedUnder
<1>3. S \in SUBSET repos
  OBVIOUS
<1>4. x \in S
  BY <1>2, <1>3 DEF Dependents
<1> QED BY <1>4

\* No dependent of a repository that did not succeed was ever started.
LEMMA DependentsIdle ==
  ASSUME repos \in SUBSET Repo, deps \in [Repo -> SUBSET Repo],
         NEW res, Sound(child, res),
         NEW d \in Repo, res[d] # "SUCCESS", NEW x \in Dependents(d)
  PROVE  child[x] = "idle"
<1> DEFINE S == {z \in repos : child[z] = "idle"}
<1>1. ASSUME NEW z \in repos \ {d}, NEW e \in deps[z], e = d \/ e \in S
      PROVE  child[z] = "idle"
  <2>1. e \in Repo /\ z \in Repo
    OBVIOUS
  <2>2. ASSUME child[z] # "idle" PROVE FALSE
    <3>1. res[e] = "SUCCESS"
      BY <2>1, <2>2 DEF Sound, Succeeded
    <3>2. child[e] = "settled"
      BY <2>1, <3>1 DEF Sound
    <3> QED BY <1>1, <3>1, <3>2
  <2> QED BY <2>2
<1>2. ClosedUnder(S, d)
  BY <1>1 DEF ClosedUnder
<1> QED BY <1>2 DEF Dependents

-----------------------------------------------------------------------------
(* Skipping keeps the results sound.                                       *)

\* Passing over repositories that never started, each with a cause after the
\* skip, keeps child and results sound.
LEMMA SkipSound ==
  ASSUME NEW res, Sound(child, res), NEW T \in SUBSET repos, repos \in SUBSET Repo,
         deps \in [Repo -> SUBSET Repo],
         \A r \in T : res[r] = "none" =>
           /\ child[r] = "idle"
           /\ \E d \in deps[r] : d \notin repos \/ Skip(res, T)[d] \in {"FAILED", "SKIPPED"}
  PROVE  Sound(child, Skip(res, T))
<1> DEFINE new == Skip(res, T)
<1>1. new \in [Repo -> Result]
  BY DEF Sound, Skip, Result
<1>2. \A r \in Repo : new[r] = IF r \in T /\ res[r] = "none" THEN "SKIPPED" ELSE res[r]
  BY DEF Skip
<1>3. \A r \in Repo : (child[r] # "idle" \/ new[r] # "none") => r \in repos
  BY <1>2 DEF Sound
<1>4. Succeeded(new) = Succeeded(res)
  BY <1>2 DEF Succeeded
<1>5. \A r \in Repo : child[r] # "idle" => deps[r] \subseteq Succeeded(new)
  BY <1>4 DEF Sound
<1>6. \A r \in Repo : /\ (new[r] \in {"SUCCESS", "FAILED"}) <=> (child[r] = "settled")
                      /\ new[r] = "SKIPPED" => child[r] = "idle"
  BY <1>2 DEF Sound
<1>7. ASSUME NEW r \in Repo, new[r] = "SKIPPED"
      PROVE  \E d \in deps[r] : d \notin repos \/ new[d] \in {"FAILED", "SKIPPED"}
  <2>1. CASE r \in T /\ res[r] = "none"
    BY <2>1
  <2>2. CASE ~(r \in T /\ res[r] = "none")
    <3>1. res[r] = "SKIPPED"
      BY <1>2, <1>7, <2>2
    <3>2. PICK d \in deps[r] : d \notin repos \/ res[d] \in {"FAILED", "SKIPPED"}
      BY <3>1 DEF Sound
    <3>3. d \in Repo
      BY <3>2
    <3> QED BY <1>2, <3>2, <3>3
  <2> QED BY <2>1, <2>2
<1>8. child \in [Repo -> Child]
  BY DEF Sound
<1> HIDE DEF new
<1>9. Sound(child, new)
  BY <1>1, <1>3, <1>5, <1>6, <1>7, <1>8 DEF Sound
<1> QED BY <1>9 DEF new

\* skipDependentsOf, for each repository D of a turn, keeps them sound.
LEMMA SkipDependentsSound ==
  ASSUME repos \in SUBSET Repo, deps \in [Repo -> SUBSET Repo],
         NEW res, Sound(child, res),
         NEW D \in SUBSET Repo, \A r \in D : child[r] = "settled"
  PROVE  Sound(child, SkipDependentsOf(res, D))
<1> DEFINE B == {x \in D : res[x] # "SUCCESS"}
           T == UNION {Dependents(d) : d \in B}
<1>1. T \in SUBSET repos
  BY DEF Dependents
<1>2. ASSUME NEW r \in T, res[r] = "none"
      PROVE  /\ child[r] = "idle"
             /\ \E d \in deps[r] : d \notin repos \/ Skip(res, T)[d] \in {"FAILED", "SKIPPED"}
  <2>1. PICK d \in B : r \in Dependents(d)
    OBVIOUS
  <2>2. d \in Repo /\ res[d] # "SUCCESS" /\ child[d] = "settled"
    BY <2>1
  <2>3. res[d] = "FAILED"
    BY <2>2 DEF Sound
  <2>4. child[r] = "idle"
    BY <2>1, <2>2, DependentsIdle
  <2>5. PICK y \in deps[r] : y = d \/ y \in Dependents(d)
    BY <2>1, DependentsHaveCause
  <2>6. r \in Repo /\ y \in Repo
    BY <1>1, <2>5
  <2>7. CASE y = d
    <3>1. Skip(res, T)[y] = "FAILED"
      BY <2>3, <2>6, <2>7 DEF Skip
    <3> QED BY <2>4, <2>5, <3>1
  <2>8. CASE y \in Dependents(d)
    <3>1. child[y] = "idle"
      BY <2>2, <2>8, DependentsIdle
    <3>2. res[y] \in {"none", "SKIPPED"}
      BY <2>6, <3>1 DEF Sound, Result
    <3>3. y \in T
      BY <2>1, <2>8
    <3>4. Skip(res, T)[y] = "SKIPPED"
      BY <2>6, <3>2, <3>3 DEF Skip
    <3> QED BY <2>4, <2>5, <3>4
  <2> QED BY <2>5, <2>7, <2>8
<1> HIDE DEF T
<1>3. Sound(child, Skip(res, T))
  BY <1>1, <1>2, SkipSound
<1> QED BY <1>3 DEF SkipDependentsOf, T

-----------------------------------------------------------------------------
(* A turn of the scheduling loop.                                          *)

\* Starting what is ready keeps child and results sound.
LEMMA StartSound ==
  ASSUME repos \in SUBSET Repo, deps \in [Repo -> SUBSET Repo],
         NEW res, Sound(child, res), NEW go \in SUBSET Ready(res)
  PROVE  Sound([r \in Repo |-> IF r \in go THEN "resolving" ELSE child[r]], res)
<1> DEFINE new == [r \in Repo |-> IF r \in go THEN "resolving" ELSE child[r]]
<1>1. new \in [Repo -> Child] /\ res \in [Repo -> Result]
  BY DEF Sound, Child
<1>2. \A r \in go : /\ r \in repos /\ child[r] = "idle" /\ res[r] = "none"
                    /\ deps[r] \subseteq Succeeded(res)
  BY DEF Ready
<1>3. \A r \in Repo : new[r] = IF r \in go THEN "resolving" ELSE child[r]
  OBVIOUS
<1> HIDE DEF new
<1>4. Sound(new, res)
  BY <1>1, <1>2, <1>3 DEF Sound
<1> QED BY <1>4 DEF new

\* Leaving the loop, what is not ready and not finished has a dependency that
\* did not succeed and, after the skip, never will.
LEMMA SkipUnreachableSound ==
  ASSUME repos \in SUBSET Repo, deps \in [Repo -> SUBSET Repo],
         NEW res, Sound(child, res), Ready(res) = {}, \A r \in Repo : ~Live(r)
  PROVE  Sound(child, Skip(res, repos))
<1>1. ASSUME NEW r \in repos, res[r] = "none"
      PROVE  /\ child[r] = "idle"
             /\ \E d \in deps[r] : d \notin repos \/ Skip(res, repos)[d] \in {"FAILED", "SKIPPED"}
  <2>1. r \in Repo /\ child[r] \in Child
    BY DEF Sound
  <2>2. child[r] = "idle"
    BY <1>1, <2>1 DEF Sound, Live, Child
  <2>3. PICK d \in deps[r] : d \notin Succeeded(res)
    BY <1>1, <2>2 DEF Ready
  <2>4. d \in Repo
    BY <2>1, <2>3
  <2>5. CASE d \in repos
    <3>1. res[d] \in {"none", "FAILED", "SKIPPED"}
      BY <2>3, <2>4 DEF Succeeded, Sound, Result
    <3>2. Skip(res, repos)[d] \in {"FAILED", "SKIPPED"}
      BY <2>4, <2>5, <3>1 DEF Skip
    <3> QED BY <2>2, <2>3, <3>2
  <2> QED BY <2>2, <2>3, <2>5
<1> QED BY <1>1, SkipSound

\* A turn taken from sound results, with everything live among what the loop
\* still waits for, leads to a state the invariant holds in.
LEMMA TurnPreserves ==
  ASSUME TypeOK, NEW res, Sound(child, res),
         NEW flying \in SUBSET repos,
         \A r \in Repo : Live(r) => r \in flying,
         \A r \in flying : child[r] # "idle",
         UNCHANGED <<request, cancelled>>,
         domain' \in {domain, "FANNING_OUT"},
         Turn(res, flying)
  PROVE  IInv'
<1> DEFINE go == IF cancelled THEN {} ELSE Ready(res)
<1>1. repos \in SUBSET Repo /\ deps \in [Repo -> SUBSET Repo] /\ cancelled \in BOOLEAN
  BY DEF TypeOK
<1>2. repos' = repos /\ deps' = deps /\ cancelled' = cancelled
  BY DEF request
<1>3. go \in SUBSET Ready(res) /\ go \in SUBSET repos
  BY DEF Ready
<1>4. /\ inFlight' = flying \cup go
      /\ child' = [r \in Repo |-> IF r \in go THEN "resolving" ELSE child[r]]
  BY DEF Turn
<1>5. Sound(child', res)
  BY <1>1, <1>3, <1>4, StartSound
<1>6. Sound(child', results')
  <2>1. CASE flying \cup go # {} \/ cancelled
    <3>1. results' = res
      BY <2>1 DEF Turn
    <3> QED BY <1>5, <3>1
  <2>2. CASE flying \cup go = {} /\ ~cancelled
    <3>1. results' = Skip(res, repos)
      BY <2>2 DEF Turn
    <3>2. child' = child
      BY <1>4, <2>2 DEF Sound
    <3>3. Ready(res) = {} /\ \A r \in Repo : ~Live(r)
      BY <2>2
    <3> QED BY <1>1, <3>1, <3>2, <3>3, SkipUnreachableSound
  <2> QED BY <2>1, <2>2
<1>7. (Sound(child, results))'
  BY <1>2, <1>6 DEF Sound, Succeeded
<1>8. phase' \in {"scheduling", "ending"}
  BY DEF Turn
<1>9. verdict' \in {"none", "SUCCESS", "FAILED", "CANCELLED"}
  BY DEF Turn, Outcome, TypeOK
<1>10. TypeOK'
  BY <1>3, <1>4, <1>6, <1>8, <1>9 DEF TypeOK, request, Phase, Sound
<1>11. Control'
  <2>1. ASSUME NEW r \in Repo PROVE Live(r)' => r \in inFlight'
    BY <1>4 DEF Live
  <2>2. ASSUME NEW r \in inFlight' PROVE child'[r] # "idle"
    BY <1>1, <1>3, <1>4, <2>2
  <2>3. phase' = "ending" => inFlight' = {}
    BY DEF Turn
  <2> QED BY <1>8, <2>1, <2>2, <2>3 DEF Control
<1>12. VerdictHolds'
  <2>1. SUFFICES ASSUME phase' = "ending" PROVE VerdictHolds'
    BY <1>8 DEF VerdictHolds
  <2>2. verdict' = Outcome(results') /\ flying \cup go = {}
    BY <2>1 DEF Turn
  <2>3. CASE cancelled
    BY <1>2, <2>1, <2>2, <2>3 DEF Outcome, VerdictHolds
  <2>4. CASE ~cancelled
    <3>1. results' = Skip(res, repos)
      BY <2>2, <2>4 DEF Turn
    <3>2. \A r \in repos : results'[r] # "none"
      BY <1>1, <3>1 DEF Skip
    <3>3. verdict' = IF AllSuccess(results') THEN "SUCCESS" ELSE "FAILED"
      BY <2>2, <2>4 DEF Outcome
    <3> QED BY <1>2, <2>1, <3>2, <3>3 DEF AllSuccess, VerdictHolds
  <2> QED BY <1>1, <2>3, <2>4
<1> QED BY <1>7, <1>10, <1>11, <1>12 DEF IInv

-----------------------------------------------------------------------------
(* The invariant.                                                          *)

\* A repository's result is recorded exactly when its child settles.
LEMMA SettlePreserves ==
  ASSUME IInv, NEW r \in Repo, NEW v \in {"SUCCESS", "FAILED"},
         phase = "scheduling", Live(r), SettleAs(r, v)
  PROVE  IInv'
<1> USE DEF IInv
<1>1. /\ child' = [child EXCEPT ![r] = "settled"]
      /\ results' = [results EXCEPT ![r] = v]
      /\ UNCHANGED <<phase, request, cancelled, inFlight, verdict, domain>>
  BY DEF SettleAs
<1>2. UNCHANGED <<repos, deps, wantsPlan, eventDriven, cancelsScope>>
  BY <1>1 DEF request
<1>3. results[r] = "none" /\ r \in repos
  BY DEF Sound, Live, Result
<1>4. \A x \in Repo : /\ child'[x] = IF x = r THEN "settled" ELSE child[x]
                      /\ results'[x] = IF x = r THEN v ELSE results[x]
  BY <1>1 DEF Sound
<1>5. TypeOK'
  BY <1>1, <1>2 DEF TypeOK, Child, Result
<1>6. Succeeded(results) \subseteq Succeeded(results')
  BY <1>3, <1>4 DEF Succeeded
<1>7. \A x \in Repo : child'[x] # "idle" => child[x] # "idle"
  BY <1>4 DEF Live
<1>8. Sound(child', results')
  <2>1. \A x \in Repo : (child'[x] # "idle" \/ results'[x] # "none") => x \in repos
    BY <1>3, <1>4 DEF Sound
  <2>2. \A x \in Repo : child'[x] # "idle" => deps[x] \subseteq Succeeded(results')
    BY <1>6, <1>7 DEF Sound
  <2>3. \A x \in Repo : /\ (results'[x] \in {"SUCCESS", "FAILED"}) <=> (child'[x] = "settled")
                        /\ results'[x] = "SKIPPED" => child'[x] = "idle"
    BY <1>4 DEF Sound
  <2>4. ASSUME NEW x \in Repo, results'[x] = "SKIPPED"
        PROVE  \E d \in deps[x] : d \notin repos \/ results'[d] \in {"FAILED", "SKIPPED"}
    <3>1. PICK d \in deps[x] : d \notin repos \/ results[d] \in {"FAILED", "SKIPPED"}
      BY <1>4, <2>4 DEF Sound
    <3>2. d \in Repo
      BY <3>1 DEF TypeOK
    <3> QED BY <1>3, <1>4, <3>1, <3>2
  <2>5. child' \in [Repo -> Child] /\ results' \in [Repo -> Result]
    BY <1>5 DEF TypeOK
  <2> QED BY <2>1, <2>2, <2>3, <2>4, <2>5 DEF Sound
<1>9. Sound(child, results)'
  BY <1>2, <1>8 DEF Sound, Succeeded
<1>10. Control'
  BY <1>1, <1>4, <1>7 DEF Control, Live
<1>11. VerdictHolds'
  BY <1>1 DEF VerdictHolds
<1> QED BY <1>5, <1>9, <1>10, <1>11

\* A failing status write closes the workflow and leaves the rest alone.
LEMMA WriteFailsPreserves ==
  ASSUME IInv,
         NEW st \in {"PLANNING", "FANNING_OUT", "COMPLETED", "FAILED", "CANCELLED"},
         WriteFails(st)
  PROVE  IInv'
<1>1. /\ UNCHANGED <<repos, deps, wantsPlan, eventDriven, cancelsScope>>
      /\ UNCHANGED <<cancelled, child, inFlight, results, verdict>>
      /\ phase' = "threw" /\ domain' \in {domain, st}
  BY DEF WriteFails, request
<1>2. TypeOK'
  BY <1>1 DEF IInv, TypeOK, Phase
<1>3. Sound(child, results)'
  BY <1>1 DEF IInv, Sound, Succeeded
<1>4. Control' /\ VerdictHolds'
  BY <1>1 DEF IInv, Control, VerdictHolds, Live
<1> QED BY <1>2, <1>3, <1>4 DEF IInv

\* A graph arriving before anything started keeps everything: nothing ran.
LEMMA NothingRanSound ==
  ASSUME child \in [Repo -> Child], results \in [Repo -> Result],
         \A r \in Repo : child[r] = "idle" /\ results[r] = "none"
  PROVE  Sound(child, results)
BY DEF Sound

\* The initial states satisfy the invariant.
LEMMA InitInvariant == Init => IInv
<1> SUFFICES ASSUME Init PROVE IInv
  OBVIOUS
<1>1. TypeOK
  BY DEF Init, TypeOK, Phase, Child, Result, Graphs
<1>2. \A r \in Repo : child[r] = "idle" /\ results[r] = "none"
  BY DEF Init
<1>3. Sound(child, results)
  BY <1>1, <1>2, NothingRanSound DEF TypeOK
<1>4. Control /\ VerdictHolds
  BY <1>2 DEF Init, Control, VerdictHolds, Live
<1> QED BY <1>1, <1>3, <1>4 DEF IInv

\* Every step keeps the invariant.
LEMMA NextInvariant == IInv /\ [Next]_vars => IInv'
<1> SUFFICES ASSUME IInv, [Next]_vars PROVE IInv'
  OBVIOUS
<1> USE DEF IInv
<1>1. CASE StartPlanning
  <2>1. CASE WriteFails("PLANNING")
    BY <2>1, WriteFailsPreserves
  <2>2. CASE /\ phase = "new" /\ domain' = "PLANNING" /\ phase' = "planning"
             /\ UNCHANGED <<request, cancelled, child, inFlight, results, verdict>>
    <3>1. UNCHANGED <<repos, deps, wantsPlan, eventDriven, cancelsScope>>
      BY <2>2 DEF request
    <3>2. TypeOK' /\ Control' /\ VerdictHolds'
      BY <2>2, <3>1 DEF TypeOK, Phase, Control, VerdictHolds, Live
    <3>3. Sound(child, results)'
      BY <2>2, <3>1 DEF Sound, Succeeded
    <3> QED BY <3>2, <3>3
  <2> QED BY <1>1, <2>1, <2>2 DEF StartPlanning
<1>2. CASE PlanEpic
  <2>1. /\ phase = "planning" /\ phase' \in {"planned", "threw"}
        /\ UNCHANGED <<wantsPlan, eventDriven, cancelsScope, cancelled, child, inFlight,
                       results, verdict, domain>>
    BY <1>2 DEF PlanEpic
  <2>2. repos' \in SUBSET Repo /\ deps' \in [Repo -> SUBSET Repo]
    BY <1>2 DEF PlanEpic, TypeOK
  <2>3. \A r \in Repo : child[r] = "idle" /\ results[r] = "none"
    BY <2>1 DEF Control
  <2>4. inFlight = {}
    BY <2>3 DEF Control, TypeOK
  <2>5. TypeOK'
    BY <2>1, <2>2, <2>4 DEF TypeOK, Phase
  <2>6. Sound(child, results)'
    BY <2>1, <2>3, <2>5 DEF Sound, TypeOK
  <2>7. Control' /\ VerdictHolds'
    BY <2>1, <2>3, <2>4 DEF Control, VerdictHolds, Live
  <2> QED BY <2>5, <2>6, <2>7
<1>3. CASE FanOut
  <2>1. CASE WriteFails("FANNING_OUT")
    BY <2>1, WriteFailsPreserves
  <2>2. CASE /\ phase \in {"new", "planned"} /\ domain' = "FANNING_OUT"
             /\ Turn(results, {}) /\ UNCHANGED <<request, cancelled>>
    <3>1. \A r \in Repo : ~Live(r)
      BY <2>2 DEF Control, Live
    <3> QED BY <2>2, <3>1, TurnPreserves
  <2> QED BY <1>3, <2>1, <2>2 DEF FanOut
<1>4. CASE LoopTurn
  <2>1. PICK D \in SUBSET inFlight :
          /\ \A r \in D : child[r] = "settled"
          /\ Turn(SkipDependentsOf(results, D), inFlight \ D)
    BY <1>4 DEF LoopTurn
  <2>2. UNCHANGED <<request, cancelled, domain>>
    BY <1>4 DEF LoopTurn
  <2>3. repos \in SUBSET Repo /\ deps \in [Repo -> SUBSET Repo] /\ D \in SUBSET Repo
    BY DEF TypeOK
  <2>4. Sound(child, SkipDependentsOf(results, D))
    BY <2>1, <2>3, SkipDependentsSound
  <2>5. inFlight \ D \in SUBSET repos
    BY DEF TypeOK
  <2>6. \A r \in Repo : Live(r) => r \in inFlight \ D
    BY <2>1 DEF Control, Live
  <2>7. \A r \in inFlight \ D : child[r] # "idle"
    BY DEF Control
  <2> QED BY <2>1, <2>2, <2>4, <2>5, <2>6, <2>7, TurnPreserves
<1>5. CASE Finish
  <2>1. phase = "ending" /\ verdict \in {"SUCCESS", "FAILED", "CANCELLED"}
    BY <1>5 DEF Finish, VerdictHolds
  <2>2. DomainStatus(verdict) \in {"COMPLETED", "FAILED", "CANCELLED"}
    BY <2>1 DEF DomainStatus
  <2>3. CASE WriteFails(DomainStatus(verdict))
    BY <2>2, <2>3, WriteFailsPreserves
  <2>4. CASE /\ domain' = DomainStatus(verdict) /\ phase' = "returned"
             /\ UNCHANGED <<request, cancelled, child, inFlight, results, verdict>>
    <3>1. UNCHANGED <<repos, deps, wantsPlan, eventDriven, cancelsScope>>
      BY <2>4 DEF request
    <3>2. TypeOK'
      BY <2>2, <2>4, <3>1 DEF TypeOK, Phase
    <3>3. Control' /\ VerdictHolds'
      BY <2>1, <2>4, <3>1 DEF Control, VerdictHolds, Live, DomainStatus
    <3>4. Sound(child, results)'
      BY <2>4, <3>1 DEF Sound, Succeeded
    <3> QED BY <3>2, <3>3, <3>4
  <2> QED BY <1>5, <2>3, <2>4 DEF Finish
<1>6. CASE ExecutionTimeout \/ CancelSignal
  <2>1. /\ UNCHANGED <<repos, deps, wantsPlan, eventDriven, cancelsScope>>
        /\ UNCHANGED <<child, inFlight, results, verdict, domain>>
        /\ phase' \in {phase, "threw"} /\ cancelled' \in BOOLEAN
        /\ cancelled => cancelled'
    BY <1>6 DEF ExecutionTimeout, CancelSignal, request, TypeOK
  <2>2. TypeOK' /\ Control' /\ VerdictHolds'
    BY <2>1 DEF TypeOK, Phase, Control, VerdictHolds, Live
  <2>3. Sound(child, results)'
    BY <2>1 DEF Sound, Succeeded
  <2> QED BY <2>2, <2>3
<1>7. ASSUME NEW r \in Repo, StartChild(r) PROVE IInv'
  <2>1. /\ child' = [child EXCEPT ![r] = "running"] /\ child[r] = "resolving"
        /\ phase = "scheduling"
        /\ UNCHANGED <<phase, cancelled, inFlight, results, verdict, domain>>
        /\ UNCHANGED <<repos, deps, wantsPlan, eventDriven, cancelsScope>>
    BY <1>7 DEF StartChild, request
  <2>2. \A x \in Repo : child'[x] = IF x = r THEN "running" ELSE child[x]
    BY <2>1 DEF TypeOK
  <2>3. TypeOK'
    BY <2>1 DEF TypeOK, Child
  <2>4. Sound(child, results)'
    BY <2>1, <2>2, <2>3 DEF Sound, Succeeded, TypeOK
  <2>5. Control' /\ VerdictHolds'
    BY <2>1, <2>2 DEF Control, VerdictHolds, Live, TypeOK
  <2> QED BY <2>3, <2>4, <2>5
<1>8. ASSUME NEW r \in Repo, ChildReturns(r) \/ RunRepoThrows(r) PROVE IInv'
  BY <1>8, SettlePreserves DEF ChildReturns, RunRepoThrows, Live
<1>9. CASE UNCHANGED vars
  BY <1>9 DEF vars, request, TypeOK, Sound, Succeeded, Control, VerdictHolds, Live
<1> QED BY <1>1, <1>2, <1>3, <1>4, <1>5, <1>6, <1>7, <1>8, <1>9 DEF Next

\* The inductive invariant holds of every state of every run.
THEOREM Invariance == Spec => []IInv
BY InitInvariant, NextInvariant, PTL DEF Spec

\* The epic's children, results and phase keep their types.
THEOREM TypeCorrect == Spec => []TypeOK
<1>1. IInv => TypeOK
  BY DEF IInv
<1> QED BY <1>1, Invariance, PTL

\* For every set of repositories, every dependency graph, either scheduler and
\* any order of failures and cancellation: what started had all its
\* dependencies succeed.
THEOREM StartedOnlyAfterDependenciesHolds == Spec => []StartedOnlyAfterDependencies
<1>1. IInv => StartedOnlyAfterDependencies
  BY DEF IInv, Sound, StartedOnlyAfterDependencies
<1> QED BY <1>1, Invariance, PTL

\* No repository whose child was started is ever reported skipped.
THEOREM RanIsNeverSkippedHolds == Spec => []RanIsNeverSkipped
<1>1. IInv => RanIsNeverSkipped
  BY DEF IInv, Sound, RanIsNeverSkipped
<1> QED BY <1>1, Invariance, PTL

\* Every skipped repository has a dependency that did not and will not succeed.
THEOREM SkipHasCauseHolds == Spec => []SkipHasCause
<1>1. IInv => SkipHasCause
  BY DEF IInv, Sound, SkipHasCause
<1> QED BY <1>1, Invariance, PTL

\* What the epic returns, and the status row it leaves, are true of its
\* repositories.
THEOREM ResultIsHonestHolds == Spec => []ResultIsHonest
<1>1. IInv => ResultIsHonest
  BY DEF IInv, Control, VerdictHolds, ResultIsHonest
<1> QED BY <1>1, Invariance, PTL

-----------------------------------------------------------------------------
(* What a step changes.                                                    *)

\* A repository's row from one state to the next: as it was, or just skipped.
OnlySkips(old, new) ==
  \A r \in Repo : new[r] = old[r] \/ (old[r] = "none" /\ new[r] = "SKIPPED")

\* What a turn does to each repository, and why.
LEMMA TurnChanges ==
  ASSUME IInv, NEW res \in [Repo -> Result], OnlySkips(results, res),
         NEW flying, Turn(res, flying)
  PROVE  /\ OnlySkips(results, results')
         /\ \A r \in Repo :
              \/ child'[r] = child[r]
              \/ /\ child[r] = "idle" /\ child'[r] = "resolving" /\ ~cancelled
                 /\ results[r] = "none" /\ results'[r] = "none"
                 /\ deps[r] \subseteq Succeeded(results)
<1>1. Succeeded(res) = Succeeded(results)
  BY DEF OnlySkips, Succeeded
<1>2. \A r \in Repo : Skip(res, repos)[r] = res[r]
                      \/ (res[r] = "none" /\ Skip(res, repos)[r] = "SKIPPED")
  BY DEF Skip
<1>3. OnlySkips(results, results')
  BY <1>2 DEF Turn, OnlySkips
<1>4. ASSUME NEW r \in Repo, child'[r] # child[r]
      PROVE  /\ child[r] = "idle" /\ child'[r] = "resolving" /\ ~cancelled
             /\ results[r] = "none" /\ results'[r] = "none"
             /\ deps[r] \subseteq Succeeded(results)
  <2>1. r \in Ready(res) /\ ~cancelled /\ child'[r] = "resolving"
    BY <1>4 DEF Turn
  <2>2. results' = res
    BY <2>1 DEF Turn
  <2>3. res[r] = "none" /\ child[r] = "idle" /\ deps[r] \subseteq Succeeded(res)
    BY <2>1 DEF Ready
  <2>4. results[r] = "none"
    BY <2>3 DEF OnlySkips
  <2> QED BY <1>1, <2>1, <2>2, <2>3, <2>4
<1> QED BY <1>3, <1>4

\* Every step that is not a child settling or starting is a scheduling step,
\* a new plan before anything ran, or leaves child and results alone.
LEMMA StepKinds ==
  ASSUME IInv, [Next]_vars
  PROVE  \/ /\ UNCHANGED <<child, results>>
            /\ UNCHANGED <<repos, deps>> \/ PlanEpic
         \/ /\ OnlySkips(results, results')
            /\ \A r \in Repo :
                 \/ child'[r] = child[r]
                 \/ /\ child[r] = "idle" /\ child'[r] = "resolving" /\ ~cancelled
                    /\ results[r] = "none" /\ results'[r] = "none"
                    /\ deps[r] \subseteq Succeeded(results)
            /\ UNCHANGED <<repos, deps>>
         \/ \E r \in Repo : /\ StartChild(r)
                            /\ UNCHANGED <<repos, deps>>
         \/ \E r \in Repo : \E v \in {"SUCCESS", "FAILED"} :
              Live(r) /\ SettleAs(r, v) /\ UNCHANGED <<repos, deps>>
<1>1. results \in [Repo -> Result]
  BY DEF IInv, TypeOK
<1>2. CASE StartPlanning \/ Finish \/ ExecutionTimeout \/ CancelSignal \/ UNCHANGED vars
  BY <1>2 DEF StartPlanning, Finish, ExecutionTimeout, CancelSignal, WriteFails, vars, request
<1>3. CASE PlanEpic
  BY <1>3 DEF PlanEpic
<1>4. CASE FanOut
  <2>1. OnlySkips(results, results)
    BY DEF OnlySkips
  <2>2. UNCHANGED <<repos, deps>>
    BY <1>4 DEF FanOut, WriteFails, request
  <2>3. CASE Turn(results, {})
    BY <1>1, <2>1, <2>2, <2>3, TurnChanges
  <2>4. CASE UNCHANGED <<child, results>>
    BY <2>2, <2>4
  <2> QED BY <1>4, <2>3, <2>4 DEF FanOut, WriteFails
<1>5. CASE LoopTurn
  <2>1. PICK D \in SUBSET inFlight : Turn(SkipDependentsOf(results, D), inFlight \ D)
    BY <1>5 DEF LoopTurn
  <2> DEFINE res == SkipDependentsOf(results, D)
  <2>2. res \in [Repo -> Result] /\ OnlySkips(results, res)
    BY <1>1 DEF SkipDependentsOf, Skip, OnlySkips, Result
  <2>3. UNCHANGED <<repos, deps>>
    BY <1>5 DEF LoopTurn, request
  <2> HIDE DEF res
  <2>4. Turn(res, inFlight \ D)
    BY <2>1 DEF res
  <2> QED BY <2>2, <2>3, <2>4, TurnChanges
<1>6. ASSUME NEW r \in Repo, StartChild(r) \/ ChildReturns(r) \/ RunRepoThrows(r)
      PROVE  \/ StartChild(r) /\ UNCHANGED <<repos, deps>>
             \/ \E v \in {"SUCCESS", "FAILED"} :
                  Live(r) /\ SettleAs(r, v) /\ UNCHANGED <<repos, deps>>
  BY <1>6 DEF StartChild, ChildReturns, RunRepoThrows, SettleAs, Live, request
<1> QED BY <1>2, <1>3, <1>4, <1>5, <1>6 DEF Next

\* A verdict, once recorded, is never overwritten, and a child that settled
\* never runs again: the cycle case of computeTransitiveDependents.
THEOREM VerdictsAreFinalHolds == Spec => VerdictsAreFinal
<1>1. ASSUME IInv, [Next]_vars
      PROVE  \A r \in Repo : /\ results[r] # "none" => results'[r] = results[r]
                             /\ child[r] = "settled" => child'[r] = "settled"
  <2>1. results \in [Repo -> Result] /\ child \in [Repo -> Child]
    BY <1>1 DEF IInv, TypeOK
  <2>2. ASSUME NEW r \in Repo, StartChild(r)
        PROVE  /\ results' = results
               /\ \A x \in Repo : child[x] = "settled" => child'[x] = "settled"
    BY <2>1, <2>2 DEF StartChild
  <2>3. ASSUME NEW r \in Repo, NEW v, Live(r), SettleAs(r, v)
        PROVE  /\ \A x \in Repo : results[x] # "none" => results'[x] = results[x]
               /\ \A x \in Repo : child[x] = "settled" => child'[x] = "settled"
    <3>1. results[r] = "none"
      BY <1>1, <2>3 DEF IInv, Sound, Live, Result
    <3> QED BY <2>1, <2>3, <3>1 DEF SettleAs
  <2> QED BY <1>1, <2>2, <2>3, StepKinds DEF OnlySkips
<1> QED BY <1>1, Invariance, PTL DEF Spec, VerdictsAreFinal

\* Once cancelled, the epic picks up no repository and turns none that is
\* being started into a child.
THEOREM NothingStartsAfterCancelHolds == Spec => NothingStartsAfterCancel
<1>1. ASSUME IInv, [Next]_vars, cancelled
      PROVE  \A r \in Repo :
               /\ child[r] = "idle" => child'[r] = "idle"
               /\ cancelsScope /\ child[r] = "resolving" => child'[r] # "running"
  <2>1. child \in [Repo -> Child]
    BY <1>1 DEF IInv, TypeOK
  <2>2. ASSUME NEW r \in Repo, StartChild(r)
        PROVE  ~cancelsScope /\ \A x \in Repo : child[x] = "idle" => child'[x] = "idle"
    BY <1>1, <2>1, <2>2 DEF StartChild, ScopeCancelled
  <2>3. ASSUME NEW r \in Repo, NEW v, Live(r), SettleAs(r, v)
        PROVE  \A x \in Repo : child'[x] = IF x = r THEN "settled" ELSE child[x]
    BY <2>1, <2>3 DEF SettleAs
  <2> QED BY <1>1, <2>1, <2>2, <2>3, StepKinds DEF Live
<1> QED BY <1>1, Invariance, PTL DEF Spec, NothingStartsAfterCancel

-----------------------------------------------------------------------------
(* The epic implements a dependency run.                                   *)

\* The abstract state of a repository.
Abs(ch, res) == [r \in Repo |-> IF res[r] # "none" THEN res[r]
                                ELSE IF ch[r] = "idle" THEN "waiting" ELSE "running"]

\* A turn of the scheduling loop is an abstract scheduling step.
LEMMA TurnSchedules ==
  ASSUME IInv, IInv', UNCHANGED <<repos, deps>>,
         OnlySkips(results, results'),
         \A r \in Repo :
           \/ child'[r] = child[r]
           \/ /\ child[r] = "idle" /\ child'[r] = "resolving" /\ ~cancelled
              /\ results[r] = "none" /\ results'[r] = "none"
              /\ deps[r] \subseteq Succeeded(results)
  PROVE  Implementation!Schedule
<1> DEFINE start == {r \in repos : child'[r] # child[r]}
           skip  == {r \in repos : results'[r] # results[r]}
<1>1. /\ Sound(child, results) /\ Sound(child', results')
      /\ repos \in SUBSET Repo /\ deps \in [Repo -> SUBSET Repo]
  BY DEF IInv, TypeOK, Sound, Succeeded
<1>2. start \in SUBSET repos /\ skip \in SUBSET repos /\ start \cap skip = {}
  BY <1>1
<1>3. ASSUME NEW r \in skip
      PROVE  /\ results[r] = "none" /\ results'[r] = "SKIPPED" /\ child[r] = "idle"
             /\ \E d \in deps[r] : d \notin repos \/ results'[d] \in {"FAILED", "SKIPPED"}
  <2>1. r \in Repo /\ results[r] = "none" /\ results'[r] = "SKIPPED"
    BY <1>1 DEF OnlySkips
  <2> QED BY <1>1, <2>1 DEF Sound
<1>4. \A r \in start \cup skip : Abs(child, results)[r] = "waiting"
  BY <1>1, <1>3 DEF Abs
<1>5. ASSUME NEW r \in Repo
      PROVE  Abs(child', results')[r] =
               IF r \in start THEN "running"
               ELSE IF r \in skip THEN "SKIPPED" ELSE Abs(child, results)[r]
  <2>1. CASE r \in repos
    BY <1>3, <2>1 DEF Abs
  <2>2. CASE r \notin repos
    BY <1>1, <2>2 DEF Abs, Sound
  <2> QED BY <2>1, <2>2
<1>6. Abs(child', results') = [r \in Repo |-> IF r \in start THEN "running"
                                ELSE IF r \in skip THEN "SKIPPED" ELSE Abs(child, results)[r]]
  BY <1>5 DEF Abs
<1>7. ASSUME NEW r \in start, NEW d \in deps[r]
      PROVE  d \in repos /\ Abs(child, results)[d] = "SUCCESS"
  <2>1. d \in Repo /\ results[d] = "SUCCESS"
    BY <1>1 DEF Succeeded
  <2> QED BY <1>1, <2>1 DEF Abs, Sound
<1>8. ASSUME NEW r \in skip
      PROVE  \E d \in deps[r] : d \notin repos \/ Abs(child', results')[d] \in {"FAILED", "SKIPPED"}
  <2>1. PICK d \in deps[r] : d \notin repos \/ results'[d] \in {"FAILED", "SKIPPED"}
    BY <1>3
  <2>2. d \in Repo
    BY <1>1
  <2> QED BY <2>1, <2>2 DEF Abs
<1> QED BY <1>2, <1>4, <1>6, <1>7, <1>8
        DEF Implementation!Schedule, Implementation!Blocked, Abs

\* Every behaviour of the orchestrator is, repository by repository, a
\* dependency run: the epic's promise for every graph and both schedulers.
THEOREM Refinement == Spec => ImplementsDependencyRun
<1>1. Init => Implementation!Init
  BY DEF Init, Implementation!Init, Graphs
<1>2. ASSUME IInv, IInv', [Next]_vars
      PROVE  [Implementation!Next]_(Implementation!vars)
  <2>1. /\ Sound(child, results) /\ repos \in SUBSET Repo
        /\ results \in [Repo -> Result] /\ child \in [Repo -> Child]
    BY <1>2 DEF IInv, TypeOK
  <2>2. CASE UNCHANGED <<child, results, repos, deps>>
    BY <2>2 DEF Implementation!vars
  <2>3. CASE PlanEpic /\ UNCHANGED <<child, results>>
    <3>1. CASE UNCHANGED <<repos, deps>>
      BY <2>2, <2>3, <3>1
    <3>2. \A r \in Repo : child[r] = "idle" /\ results[r] = "none"
      BY <1>2, <2>3 DEF IInv, Control, PlanEpic
    <3>3. repos' \in SUBSET Repo /\ deps' \in [Repo -> SUBSET Repo]
      BY <1>2 DEF IInv, TypeOK
    <3>4. Implementation!Plan
      BY <2>3, <3>2, <3>3 DEF Implementation!Plan
    <3> QED BY <3>4 DEF Implementation!Next
  <2>4. CASE /\ OnlySkips(results, results') /\ UNCHANGED <<repos, deps>>
             /\ \A r \in Repo :
                  \/ child'[r] = child[r]
                  \/ /\ child[r] = "idle" /\ child'[r] = "resolving" /\ ~cancelled
                     /\ results[r] = "none" /\ results'[r] = "none"
                     /\ deps[r] \subseteq Succeeded(results)
    BY <1>2, <2>4, TurnSchedules DEF Implementation!Next
  <2>5. ASSUME NEW r \in Repo, StartChild(r), UNCHANGED <<repos, deps>>
        PROVE  UNCHANGED Implementation!vars
    <3>1. /\ results' = results /\ child[r] = "resolving"
          /\ child' = [child EXCEPT ![r] = "running"]
      BY <2>5 DEF StartChild
    <3>2. \A x \in Repo : (child'[x] = "idle") <=> (child[x] = "idle")
      BY <2>1, <3>1
    <3> QED BY <2>5, <3>1, <3>2 DEF Implementation!vars
  <2>6. ASSUME NEW r \in Repo, NEW v \in {"SUCCESS", "FAILED"},
               Live(r), SettleAs(r, v), UNCHANGED <<repos, deps>>
        PROVE  Implementation!Settle(r)
    <3>1. /\ child' = [child EXCEPT ![r] = "settled"]
          /\ results' = [results EXCEPT ![r] = v]
      BY <2>6 DEF SettleAs
    <3>2. results[r] = "none" /\ child[r] # "idle"
      BY <2>1, <2>6 DEF Sound, Live, Result
    <3>3. Abs(child, results)[r] = "running"
      BY <3>2 DEF Abs
    <3>4. Abs(child', results') = [Abs(child, results) EXCEPT ![r] = v]
      <4>1. \A x \in Repo : Abs(child', results')[x] =
                              IF x = r THEN v ELSE Abs(child, results)[x]
        BY <2>1, <3>1 DEF Abs
      <4> QED BY <4>1 DEF Abs
    <3> QED BY <2>6, <3>3, <3>4 DEF Implementation!Settle, Abs
  <2> QED BY <1>2, <2>2, <2>3, <2>4, <2>5, <2>6, StepKinds DEF Implementation!Next
<1> QED BY <1>1, <1>2, Invariance, PTL DEF Spec, ImplementsDependencyRun, Implementation!Spec
-----------------------------------------------------------------------------
(* The safety half of EpicEnds.                                            *)

\* While the loop goes on it waits for something: repositories are in flight, each
\* with a child that will settle or one that settled and is not handled yet, and no
\* child runs that the loop does not wait for (Promise.race over inFlight, and the
\* wave).  No graph, cycles and unknown ids included, makes it wait for nothing.
LoopWaitsForSomething ==
  phase = "scheduling" =>
    /\ inFlight # {}
    /\ \A r \in inFlight : Live(r) \/ child[r] = "settled"
    /\ \A r \in Repo : Live(r) => r \in inFlight

\* The loop never waits for nothing.
THEOREM LoopWaitsForSomethingHolds == Spec => []LoopWaitsForSomething
<1> DEFINE Waits == phase = "scheduling" => inFlight # {}
<1>1. Init => Waits
  BY DEF Init
<1>2. Waits /\ [Next]_vars => Waits'
  <2> SUFFICES ASSUME Waits, [Next]_vars PROVE Waits'
    OBVIOUS
  <2>1. CASE FanOut
    BY <2>1 DEF FanOut, Turn, WriteFails
  <2>2. CASE LoopTurn
    BY <2>2 DEF LoopTurn, Turn
  <2>3. CASE StartPlanning \/ PlanEpic \/ Finish \/ ExecutionTimeout
    BY <2>3 DEF StartPlanning, PlanEpic, Finish, ExecutionTimeout, WriteFails
  <2>4. CASE CancelSignal \/ UNCHANGED vars
    BY <2>4 DEF CancelSignal, vars
  <2>5. ASSUME NEW r \in Repo, StartChild(r) \/ ChildReturns(r) \/ RunRepoThrows(r) PROVE Waits'
    BY <2>5 DEF StartChild, ChildReturns, RunRepoThrows, SettleAs
  <2>6. QED BY <2>1, <2>2, <2>3, <2>4, <2>5 DEF Next
<1>3. IInv /\ Waits => LoopWaitsForSomething
  BY DEF IInv, TypeOK, Control, LoopWaitsForSomething, Live, Child
<1>4. QED BY <1>1, <1>2, <1>3, Invariance, PTL DEF Spec
=============================================================================
