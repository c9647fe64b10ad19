--------------------------- MODULE DependencyRun ---------------------------
(***************************************************************************)
(* What an epic promises, whatever its scheduler: a set of repositories    *)
(* with a dependency graph, each of which is run at most once and ends     *)
(* with one verdict.  A repository is run only after everything it depends *)
(* on succeeded, and is passed over only when something it depends on can  *)
(* no longer succeed.                                                      *)
(***************************************************************************)
CONSTANT Repo           \* repository ids

VARIABLES repos,        \* the repositories of the epic
          deps,         \* deps[r]: the ids r waits for
          state         \* state[r]: where r is

vars == <<repos, deps, state>>

Verdict == {"SUCCESS", "FAILED", "SKIPPED"}
State   == {"waiting", "running"} \cup Verdict

TypeOK == /\ repos \in SUBSET Repo
          /\ deps \in [Repo -> SUBSET Repo]
          /\ state \in [Repo -> State]

Init == /\ repos \in SUBSET Repo
        /\ deps \in [Repo -> SUBSET Repo]
        /\ state = [r \in Repo |-> "waiting"]

\* The graph is replaced by a planned one before anything starts.
Plan == /\ \A r \in Repo : state[r] = "waiting"
        /\ repos' \in SUBSET Repo
        /\ deps' \in [Repo -> SUBSET Repo]
        /\ UNCHANGED state

\* A dependency that will never succeed: an id outside the epic, or one that
\* ended some other way.
Blocked(d, st) == d \notin repos \/ st[d] \in {"FAILED", "SKIPPED"}

\* The scheduler starts what is ready and passes over what is blocked.
Schedule ==
  \E start, skip \in SUBSET repos :
    /\ start \cap skip = {}
    /\ \A r \in start \cup skip : state[r] = "waiting"
    /\ state' = [r \in Repo |-> IF r \in start THEN "running"
                                ELSE IF r \in skip THEN "SKIPPED" ELSE state[r]]
    /\ \A r \in start : \A d \in deps[r] : d \in repos /\ state[d] = "SUCCESS"
    /\ \A r \in skip : \E d \in deps[r] : Blocked(d, state')
    /\ UNCHANGED <<repos, deps>>

\* A running repository ends.
Settle(r) == /\ state[r] = "running"
             /\ \E v \in {"SUCCESS", "FAILED"} : state' = [state EXCEPT ![r] = v]
             /\ UNCHANGED <<repos, deps>>

Next == Plan \/ Schedule \/ \E r \in Repo : Settle(r)

Spec == Init /\ [][Next]_vars
=============================================================================
