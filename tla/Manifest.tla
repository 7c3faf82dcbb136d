------------------------------ MODULE Manifest ------------------------------
(***************************************************************************)
(* The declared resources and what the command line selects of them: the   *)
(* keys of internal/state, the dependency relation of internal/apply and   *)
(* the --target / --env filters of cmd/iac-coolify.  No state.             *)
(***************************************************************************)
EXTENDS Integers, FiniteSets

CONSTANTS
  Declared,   \* the manifests under the config path, no two of them equal
  Servers,    \* names of the servers the Coolify instance knows
  Env         \* the ${env:} references used in manifests, with their values

Kinds == {"Project", "Environment", "Application", "Service", "Database"}

\* The coordinates of a manifest that matter here; "" where a kind has none.
\* A project declares only a name, an environment a project and a name.
\* envs: the spec declares env_vars.
Resources == [kind : Kinds, project : STRING, environment : STRING,
              name : STRING, server : STRING, envs : BOOLEAN]

ASSUME DeclaredType == Declared \subseteq Resources
ASSUME EnvType == Env \in [DOMAIN Env -> STRING] /\ DOMAIN Env \subseteq STRING

-----------------------------------------------------------------------------
(* Interpolation.  Loading keeps references as they are written; apply      *)
(* binds those in the coordinates of applications and services, and of no   *)
(* other kind (ResolveSecrets).                                            *)

Value(s) == IF s \in DOMAIN Env THEN Env[s] ELSE s

Bound(x) ==
  IF x.kind \in {"Application", "Service"}
    THEN [x EXCEPT !.project = Value(@), !.environment = Value(@),
                   !.name = Value(@), !.server = Value(@)]
    ELSE x

\* What operations may be about: destroy takes manifests as they are written.
Targets == Declared \cup {Bound(x) : x \in Declared}

-----------------------------------------------------------------------------
(* Logical keys (state.ResourceKey).                                       *)

Key(kind, project, environment, name) ==
  [kind |-> kind, project |-> project, environment |-> environment, name |-> name]

ProjectKey(project) == Key("Project", "", "", project)

\* The resolver keys a database by its name alone.
KeyOf(x) ==
  IF x.kind = "Database" THEN Key("Database", "", "", x.name)
  ELSE Key(x.kind, x.project, x.environment, x.name)

\* Every key a run looks up: its resources' and their projects'.
Keys == {KeyOf(x) : x \in Targets} \cup {ProjectKey(x.project) : x \in Targets}

-----------------------------------------------------------------------------
(* Operations and their order.                                             *)

Ops == [verb : {"create", "update", "delete"}, res : Targets]

KindRank(kind) ==
  CASE kind = "Project" -> 0
    [] kind = "Environment" -> 1
    [] OTHER -> 2

\* Where a kind stands in the order of node ids: by rank, then by kind name.
Position(kind) ==
  CASE kind = "Application" -> 2
    [] kind = "Database" -> 3
    [] kind = "Service" -> 4
    [] OTHER -> KindRank(kind)

\* Resource x requires resource y to already exist.
DependsOn(x, y) ==
  \/ /\ x.kind # "Project"
     /\ y.kind = "Project"
     /\ y.name = x.project
  \/ /\ KindRank(x.kind) = 2
     /\ y.kind = "Environment"
     /\ y.project = x.project
     /\ y.name = x.environment

\* Operation a must be done before operation b: parents are created first
\* and deleted last.
Precedes(a, b) ==
  IF b.verb = "delete" THEN DependsOn(a.res, b.res) ELSE DependsOn(b.res, a.res)

\* Mutant of Foremost: a destroy is ordered like an apply (OrderApply for
\* OrderDelete).
ForemostAlwaysParents(S) ==
  {op \in S : \A other \in S : Position(op.res.kind) <= Position(other.res.kind)}

\* The operations of S that orderOps may put first.  Resources of one kind
\* follow the order of their names, which are arbitrary here.
Foremost(S) ==
  {op \in S : \A other \in S :
     IF op.verb = "delete"
       THEN Position(other.res.kind) <= Position(op.res.kind)
       ELSE Position(op.res.kind) <= Position(other.res.kind)}

-----------------------------------------------------------------------------
(* Selection.  A command is [mode, only, envs, approve, dry, tty, online]:  *)
(* --target is only ("" when absent), --env is the set envs.               *)

EnvOf(x) == IF x.kind = "Environment" THEN x.name ELSE x.environment

\* matchesEnv
MatchesEnv(allow, env) == allow = {} \/ env \in allow

Named(x, c) == c.only = "" \/ c.only = x.name

\* filterByEnv never narrows projects, which belong to no environment.
InScope(x, c) == x.kind = "Project" \/ MatchesEnv(c.envs, EnvOf(x))

\* Mutant of Selected: the --env filter is not applied.
SelectedInEveryEnv(c) == {x \in Declared : Named(x, c)}

Selected(c) == {x \in Declared : Named(x, c) /\ InScope(x, c)}

\* What an apply or a destroy works on.  The filters see references, and apply
\* asks for the name again once it is bound.
Wanted(c) ==
  IF c.mode = "destroy" THEN Selected(c)
  ELSE {Bound(x) : x \in {y \in Selected(c) : Named(Bound(y), c)}}

\* envScope.validate: an --env no resource declares, or --target and --env
\* that together select nothing.  --target alone is never checked.
InvalidSelection(c) ==
  \/ \E e \in c.envs : \A x \in Declared : x.kind = "Project" \/ EnvOf(x) # e
  \/ c.only # "" /\ c.envs # {} /\ Selected(c) = {}
=============================================================================
