---------------------------- MODULE MCReconciler ----------------------------
(* Instances of Reconciler: two manifests, the command lines of one or two  *)
(* runs, and the objects Coolify starts with.                              *)
EXTENDS ReconcilerProps, TLC

Res(kind, project, environment, name, server, envs) ==
  [kind |-> kind, project |-> project, environment |-> environment,
   name |-> name, server |-> server, envs |-> envs]

p == Res("Project", "", "", "p", "", FALSE)
e == Res("Environment", "p", "", "e", "", FALSE)
f == Res("Environment", "p", "", "f", "", FALSE)
app == Res("Application", "p", "e", "a", "s1", FALSE)
svc == Res("Service", "p", "f", "w", "s1", TRUE)
db == Res("Database", "p", "e", "d", "s1", FALSE)
dbf == Res("Database", "p", "f", "d", "s2", FALSE)
appRef == Res("Application", "p", "$E", "a", "s1", FALSE)

\* An object for x with a given uuid and parent.
Obj(x, uuid, parent, spec) ==
  [uuid |-> uuid, kind |-> x.kind, project |-> x.project,
   environment |-> x.environment, name |-> x.name, parent |-> parent,
   server |-> x.server, spec |-> spec, envs |-> FALSE]

Command(mode, only, envs, approve, dry, tty, online) ==
  [mode |-> mode, only |-> only, envs |-> envs, approve |-> approve,
   dry |-> dry, tty |-> tty, online |-> online]

Apply == Command("apply", "", {}, TRUE, FALSE, FALSE, TRUE)
Destroy == Command("destroy", "", {}, TRUE, FALSE, FALSE, TRUE)

-----------------------------------------------------------------------------
(* A project with two environments, an application and a service.          *)

Stack == {p, e, f, app, svc}
NoEnv == [s \in {} |-> ""]
OneServer == {"s1"}
TwoServers == {"s1", "s2"}
Empty == {{}}
Half == {{Obj(p, 1, None, "ok"), Obj(e, 2, 1, "ok"), Obj(app, 3, 2, "drift")}}
Whole == {{Obj(p, 1, None, "ok"), Obj(e, 2, 1, "ok"), Obj(f, 3, 1, "ok"),
           Obj(app, 4, 2, "ok"), Obj(svc, 5, 3, "ok")}}
AnySeed == Empty \cup Half \cup Whole

OneRun == {"r"}
TwoRuns == {"r", "q"}

\* One run: every way to start it, with and without filters.
OneOfAll ==
  [OneRun -> {Command(m, o, es, how[1], how[2], how[3], how[4]) :
     m \in {"apply", "destroy"}, o \in {"", "a"}, es \in {{}, {"e"}, {"typo"}},
     how \in {<<TRUE, FALSE, FALSE, TRUE>>, <<FALSE, FALSE, TRUE, TRUE>>,
              <<FALSE, FALSE, FALSE, TRUE>>, <<TRUE, FALSE, FALSE, FALSE>>,
              <<FALSE, TRUE, FALSE, TRUE>>, <<FALSE, TRUE, FALSE, FALSE>>}}]
OneApply == [OneRun -> {Apply}]
ApplyTwice == [TwoRuns -> {Apply}]
ApplyOrDestroy == [TwoRuns -> {Apply, Destroy}]

Small == {p, e, app}
HalfSmall == {{Obj(p, 1, None, "ok"), Obj(e, 2, 1, "ok")}}
WholeSmall == {{Obj(p, 1, None, "ok"), Obj(e, 2, 1, "ok"), Obj(app, 3, 2, "drift")}}
AnySmall == Empty \cup HalfSmall \cup WholeSmall

\* With a database; the project may be empty, and the application may have
\* been put on another server by hand.
Stores == {p, e, app, db}
AnyStore == {{}, {Obj(p, 1, None, "ok")},
             {Obj(p, 1, None, "ok"), Obj(e, 2, 1, "ok"), Obj(db, 3, 2, "drift")},
             {Obj(p, 1, None, "ok"), Obj(e, 2, 1, "ok"), Obj(db, 3, 2, "ok"),
              [Obj(app, 4, 2, "ok") EXCEPT !.server = "s2"]}}

-----------------------------------------------------------------------------
(* Manifests of the runs that contradict the documentation.                *)

\* Databases of one name in two environments, on two servers; only the one in
\* environment f exists.
SameName == {p, e, f, db, dbf}
OnlyInF == {{Obj(p, 1, None, "ok"), Obj(e, 2, 1, "ok"), Obj(f, 3, 1, "ok"), Obj(dbf, 4, 3, "ok")}}
DestroyInE == [OneRun -> {Command("destroy", "", {"e"}, TRUE, FALSE, FALSE, TRUE)}]

\* An application whose environment is a reference.
Interpolated == {p, e, appRef}
EnvE == "$E" :> "e"
InE == {{Obj(p, 1, None, "ok"), Obj(e, 2, 1, "ok"), Obj(app, 3, 2, "ok")}}
DestroyApp == [OneRun -> {Command("destroy", "a", {}, TRUE, FALSE, FALSE, TRUE)}]

-----------------------------------------------------------------------------
\* The instances that check a property are among those it is proved for; those
\* that refute one are not.
ASSUME OnceIsProvedFor ==
  PlainCoordinates /\ GoodSeeds /\ (DistinctKeys <=> Declared # SameName)
ASSUME ScopeIsProvedFor ==
  NumberedSeeds /\ PlainSelections /\ (DatabasesApart <=> Declared # SameName)
ASSUME GoneIsProvedFor == AsWritten <=> Declared # Interpolated
=============================================================================
