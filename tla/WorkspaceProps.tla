--------------------------- MODULE WorkspaceProps ---------------------------
(* What Workspace promises.                                                *)
EXTENDS Workspace

\* An operation of an apply, or what a plan announces of a resource.
Announcement(op) ==
  /\ op.of \in Resources
  /\ op.verb \in {"create", "update"}
  /\ DOMAIN op.changes \subseteq Diffable(op.of.kind)
  /\ \A f \in DOMAIN op.changes :
       /\ op.changes[f].new \in Text
       /\ f \in Numbers => op.changes[f].new \notin Refs
       /\ f = "public" => op.changes[f].new \in {"true", "false"}

JobOK(j) ==
  /\ DOMAIN j = DOMAIN Idle
  /\ j.loading \in {"Application", "Database"}
  /\ j.todo \cup j.resolved \subseteq Resources
  /\ j.files \cup j.found \subseteq Paths
  /\ j.have \cup j.left \cup j.cur \subseteq Manifests
  /\ \A op \in j.announced : Announcement(op)

\* Every variable holds what it is meant to; disk may hold what was torn.
TypeOK ==
  /\ disk \in [Paths -> Manifests \cup {NoFile, Garbage, Torn}]
  /\ root \in {"absent", "torn", "whole"}
  /\ temp \in [Procs -> Manifests \cup {NoFile, Torn}]
  /\ steady \in [Procs -> SUBSET Paths]
  /\ DOMAIN live = Resources /\ \A r \in Live : live[r] \in Objects(r.kind)
  /\ edits \in [disk : Nat, live : Nat]
  /\ script \in [Procs -> Seq(Commands)]
  /\ calm \in [Procs -> SUBSET Resources]
  /\ cmd \in [Procs -> Commands]
  /\ pc \in [Procs -> Active \cup Ended \cup {"idle"}]
  /\ DOMAIN job = Procs /\ \A p \in Procs : JobOK(job[p])

-----------------------------------------------------------------------------
(* Files.                                                                  *)

\* However imports and saves overlap, fail or crash, a manifest is never seen
\* half written: "a crash mid-write cannot leave a truncated manifest".
ManifestsAreWhole == \A path \in Paths : disk[path] # Torn

Done(p) == {PathOf(m.of) : m \in job[p].have \ job[p].left}

\* An import without --force replaces no manifest that was there when it began,
\* whatever others write, remove or put in its way meanwhile, unless it wrote it
\* itself.
ImportKeepsFiles ==
  [][\A p \in Procs :
       cmd[p] = "import" /\ pc[p] = "rename" /\ pc'[p] = "write" =>
         \A path \in steady[p] \ Done(p) : Exists(path) => disk'[path] = disk[path]]_vars

\* What a successful import reports is on disk, as long as nobody else writes
\* there; of two resources with one path, that of one of them.
ReportedIsOnDisk ==
  \A p \in Procs : pc[p] = "done" /\ cmd[p] \in Imports =>
    \A m \in job[p].have : PathOf(m.of) \in steady[p] =>
      disk[PathOf(m.of)] \in {n \in job[p].have : PathOf(n.of) = PathOf(m.of)}

\* A plan or an apply works on every manifest that was on disk all along and
\* parses: one that is not valid stops it, and only one that does not parse is
\* passed over.
EveryManifestCounts ==
  \A p \in Procs : cmd[p] \in Plans \cup {"apply"} /\ pc[p] \in {"diff", "engine", "done"} =>
    \A path \in steady[p] : disk[path] \in Manifests =>
      \E m \in job[p].have : m.of = disk[path].of

\* A manifest never holds a password, only a reference to one.
PasswordsStayReferences ==
  \A path \in Paths : disk[path] \in Manifests /\ KindAt(path) = "Database" =>
    disk[path].spec["password"] \in Refs \cup {""}

-----------------------------------------------------------------------------
(* Plans, applies and live objects.                                        *)

Remaining(m) == Diff(Desired(m), Actual(m.of.kind, live[m.of]))

Undisturbed(p, m) == m.of \in calm[p] /\ live[m.of] # NoObject

\* A change no request carries: of the destination after a create, of what a
\* PATCH cannot empty or delete, of a limit equal to Coolify's default, and of
\* the port of an application that is not built from an image.
Stubborn(m, f, change) ==
  \/ f = "destination.network"
  \/ change.op = "delete" /\ f # "public_port"
  \/ change.op # "delete" /\ change.new = ""
  \/ f = "limits.cpu_shares" /\ change.new = "1024"
  \/ f = "port" /\ m.build # "dockerimage"

\* After a successful apply, only stubborn changes are left.
ApplySettles ==
  \A p \in Procs : cmd[p] = "apply" /\ pc[p] = "done" =>
    \A m \in job[p].have : Undisturbed(p, m) =>
      \A f \in DOMAIN Remaining(m) : Stubborn(m, f, Remaining(m)[f])

\* After a successful apply, another one has nothing to do, as the documentation
\* says.  It has, for every application built from git.
SecondApplyDoesNothing ==
  \A p \in Procs : cmd[p] = "apply" /\ pc[p] = "done" =>
    \A m \in job[p].have : Undisturbed(p, m) => DOMAIN Remaining(m) = {}

\* What a plan of the same manifest would announce, an apply does; more only
\* where the manifest holds a reference the plan cannot see through.
PlanForetells ==
  \A p \in Procs : cmd[p] = "apply" /\ pc[p] = "diff" /\ job[p].left = {} =>
    \A path \in steady[p] : disk[path] \in Manifests /\ Undisturbed(p, disk[path]) =>
      LET m == disk[path]
          does == UNION {DOMAIN op.changes : op \in {x \in job[p].announced : x.of = m.of}}
      IN m.of \in job[p].resolved =>
           /\ DOMAIN Remaining(m) \subseteq does
           /\ \A f \in does \ DOMAIN Remaining(m) : m.spec[f] \in Refs

\* An apply sets only fields it announced, so a field somebody else changed after
\* the comparison keeps its value.
OthersEditsSurvive ==
  [][\A p \in Procs, r \in Live :
       pc[p] = "engine" /\ job'[p].left # job[p].left =>
         \A f \in DOMAIN live[r] : live'[r][f] # live[r][f] =>
           \E op \in job[p].announced : op.of = r /\ f \in DOMAIN op.changes]_vars

\* References reach Coolify only where apply does not bind them: the description
\* of an application, and everything of a database but its password.
NoReferenceIsSent ==
  \A r \in Live : \A f \in Known(r.kind) :
    live[r][f] \in Refs => IF r.kind = "Application" THEN f = "description" ELSE f # "password"

\* What an import cannot bring over: further ports, limits, a destination the
\* payload left out.
Lost(o, f) ==
  \/ f \in Limits
  \/ f = "port" /\ FirstPort[o["port"]] # o["port"]
  \/ f \in Destination /\ o[f] = ""

\* Right after an import, the plan of a resource that came out complete has no
\* other change.
ImportedPlansClean ==
  \A p \in Procs : cmd[p] \in Imports /\ pc[p] = "done" =>
    \A m \in job[p].have : Undisturbed(p, m) /\ Valid(m) =>
      \A f \in DOMAIN Remaining(m) : Lost(live[m.of], f)

-----------------------------------------------------------------------------

\* Every command ends, whatever fails and whatever the others do.
CommandsEnd == \A p \in Procs : pc[p] \in Active ~> pc[p] \notin Active
=============================================================================
