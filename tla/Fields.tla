------------------------------- MODULE Fields -------------------------------
(***************************************************************************)
(* The fields of an application or a database on their four ways: from a    *)
(* manifest and from the live object into the diff (internal/plan), from    *)
(* the diff into a PATCH and from a manifest into a create                 *)
(* (internal/apply), from references to values (internal/config), and from  *)
(* a live object into a manifest (internal/importer).  No state.            *)
(*                                                                         *)
(* A field holds a text; a number is its decimal text, and "0" is the zero  *)
(* a manifest decodes to when it leaves the field out.                     *)
(***************************************************************************)
EXTENDS Integers

CONSTANTS
  Resources,  \* the coordinates of the applications and databases
  Text,       \* the texts a field may hold
  Refs,       \* those that hold a ${env:} reference
  EnvValue,   \* what the environment binds references to; not all are set
  Urls,       \* texts that start with http:// or https://
  FirstPort,  \* the first port of a ports_exposes text, "0" if there is none
  PasswordRef,  \* the reference the importer makes up for a database's password
  Defaults,   \* what Coolify fills in for a field a create leaves out
  DefaultNetwork  \* --default-network

Builds == {"dockerimage", "git", "inline"}

\* The importer writes this where the API tells no repository: no URL.
Placeholder == "TODO-not-exposed-by-coolify-api"

\* Texts the code knows.
Fixed == {"", "0", "1024", "true", "false", Placeholder}

ASSUME ResourcesType ==
  Resources \subseteq [project : STRING, environment : STRING,
                       kind : {"Application", "Database"}, name : STRING]
ASSUME TextType ==
  /\ Fixed \subseteq Text
  /\ Refs \subseteq Text \ Fixed
  /\ Urls \subseteq Text
  /\ PasswordRef \in [Resources -> Refs]
  /\ DefaultNetwork \in Text
ASSUME EnvValueType ==
  DOMAIN EnvValue \subseteq Refs /\ EnvValue \in [DOMAIN EnvValue -> Text \ Refs]
ASSUME FirstPortType == FirstPort \in [Text -> Text \ (Refs \cup {""})]

Destination == {"destination.server", "destination.network"}
Image == {"image.name", "image.tag"}
Limits == {"limits.cpu_shares", "limits.memory"}

\* The fields a live object and the diff know.
Diffable(kind) ==
  IF kind = "Application"
    THEN {"description", "fqdn", "port"} \cup Image \cup Destination
    ELSE {"description", "image", "public", "public_port"} \cup Destination \cup Limits

\* A manifest also says where a git build comes from, or the password.
Declarable(kind) ==
  Diffable(kind) \cup IF kind = "Application"
                        THEN {"source.git_repository", "source.ports_exposes"}
                        ELSE {"password"}

\* A live object also knows the server that hosts it, which GET leaves out when
\* it leaves out the destination, and its password in clear.
Known(kind) ==
  Diffable(kind) \cup IF kind = "Application" THEN {"host"} ELSE {"host", "password"}

Numbers == {"port", "public_port", "limits.cpu_shares"}

\* A manifest: build is where an application is built from, "git" for a
\* database.  Numbers and booleans are no references.
Manifests ==
  {m \in [of : Resources, build : Builds,
          spec : [Declarable("Application") -> Text] \cup [Declarable("Database") -> Text]] :
     /\ m.spec \in [Declarable(m.of.kind) -> Text]
     /\ \A f \in Numbers \cap DOMAIN m.spec : m.spec[f] \notin Refs
     /\ m.of.kind = "Database" => m.spec["public"] \in {"true", "false"}}

\* A live object.  A destination that is told is on the host.
Objects(kind) ==
  {o \in [Known(kind) -> Text] :
     /\ \A f \in Numbers \cap Known(kind) : o[f] \notin Refs
     /\ o["destination.server"] \in {"", o["host"]}
     /\ kind = "Database" => o["public"] \in {"true", "false"}}

\* A database is private unless the create says otherwise.
ASSUME DefaultsType ==
  /\ \A kind \in {"Application", "Database"} :
       Defaults[kind] \in Objects(kind) /\ \A f \in Known(kind) : Defaults[kind][f] \notin Refs
  /\ Defaults["Database"]["public"] = "false"

-----------------------------------------------------------------------------
(* Binding references (config.ResolveSecrets).                             *)

\* Mutant of Bindable: the tag of the image is not bound.
BindableButTag(kind) ==
  IF kind = "Application" THEN {"fqdn", "image.name"} \cup Destination ELSE {"password"}

\* What apply binds.  The description of an application, and everything of a
\* database but its password, go to Coolify as they are written.
Bindable(kind) ==
  IF kind = "Application"
    THEN {"fqdn", "source.git_repository", "source.ports_exposes"} \cup Image \cup Destination
    ELSE {"password"}

\* A secret that is set to nothing is refused; a visible value is not.
Binds(f, t) ==
  t \in Refs => t \in DOMAIN EnvValue /\ (f = "password" => EnvValue[t] # "")

CanBind(m) == \A f \in Bindable(m.of.kind) : Binds(f, m.spec[f])

Bind(m) ==
  [m EXCEPT !.spec = [f \in Declarable(m.of.kind) |->
     IF f \in Bindable(m.of.kind) /\ @[f] \in Refs THEN EnvValue[@[f]] ELSE @[f]]]

-----------------------------------------------------------------------------
(* Validation of a manifest (Application.Validate, Database.Validate).      *)

ValidBuild(m) ==
  CASE m.build = "dockerimage" ->
         m.spec["image.name"] # "" /\ m.spec["image.tag"] # "" /\ m.spec["port"] # "0"
    [] m.build = "git" ->
         m.spec["source.git_repository"] \notin {"", Placeholder} /\ m.spec["source.ports_exposes"] # ""
    [] OTHER -> TRUE

Valid(m) ==
  /\ \A f \in Destination : m.spec[f] # ""
  /\ IF m.of.kind = "Application"
       THEN (m.spec["fqdn"] # "" => m.spec["fqdn"] \in Urls) /\ ValidBuild(m)
       ELSE (m.spec["public"] = "true") <=> (m.spec["public_port"] # "0")

-----------------------------------------------------------------------------
(* Projections into the diff (plan/project.go).                            *)

\* A limit that counts as none; 1024 is what Coolify sets by default.
Unlimited(f, t) == t \in {"", "0"} \/ (f = "limits.cpu_shares" /\ t = "1024")

\* FromApplication and FromDatabase.  An application has an image only when it
\* is built from one.
Desired(m) ==
  LET shown ==
    IF m.of.kind = "Application"
      THEN {f \in Diffable("Application") : f \in Image => m.build = "dockerimage"}
      ELSE {f \in Diffable("Database") :
              /\ f = "public_port" => m.spec["public"] = "true"
              /\ f \in Limits => m.spec[f] \notin {"", "0"}}
  IN [f \in shown |-> m.spec[f]]

\* Mutant of Actual: the port a private database happens to have is compared.
ActualWithPort(kind, o) ==
  [f \in {g \in Diffable(kind) : g \in Limits => ~Unlimited(g, o[g])} |-> o[f]]

\* FromRemoteApplication and FromRemoteDatabase.
Actual(kind, o) ==
  LET shown ==
    {f \in Diffable(kind) :
       /\ f = "public_port" => o["public"] = "true"
       /\ f \in Limits => ~Unlimited(f, o[f])}
  IN [f \in shown |-> o[f]]

-----------------------------------------------------------------------------
(* The diff (plan.Diff): from the fields that differ to their changes.      *)

Change(op, new) == [op |-> op, new |-> new]

\* Mutant of Differs: a reference is compared as it is written.
DiffersLiterally(want, have, f) ==
  f \in DOMAIN want /\ f \in DOMAIN have => want[f] # have[f]

\* diffValue on visible values: one that is still a reference is not known.
Differs(want, have, f) ==
  f \in DOMAIN want /\ f \in DOMAIN have => want[f] \notin Refs /\ want[f] # have[f]

Diff(want, have) ==
  [f \in {g \in DOMAIN want \cup DOMAIN have : Differs(want, have, g)} |->
     IF f \notin DOMAIN want THEN Change("delete", "")
     ELSE IF f \notin DOMAIN have THEN Change("add", want[f])
     ELSE Change("update", want[f])]

\* Diff of a resource that does not exist: everything is added.
Additions(want) == [f \in DOMAIN want |-> Change("add", want[f])]

\* destinationMoveError, on the changes that force a re-creation.
Moves(changes) == DOMAIN changes \cap Destination # {}

-----------------------------------------------------------------------------
(* The requests (apply.go, types.go).                                      *)

\* Mutant of Patchable: a case of the switch is missing.
PatchableButPort(kind) == Diffable(kind) \ (Destination \cup {"public_port"})

Patchable(kind) == Diffable(kind) \ Destination

\* Empty strings and zero numbers are left out of a body ("omitempty"); the
\* port of an application is a string there.
Omitted(f, t) == t = "" \/ (f \in {"public_port", "limits.cpu_shares"} /\ t = "0")

\* Mutant of Patched: the whole manifest is sent, not the changes.
PatchedWhole(m, o, changes) ==
  [f \in DOMAIN o |-> IF f \in Patchable(m.of.kind) /\ ~Omitted(f, m.spec[f])
                        THEN m.spec[f] ELSE o[f]]

\* The object after updateRequestFromChanges' or
\* updateDatabaseRequestFromChanges' PATCH.
Patched(m, o, changes) ==
  [f \in DOMAIN o |->
     IF f \in DOMAIN changes \cap Patchable(m.of.kind) /\ ~Omitted(f, changes[f].new)
       THEN changes[f].new ELSE o[f]]

\* What applicationCreateRequest or databaseCreateRequest asks for: of the
\* destination only the server, and a git build's own ports.
Requested(m) ==
  LET server == "destination.server" IN
  [f \in Known(m.of.kind) \ {"destination.network"} |->
     IF f = "host" THEN m.spec[server]
     ELSE IF f = "port" /\ m.build = "git" THEN m.spec["source.ports_exposes"]
     ELSE IF <<f, m.spec[f]>> \in {<<"port", "0">>, <<"public", "false">>} THEN ""
     ELSE m.spec[f]]

\* Mutant of Created: what is not asked for is not there.
CreatedBare(m) ==
  [f \in {g \in DOMAIN Requested(m) : ~Omitted(g, Requested(m)[g])} |-> Requested(m)[f]]

Created(m) ==
  [f \in Known(m.of.kind) |->
     IF f \in DOMAIN Requested(m) /\ ~Omitted(f, Requested(m)[f])
       THEN Requested(m)[f] ELSE Defaults[m.of.kind][f]]

-----------------------------------------------------------------------------
(* The importer's mapping (mapApplication, mapDatabase).                   *)

NetworkOrDefault(t) == IF t # "" THEN t ELSE DefaultNetwork

\* Limits are not mapped; of several ports the first is kept.
MapDatabase(r, o) ==
  [of |-> r, build |-> "git", spec |-> [f \in Declarable("Database") |->
     CASE f = "destination.server" -> o["host"]
       [] f = "destination.network" -> NetworkOrDefault(o[f])
       [] f = "password" -> PasswordRef[r]
       [] f = "public_port" /\ o["public"] # "true" -> "0"
       [] f = "limits.cpu_shares" -> "0"
       [] f = "limits.memory" -> ""
       [] OTHER -> o[f]]]

MapApplication(r, o) ==
  LET image == o["image.name"] # "" IN
  [of |-> r, build |-> IF image THEN "dockerimage" ELSE "git",
   spec |-> [f \in Declarable("Application") |->
     CASE f = "destination.server" -> o["host"]
       [] f = "destination.network" -> NetworkOrDefault(o[f])
       [] f = "source.git_repository" -> Placeholder
       [] f = "source.ports_exposes" -> IF image THEN "" ELSE o["port"]
       [] f = "port" -> IF image THEN FirstPort[o["port"]] ELSE "0"
       [] f \in Image /\ ~image -> ""
       [] OTHER -> o[f]]]

\* Mutant of Map: the live password is written.
MapInClear(r, o) ==
  IF r.kind = "Application" THEN MapApplication(r, o)
  ELSE [MapDatabase(r, o) EXCEPT !.spec["password"] = o["password"]]

Map(r, o) == IF r.kind = "Application" THEN MapApplication(r, o) ELSE MapDatabase(r, o)
=============================================================================
