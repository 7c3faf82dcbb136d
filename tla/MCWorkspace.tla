----------------------------- MODULE MCWorkspace -----------------------------
(* Instances of Workspace: scenarios with one process and rich contents, and *)
(* with two processes and poor ones.                                        *)
EXTENDS WorkspaceProps, TLC

Res(project, environment, kind, name) ==
  [project |-> project, environment |-> environment, kind |-> kind, name |-> name]

\* Two applications of one path, in two projects, and a database.
web == Res("p", "e", "Application", "web")
web2 == Res("q", "e", "Application", "web")
db == Res("p", "e", "Database", "db")
AllResources == {web, web2, db}

texts == {"d1", "d2", "img", "v1", "v2", "s1", "net", "coolify", "80", "3000", "3000,80",
          "https://a", "git@x", "$D", "$T", "$U", "$PW", "s3cret", "512m", "2048", "pg:16"}
AllText == texts \cup Fixed
AllRefs == {"$D", "$T", "$U", "$PW"}
EnvOf == "$D" :> "d1" @@ "$T" :> "v2" @@ "$PW" :> "s3cret"
AllUrls == {"https://a"}
Ports == [t \in AllText |-> IF t \in {"80", "3000"} THEN t
                            ELSE IF t = "3000,80" THEN "3000" ELSE "0"]
PasswordRefs == [r \in AllResources |-> "$PW"]

App(build, description, fqdn, port, image, tag, network, ports) ==
  [of |-> web, build |-> build, spec |->
     "description" :> description @@ "fqdn" :> fqdn @@ "port" :> port @@
     "image.name" :> image @@ "image.tag" :> tag @@
     "destination.server" :> "s1" @@ "destination.network" :> network @@
     "source.git_repository" :> (IF build = "git" THEN "git@x" ELSE "") @@
     "source.ports_exposes" :> ports]
Db(description, image, public, port, cpu, memory, password) ==
  [of |-> db, build |-> "git", spec |->
     "description" :> description @@ "image" :> image @@ "public" :> public @@
     "public_port" :> port @@ "destination.server" :> "s1" @@
     "destination.network" :> "coolify" @@ "limits.cpu_shares" :> cpu @@
     "limits.memory" :> memory @@ "password" :> password]

\* Live objects; net is what GET says of the destination's network.
LiveApp(description, fqdn, port, image, tag, net) ==
  "description" :> description @@ "fqdn" :> fqdn @@ "port" :> port @@
  "image.name" :> image @@ "image.tag" :> tag @@
  "destination.server" :> (IF net = "" THEN "" ELSE "s1") @@
  "destination.network" :> net @@ "host" :> "s1"
LiveDb(description, image, public, port, cpu, memory) ==
  "description" :> description @@ "image" :> image @@ "public" :> public @@
  "public_port" :> port @@ "destination.server" :> "s1" @@
  "destination.network" :> "coolify" @@ "limits.cpu_shares" :> cpu @@
  "limits.memory" :> memory @@ "host" :> "s1" @@ "password" :> "s3cret"

CoolifyDefaults ==
  "Application" :> LiveApp("", "", "80", "", "", "coolify") @@
  "Database" :> [LiveDb("", "pg:16", "false", "0", "1024", "0") EXCEPT !["password"] = "s3cret"]

image == App("dockerimage", "d1", "https://a", "3000", "img", "v1", "coolify", "")
imageRefs == App("dockerimage", "$D", "", "3000", "img", "$T", "coolify", "")
imageNet == App("dockerimage", "", "", "80", "img", "v2", "net", "")
imageUnset == App("dockerimage", "", "https://a", "80", "img", "$U", "coolify", "")
git == App("git", "d1", "https://a", "0", "", "", "coolify", "3000")
inline == App("inline", "", "", "0", "", "", "coolify", "")
broken == App("dockerimage", "d1", "https://a", "0", "img", "v1", "coolify", "")
plain == Db("d1", "pg:16", "false", "0", "0", "", "$PW")
public == Db("$D", "", "true", "80", "1024", "512m", "$PW")
shared == Db("", "pg:16", "true", "3000", "2048", "$T", "")

AllDrafts == {git, broken, plain}
SomeKnobs == {<<"description", "d2">>, <<"port", "3000,80">>, <<"public", "true">>,
              <<"limits.memory", "512m">>}

-----------------------------------------------------------------------------

Nothing == [r \in AllResources |-> NoObject]
NoFiles == [path \in Paths |-> NoFile]
PathWeb == PathOf(web)
PathDb == PathOf(db)

Scenario(files, rt, objects, scr, d, l) ==
  [disk |-> files, root |-> rt, live |-> objects, script |-> scr,
   edits |-> [disk |-> d, live |-> l]]

liveApps == {LiveApp("d1", "https://a", "3000", "img", "v1", "coolify"),
             LiveApp("", "", "3000,80", "img", "v2", "coolify"),
             LiveApp("d2", "https://a", "3000", "", "", "coolify"),
             LiveApp("d1", "", "80", "img", "v1", "")}
liveDbs == {LiveDb("d1", "pg:16", "false", "80", "1024", "0"),
            LiveDb("", "pg:16", "true", "3000", "2048", "512m")}

\* One process: an application or a database in every state, and the commands
\* in every order that matters.
Alone == [p |-> <<>>, q |-> <<>>]
Scripts == {<<"import", "plan", "plan offline", "apply">>, <<"apply", "apply">>, <<"apply", "import --force">>}
Rich ==
  {Scenario([NoFiles EXCEPT ![PathWeb] = m], "absent", [Nothing EXCEPT ![web] = o],
            [Alone EXCEPT !.p = s], 0, 1) :
     m \in {image, imageRefs, imageNet, imageUnset, git, inline, NoFile},
     o \in liveApps \cup {NoObject}, s \in Scripts}
  \cup
  {Scenario([NoFiles EXCEPT ![PathDb] = m], "absent", [Nothing EXCEPT ![db] = o],
            [Alone EXCEPT !.p = s], 0, 1) :
     m \in {plain, public, shared, NoFile}, o \in liveDbs \cup {NoObject}, s \in Scripts}

\* Two processes on a directory, and an editor: the two applications of one
\* path, or an application and the database.
liveWeb == LiveApp("d1", "https://a", "3000", "img", "v1", "coolify")
Clash == [Nothing EXCEPT ![web] = liveWeb,
                         ![web2] = LiveApp("d2", "https://a", "80", "img", "v1", "coolify")]
Pair == [Nothing EXCEPT ![web] = liveWeb,
                        ![db] = LiveDb("d1", "pg:16", "false", "80", "1024", "0")]
Poor ==
  {Scenario(NoFiles, "absent", x[1], [p |-> <<"import">>, q |-> <<x[2]>>], 1, 0) :
     x \in {<<Clash, "import">>, <<Pair, "import --force">>, <<Pair, "plan">>}}
  \cup
  {Scenario([NoFiles EXCEPT ![PathWeb] = x[1], ![PathDb] = plain], "whole", Pair,
            [p |-> <<x[2]>>, q |-> <<x[3]>>], 1, 0) :
     x \in {<<image, "import --force", "apply">>, <<image, "import --force", "save">>,
            <<image, "save", "apply">>, <<image, "save", "save">>, <<Garbage, "save", "apply">>}}

AllScenarios == Rich \cup Poor
GitTwice ==
  {Scenario([NoFiles EXCEPT ![PathWeb] = git], "whole",
            [Nothing EXCEPT ![web] = LiveApp("d1", "https://a", "3000", "", "", "coolify")],
            [Alone EXCEPT !.p = <<"apply">>], 0, 0)}
Two == {"p", "q"}
=============================================================================
