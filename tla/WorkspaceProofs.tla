-------------------------- MODULE WorkspaceProofs --------------------------
(***************************************************************************)
(* Theorems about the workspace, for every set of resources, texts,        *)
(* scenarios, processes and faults.                                        *)
(***************************************************************************)
EXTENDS WorkspaceProps, TLAPS

Kinds == {"Application", "Database"}

-----------------------------------------------------------------------------
(* The fields.                                                             *)

LEMMA ResourceKind ==
  ASSUME NEW r \in Resources
  PROVE  r.kind \in Kinds /\ PathOf(r) \in Paths /\ KindAt(PathOf(r)) = r.kind
BY ResourcesType DEF Kinds, PathOf, Paths, KindAt

LEMMA TextFacts ==
  /\ \A t \in Fixed : t \in Text /\ t \notin Refs
  /\ Refs \subseteq Text
  /\ DefaultNetwork \in Text
  /\ \A r \in Resources : PasswordRef[r] \in Refs
  /\ \A t \in Text : FirstPort[t] \in Text /\ FirstPort[t] \notin Refs
  /\ \A t \in DOMAIN EnvValue : t \in Refs /\ EnvValue[t] \in Text /\ EnvValue[t] \notin Refs
BY TextType, EnvValueType, FirstPortType

LEMMA FieldSets ==
  ASSUME NEW kind \in Kinds
  PROVE  /\ Diffable(kind) \subseteq Known(kind)
         /\ Diffable(kind) \subseteq Declarable(kind)
         /\ Patchable(kind) \subseteq Diffable(kind)
         /\ Destination \subseteq Diffable(kind)
BY DEF Kinds, Diffable, Known, Declarable, Patchable, Destination, Image, Limits

LEMMA ManifestFacts ==
  ASSUME NEW m \in Manifests
  PROVE  /\ m.of \in Resources
         /\ m.of.kind \in Kinds
         /\ m.build \in Builds
         /\ m.spec \in [Declarable(m.of.kind) -> Text]
         /\ \A f \in Numbers \cap Declarable(m.of.kind) : m.spec[f] \notin Refs
         /\ m.of.kind = "Database" => m.spec["public"] \in {"true", "false"}
         /\ m = [of |-> m.of, build |-> m.build, spec |-> m.spec]
BY ResourceKind DEF Manifests

LEMMA ManifestMade ==
  ASSUME NEW r \in Resources, NEW b \in Builds, NEW s \in [Declarable(r.kind) -> Text],
         \A f \in Numbers \cap Declarable(r.kind) : s[f] \notin Refs,
         r.kind = "Database" => s["public"] \in {"true", "false"}
  PROVE  [of |-> r, build |-> b, spec |-> s] \in Manifests
<1>1. r.kind \in Kinds
  BY ResourceKind
<1>2. s \in [Declarable("Application") -> Text] \cup [Declarable("Database") -> Text]
  BY <1>1 DEF Kinds
<1>3. QED
  BY <1>2 DEF Manifests

\* Binding keeps a manifest a manifest.
LEMMA BindType ==
  ASSUME NEW m \in Manifests, CanBind(m)
  PROVE  /\ Bind(m) \in Manifests
         /\ Bind(m).of = m.of /\ Bind(m).build = m.build
         /\ \A f \in Declarable(m.of.kind) :
              Bind(m).spec[f] = IF f \in Bindable(m.of.kind) /\ m.spec[f] \in Refs
                                  THEN EnvValue[m.spec[f]] ELSE m.spec[f]
<1> DEFINE k == m.of.kind
           s == [f \in Declarable(k) |->
                   IF f \in Bindable(k) /\ m.spec[f] \in Refs THEN EnvValue[m.spec[f]]
                   ELSE m.spec[f]]
<1>1. /\ m.of \in Resources /\ k \in Kinds /\ m.build \in Builds
      /\ m.spec \in [Declarable(k) -> Text]
      /\ \A f \in Numbers \cap Declarable(k) : m.spec[f] \notin Refs
      /\ k = "Database" => m.spec["public"] \in {"true", "false"}
      /\ m = [of |-> m.of, build |-> m.build, spec |-> m.spec]
  BY ManifestFacts
<1>2. Bind(m) = [of |-> m.of, build |-> m.build, spec |-> s]
  BY <1>1 DEF Bind
<1>3. ASSUME NEW f \in Declarable(k)
      PROVE  s[f] \in Text
  <2>1. CASE f \in Bindable(k) /\ m.spec[f] \in Refs
    <3>1. m.spec[f] \in DOMAIN EnvValue
      BY <2>1 DEF CanBind, Binds
    <3>2. QED
      BY <2>1, <3>1, TextFacts
  <2>2. CASE ~(f \in Bindable(k) /\ m.spec[f] \in Refs)
    BY <2>2, <1>1
  <2>3. QED
    BY <2>1, <2>2
<1>4. s \in [Declarable(k) -> Text]
  BY <1>3
<1>5. \A f \in Numbers \cap Declarable(k) : s[f] \notin Refs
  BY <1>1
<1>6. k = "Database" => s["public"] \in {"true", "false"}
  BY <1>1 DEF Declarable, Diffable, Bindable
<1>7. Bind(m) \in Manifests
  BY <1>1, <1>2, <1>4, <1>5, <1>6, ManifestMade
<1>8. QED
  BY <1>2, <1>7

\* An import makes manifests that hold no password.
LEMMA MapType ==
  ASSUME NEW r \in Resources, NEW o \in Objects(r.kind)
  PROVE  Map(r, o) \in Manifests /\ Map(r, o).of = r /\ Clean(Map(r, o))
<1>1. /\ r.kind \in Kinds
      /\ o \in [Known(r.kind) -> Text]
      /\ \A f \in Numbers \cap Known(r.kind) : o[f] \notin Refs
      /\ r.kind = "Database" => o["public"] \in {"true", "false"}
  BY ResourceKind DEF Objects
<1>2. CASE r.kind = "Application"
  <2>1. Map(r, o) = MapApplication(r, o)
    BY <1>2 DEF Map
  <2> DEFINE m == MapApplication(r, o)
  <2>2. m.of = r /\ m.build \in Builds
    BY DEF MapApplication, Builds
  <2>3. m = [of |-> r, build |-> m.build, spec |-> m.spec]
    BY DEF MapApplication
  <2>4. \A f \in {"port", "host", "image.name", "destination.network"} : o[f] \in Text
    BY <1>1, <1>2 DEF Known, Diffable, Image, Destination
  <2>5. \A f \in Diffable("Application") : o[f] \in Text
    BY <1>1, <1>2, FieldSets DEF Kinds
  <2>6. m.spec \in [Declarable("Application") -> Text]
    BY <2>4, <2>5, TextFacts
    DEF MapApplication, Declarable, NetworkOrDefault, Fixed
  <2>7. \A f \in Numbers \cap Declarable("Application") : m.spec[f] \notin Refs
    BY <2>4, TextFacts
    DEF MapApplication, Numbers, Declarable, Diffable, Image, Destination, Fixed
  <2>8. m \in Manifests
    <3> HIDE DEF m
    <3>1. [of |-> r, build |-> m.build, spec |-> m.spec] \in Manifests
      BY <1>2, <2>2, <2>6, <2>7, ManifestMade
    <3>2. QED
      BY <3>1, <2>3
  <2>9. QED
    BY <2>1, <2>2, <2>8, <1>2 DEF Clean
<1>3. CASE r.kind = "Database"
  <2>1. Map(r, o) = MapDatabase(r, o)
    BY <1>3 DEF Map
  <2> DEFINE m == MapDatabase(r, o)
  <2>2. m.of = r /\ m.build \in Builds
    BY DEF MapDatabase, Builds
  <2>3. m = [of |-> r, build |-> m.build, spec |-> m.spec]
    BY DEF MapDatabase
  <2>4. \A f \in {"host", "public", "public_port", "destination.network"} : o[f] \in Text
    BY <1>1, <1>3 DEF Known, Diffable, Destination
  <2>5. \A f \in Diffable("Database") : o[f] \in Text
    BY <1>1, <1>3, FieldSets DEF Kinds
  <2>6. m.spec \in [Declarable("Database") -> Text]
    BY <2>4, <2>5, TextFacts DEF MapDatabase, Declarable, NetworkOrDefault, Fixed
  <2>7. \A f \in Numbers \cap Declarable("Database") : m.spec[f] \notin Refs
    BY <1>1, <1>3, TextFacts
    DEF MapDatabase, Numbers, Declarable, Diffable, Destination, Limits, Known, Fixed
  <2>8. m.spec["public"] \in {"true", "false"} /\ m.spec["password"] \in Refs
    BY <1>1, <1>3, TextFacts DEF MapDatabase, Declarable, Diffable
  <2>9. m \in Manifests
    <3> HIDE DEF m
    <3>1. [of |-> r, build |-> m.build, spec |-> m.spec] \in Manifests
      BY <1>3, <2>2, <2>6, <2>7, <2>8, ManifestMade
    <3>2. QED
      BY <3>1, <2>3
  <2>10. QED
    BY <2>1, <2>2, <2>8, <2>9 DEF Clean
<1>4. QED
  BY <1>1, <1>2, <1>3 DEF Kinds

-----------------------------------------------------------------------------
(* Changes and requests.                                                   *)

LEMMA DesiredFacts ==
  ASSUME NEW m \in Manifests
  PROVE  /\ DOMAIN Desired(m) \subseteq Diffable(m.of.kind)
         /\ \A f \in DOMAIN Desired(m) : Desired(m)[f] = m.spec[f]
         /\ \A f \in Diffable(m.of.kind) \ ({"public_port"} \cup Limits \cup Image) :
              f \in DOMAIN Desired(m)
         /\ "public_port" \in DOMAIN Desired(m) <=>
              m.of.kind = "Database" /\ m.spec["public"] = "true"
         /\ \A f \in Limits : f \in DOMAIN Desired(m) <=>
              m.of.kind = "Database" /\ m.spec[f] \notin {"", "0"}
         /\ \A f \in Image : f \in DOMAIN Desired(m) <=>
              m.of.kind = "Application" /\ m.build = "dockerimage"
BY ManifestFacts DEF Desired, Kinds, Diffable, Image, Limits, Destination

LEMMA ActualFacts ==
  ASSUME NEW kind \in Kinds, NEW o
  PROVE  /\ DOMAIN Actual(kind, o) \subseteq Diffable(kind)
         /\ \A f \in DOMAIN Actual(kind, o) : Actual(kind, o)[f] = o[f]
         /\ \A f \in Diffable(kind) \ ({"public_port"} \cup Limits) : f \in DOMAIN Actual(kind, o)
         /\ "public_port" \in DOMAIN Actual(kind, o) <=>
              kind = "Database" /\ o["public"] = "true"
         /\ \A f \in Limits : f \in DOMAIN Actual(kind, o) <=>
              kind = "Database" /\ ~Unlimited(f, o[f])
BY DEF Actual, Kinds, Diffable, Image, Limits, Destination

\* What separates m from the live object o.
Changing(m, o) == Diff(Desired(m), Actual(m.of.kind, o))

LEMMA ChangingFields ==
  ASSUME NEW m \in Manifests, NEW o
  PROVE  /\ DOMAIN Changing(m, o) \subseteq Diffable(m.of.kind)
         /\ \A f \in Diffable(m.of.kind) :
              f \in DOMAIN Changing(m, o) <=>
                /\ f \in DOMAIN Desired(m) \/ f \in DOMAIN Actual(m.of.kind, o)
                /\ f \in DOMAIN Desired(m) /\ f \in DOMAIN Actual(m.of.kind, o)
                     => m.spec[f] \notin Refs /\ m.spec[f] # o[f]
<1> DEFINE W == Desired(m)
           A == Actual(m.of.kind, o)
<1>1. /\ DOMAIN W \subseteq Diffable(m.of.kind)
      /\ \A f \in DOMAIN W : W[f] = m.spec[f]
  BY DesiredFacts
<1>2. /\ DOMAIN A \subseteq Diffable(m.of.kind)
      /\ \A f \in DOMAIN A : A[f] = o[f]
  BY ActualFacts, ManifestFacts
<1>3. Changing(m, o) = Diff(W, A)
  BY DEF Changing
<1> HIDE DEF W, A
<1>4. DOMAIN Changing(m, o) = {f \in DOMAIN W \cup DOMAIN A : Differs(W, A, f)}
  BY <1>3 DEF Diff
<1>5. DOMAIN Changing(m, o) \subseteq Diffable(m.of.kind)
  BY <1>1, <1>2, <1>4
<1>6. \A f \in Diffable(m.of.kind) :
        f \in DOMAIN Changing(m, o) <=>
          /\ f \in DOMAIN W \/ f \in DOMAIN A
          /\ f \in DOMAIN W /\ f \in DOMAIN A => m.spec[f] \notin Refs /\ m.spec[f] # o[f]
  BY <1>1, <1>2, <1>4 DEF Differs
<1>7. QED
  BY <1>5, <1>6 DEF W, A

LEMMA ChangeParts ==
  ASSUME NEW c, NEW op, NEW new, c = Change(op, new)
  PROVE  c.op = op /\ c.new = new
BY DEF Change

LEMMA ChangingValues ==
  ASSUME NEW m \in Manifests, NEW o, NEW f \in DOMAIN Changing(m, o)
  PROVE  /\ f \in DOMAIN Desired(m) => /\ Changing(m, o)[f].new = m.spec[f]
                                       /\ Changing(m, o)[f].op # "delete"
         /\ f \notin DOMAIN Desired(m) => /\ Changing(m, o)[f].new = ""
                                          /\ Changing(m, o)[f].op = "delete"
<1> DEFINE W == Desired(m)
           A == Actual(m.of.kind, o)
<1>1. \A g \in DOMAIN W : W[g] = m.spec[g]
  BY DesiredFacts
<1>2. Changing(m, o) = Diff(W, A)
  BY DEF Changing
<1> HIDE DEF W, A
<1>3. CASE f \notin DOMAIN W
  <2>1. Changing(m, o)[f] = Change("delete", "")
    BY <1>2, <1>3 DEF Diff
  <2>2. QED
    BY <1>3, <2>1, ChangeParts DEF W
<1>4. CASE f \in DOMAIN W
  <2>1. PICK op \in {"add", "update"} : Changing(m, o)[f] = Change(op, W[f])
    BY <1>2, <1>4 DEF Diff
  <2>2. Changing(m, o)[f].new = W[f] /\ Changing(m, o)[f].op = op
    BY <2>1, ChangeParts
  <2>3. QED
    BY <1>1, <1>4, <2>1, <2>2 DEF W
<1>5. QED
  BY <1>3, <1>4

\* What an operation changes are fields the diff knows, to what the manifest
\* says or to nothing.
FieldChanges(m, changes) ==
  /\ DOMAIN changes \subseteq Diffable(m.of.kind)
  /\ \A f \in DOMAIN changes :
       /\ changes[f].new \in {m.spec[f], ""}
       /\ f = "public" => changes[f].new = m.spec[f]

LEMMA DiffChanges ==
  ASSUME NEW m \in Manifests, NEW o
  PROVE  FieldChanges(m, Changing(m, o))
<1>1. "public" \in DOMAIN Changing(m, o) => "public" \in DOMAIN Desired(m)
  BY ChangingFields, DesiredFacts DEF Limits, Image
<1>2. DOMAIN Changing(m, o) \subseteq Diffable(m.of.kind)
  BY ChangingFields
<1>3. QED
  BY <1>1, <1>2, ChangingValues DEF FieldChanges

LEMMA AdditionChanges ==
  ASSUME NEW m \in Manifests
  PROVE  FieldChanges(m, Additions(Desired(m)))
BY DesiredFacts DEF FieldChanges, Additions, Change

LEMMA FieldChangesType ==
  ASSUME NEW m \in Manifests, NEW verb \in {"create", "update"}, NEW changes,
         FieldChanges(m, changes)
  PROVE  Announcement([of |-> m.of, verb |-> verb, changes |-> changes])
<1>1. /\ m.of \in Resources /\ m.of.kind \in Kinds
      /\ m.spec \in [Declarable(m.of.kind) -> Text]
      /\ \A f \in Numbers \cap Declarable(m.of.kind) : m.spec[f] \notin Refs
      /\ m.of.kind = "Database" => m.spec["public"] \in {"true", "false"}
  BY ManifestFacts
<1>2. \A f \in DOMAIN changes : f \in Declarable(m.of.kind)
  BY <1>1, FieldSets DEF FieldChanges
<1>3. "" \in Text /\ "" \notin Refs
  BY TextFacts DEF Fixed
<1>4. "public" \in DOMAIN changes => m.of.kind = "Database"
  BY <1>1 DEF FieldChanges, Kinds, Diffable, Image, Destination
<1>5. QED
  BY <1>1, <1>2, <1>3, <1>4 DEF Announcement, FieldChanges

LEMMA PatchedType ==
  ASSUME NEW m \in Manifests, NEW o \in Objects(m.of.kind), NEW changes,
         FieldChanges(m, changes)
  PROVE  Patched(m, o, changes) \in Objects(m.of.kind)
<1> DEFINE k == m.of.kind
           n == Patched(m, o, changes)
<1>1. /\ k \in Kinds
      /\ m.spec \in [Declarable(k) -> Text]
      /\ \A f \in Numbers \cap Declarable(k) : m.spec[f] \notin Refs
      /\ k = "Database" => m.spec["public"] \in {"true", "false"}
  BY ManifestFacts
<1>2. /\ o \in [Known(k) -> Text]
      /\ \A f \in Numbers \cap Known(k) : o[f] \notin Refs
      /\ o["destination.server"] \in {"", o["host"]}
      /\ k = "Database" => o["public"] \in {"true", "false"}
  BY DEF Objects
<1>3. \A f \in Known(k) :
        \/ n[f] = o[f]
        \/ /\ f \in DOMAIN changes \cap Patchable(k)
           /\ n[f] = changes[f].new
           /\ ~Omitted(f, changes[f].new)
  BY <1>2 DEF Patched
<1>4. DOMAIN n = Known(k)
  BY <1>2 DEF Patched
<1>5. ASSUME NEW f \in Known(k)
      PROVE  n[f] = o[f] \/ (n[f] = m.spec[f] /\ f \in Declarable(k) /\ f \in Patchable(k))
  BY <1>1, <1>3, FieldSets DEF FieldChanges, Omitted
<1>6. n \in [Known(k) -> Text]
  <2>1. \A f \in Known(k) : n[f] \in Text
    BY <1>1, <1>2, <1>5
  <2>2. n = [f \in Known(k) |-> n[f]]
    BY <1>2 DEF Patched
  <2> HIDE DEF n
  <2>3. QED
    BY <2>1, <2>2
<1>7. n["destination.server"] = o["destination.server"] /\ n["host"] = o["host"]
  BY <1>1, <1>5 DEF Kinds, Known, Diffable, Patchable, Destination, Image, Limits
<1>8. k = "Database" => n["public"] \in {"true", "false"}
  BY <1>1, <1>2, <1>5 DEF Known, Diffable
<1>9. \A f \in Numbers \cap Known(k) : n[f] \notin Refs
  BY <1>1, <1>2, <1>5
<1>10. QED
  BY <1>2, <1>6, <1>7, <1>8, <1>9 DEF Objects

\* Nothing apply binds is a reference any more.
Bound(m) == \A f \in Bindable(m.of.kind) : m.spec[f] \notin Refs

LEMMA BindBound ==
  ASSUME NEW m \in Manifests, CanBind(m)
  PROVE  Bound(Bind(m))
<1>1. m.of.kind \in Kinds
  BY ManifestFacts
<1>2. Bindable(m.of.kind) \subseteq Declarable(m.of.kind)
  BY <1>1 DEF Kinds, Bindable, Declarable, Diffable, Image, Destination
<1>3. \A f \in Bindable(m.of.kind) : m.spec[f] \in Refs => m.spec[f] \in DOMAIN EnvValue
  BY DEF CanBind, Binds
<1>4. QED
  BY <1>2, <1>3, BindType, TextFacts DEF Bound

\* The fields in which a reference may reach Coolify.
MayRefer(kind, f) == IF kind = "Application" THEN f = "description" ELSE f # "password"

LEMMA BoundFields ==
  ASSUME NEW m \in Manifests, Bound(m), NEW f \in Diffable(m.of.kind), m.spec[f] \in Refs
  PROVE  MayRefer(m.of.kind, f)
<1>1. /\ m.of.kind \in Kinds
      /\ \A g \in Numbers \cap Declarable(m.of.kind) : m.spec[g] \notin Refs
  BY ManifestFacts
<1>2. f \in Declarable(m.of.kind)
  BY <1>1, FieldSets
<1>3. QED
  BY <1>1, <1>2
  DEF Bound, Kinds, MayRefer, Diffable, Bindable, Numbers, Image, Destination, Limits

LEMMA CreatedFacts ==
  ASSUME NEW m \in Manifests
  PROVE  LET k == m.of.kind
             asked == Requested(m)
             c == Created(m)
         IN /\ DOMAIN c = Known(k)
            /\ DOMAIN asked = Known(k) \ {"destination.network"}
            /\ \A f \in Known(k) :
                 c[f] = IF f # "destination.network" /\ ~Omitted(f, asked[f])
                          THEN asked[f] ELSE Defaults[k][f]
            /\ \A f \in Known(k) \ {"destination.network", "host", "port", "public"} :
                 asked[f] = m.spec[f]
            /\ asked["host"] = m.spec["destination.server"]
            /\ asked["destination.server"] = m.spec["destination.server"]
            /\ k = "Application" => asked["port"] =
                 IF m.build = "git" THEN m.spec["source.ports_exposes"]
                 ELSE IF m.spec["port"] = "0" THEN "" ELSE m.spec["port"]
            /\ k = "Database" => asked["public"] =
                 IF m.spec["public"] = "false" THEN "" ELSE m.spec["public"]
<1>1. m.of.kind \in Kinds
  BY ManifestFacts
<1>2. QED
  BY <1>1 DEF Created, Requested, Kinds, Known, Diffable, Destination, Image, Limits

LEMMA CreatedType ==
  ASSUME NEW m \in Manifests, Bound(m)
  PROVE  /\ Created(m) \in Objects(m.of.kind)
         /\ \A f \in Known(m.of.kind) : Created(m)[f] \in Refs => MayRefer(m.of.kind, f)
<1> DEFINE k == m.of.kind
           c == Created(m)
           a == Requested(m)
           server == "destination.server"
<1>1. /\ k \in Kinds
      /\ m.spec \in [Declarable(k) -> Text]
      /\ \A f \in Numbers \cap Declarable(k) : m.spec[f] \notin Refs
      /\ k = "Database" => m.spec["public"] \in {"true", "false"}
  BY ManifestFacts
<1>2. /\ DOMAIN c = Known(k)
      /\ \A f \in Known(k) :
           c[f] = IF f # "destination.network" /\ ~Omitted(f, a[f]) THEN a[f] ELSE Defaults[k][f]
  BY CreatedFacts
<1>3. /\ Defaults[k] \in [Known(k) -> Text]
      /\ \A f \in Known(k) : Defaults[k][f] \notin Refs
      /\ Defaults[k][server] \in {"", Defaults[k]["host"]}
      /\ k = "Database" => Defaults[k]["public"] \in {"true", "false"}
  BY <1>1, DefaultsType DEF Kinds, Objects
<1>4. ASSUME NEW f \in Known(k), f # "destination.network"
      PROVE  /\ a[f] \in Text
             /\ f \in Numbers => a[f] \notin Refs
             /\ a[f] \in Refs => MayRefer(k, f)
  <2>1. CASE f \in Diffable(k) /\ f \notin {"port", "public"}
    <3>1. a[f] = m.spec[f]
      BY <2>1, <1>4, <1>1, CreatedFacts DEF Kinds, Diffable, Destination, Image, Limits
    <3>2. f \in Declarable(k)
      BY <2>1, <1>1, FieldSets
    <3>3. QED
      BY <2>1, <3>1, <3>2, <1>1, BoundFields
  <2>2. CASE f = "host"
    <3>1. a[f] = m.spec[server]
      BY <2>2, CreatedFacts
    <3>2. server \in Declarable(k)
      BY <1>1, FieldSets DEF Destination
    <3>3. k = "Application" => a[f] \notin Refs
      BY <3>1 DEF Bound, Bindable, Destination
    <3>4. QED
      BY <2>2, <3>1, <3>2, <3>3, <1>1 DEF Numbers, MayRefer, Kinds
  <2>3. CASE f = "password"
    <3>1. k = "Database"
      BY <2>3, <1>1 DEF Kinds, Known, Diffable, Destination, Image
    <3>2. a[f] = m.spec[f]
      BY <2>3, <1>4, CreatedFacts
    <3>3. f \in Declarable(k) /\ m.spec[f] \notin Refs
      BY <2>3, <3>1 DEF Declarable, Bound, Bindable
    <3>4. QED
      BY <2>3, <3>2, <3>3, <1>1 DEF Numbers
  <2>4. CASE f = "port"
    <3>1. k = "Application"
      BY <2>4, <1>1 DEF Kinds, Known, Diffable, Destination, Limits
    <3>2. {"port", "source.ports_exposes"} \subseteq Declarable(k)
      BY <3>1 DEF Declarable, Diffable
    <3>3. m.spec["port"] \notin Refs /\ m.spec["source.ports_exposes"] \notin Refs
      BY <1>1, <3>1, <3>2 DEF Numbers, Bound, Bindable
    <3>4. a[f] \in {m.spec["source.ports_exposes"], m.spec["port"], ""}
      BY <2>4, <3>1, CreatedFacts
    <3>5. QED
      BY <3>2, <3>3, <3>4, <1>1, TextFacts DEF Fixed
  <2>5. CASE f = "public"
    <3>1. k = "Database"
      BY <2>5, <1>1 DEF Kinds, Known, Diffable, Destination, Image
    <3>2. a[f] \in {"true", ""}
      BY <2>5, <3>1, <1>1, CreatedFacts
    <3>3. QED
      BY <3>2, TextFacts DEF Fixed
  <2>6. f \in Diffable(k) \/ f \in {"host", "password"}
    BY <1>1 DEF Kinds, Known
  <2>7. QED
    BY <2>1, <2>2, <2>3, <2>4, <2>5, <2>6
<1>5. ASSUME NEW f \in Known(k)
      PROVE  /\ c[f] \in Text
             /\ f \in Numbers => c[f] \notin Refs
             /\ c[f] \in Refs => MayRefer(k, f)
  BY <1>2, <1>3, <1>4
<1>6. c \in [Known(k) -> Text]
  <2>1. c = [f \in Known(k) |-> c[f]]
    BY DEF Created
  <2> HIDE DEF c
  <2>2. QED
    BY <2>1, <1>5
<1>7. c[server] \in {"", c["host"]}
  <2>1. {server, "host"} \subseteq Known(k)
    BY <1>1 DEF Kinds, Known, Diffable, Destination
  <2>2. a[server] = m.spec[server] /\ a["host"] = m.spec[server]
    BY CreatedFacts
  <2>3. Omitted(server, a[server]) <=> Omitted("host", a["host"])
    BY <2>2 DEF Omitted
  <2>4. QED
    BY <2>1, <2>2, <2>3, <1>2, <1>3
<1>8. k = "Database" => c["public"] \in {"true", "false"}
  <2> SUFFICES ASSUME k = "Database" PROVE c["public"] \in {"true", "false"}
    OBVIOUS
  <2>1. "public" \in Known(k)
    BY DEF Known, Diffable
  <2>2. a["public"] \in {"true", ""}
    BY <1>1, CreatedFacts
  <2>3. QED
    BY <2>1, <2>2, <1>2, <1>3 DEF Omitted
<1>9. QED
  BY <1>5, <1>6, <1>7, <1>8 DEF Objects

-----------------------------------------------------------------------------
(* What is left to do after an operation.                                  *)

\* What validation leaves true of a manifest when its references are bound.
Sound(m) ==
  IF m.of.kind = "Application"
    THEN m.build = "dockerimage" => m.spec["port"] # "0"
    ELSE (m.spec["public"] = "true") <=> (m.spec["public_port"] # "0")

Settles(m, o) == \A f \in DOMAIN Changing(m, o) : Stubborn(m, f, Changing(m, o)[f])

LEMMA SoundFields ==
  ASSUME NEW m \in Manifests, Sound(m), NEW f \in DOMAIN Desired(m), m.spec[f] # ""
  PROVE  ~Omitted(f, m.spec[f])
<1>1. CASE f = "public_port"
  BY <1>1, DesiredFacts, ManifestFacts DEF Sound, Omitted, Kinds
<1>2. CASE f = "limits.cpu_shares"
  BY <1>2, DesiredFacts DEF Limits, Omitted
<1>3. QED
  BY <1>1, <1>2 DEF Omitted

LEMMA PatchSettles ==
  ASSUME NEW m \in Manifests, Sound(m), NEW o \in Objects(m.of.kind),
         ~Moves(Changing(m, o))
  PROVE  Settles(m, Patched(m, o, Changing(m, o)))
<1> DEFINE k == m.of.kind
           D == Changing(m, o)
           n == Patched(m, o, D)
           W == DOMAIN Desired(m)
<1>1. /\ k \in Kinds
      /\ k = "Database" => m.spec["public"] \in {"true", "false"}
  BY ManifestFacts
<1>2. /\ DOMAIN o = Known(k)
      /\ k = "Database" => o["public"] \in {"true", "false"}
  BY DEF Objects
<1>3. ASSUME NEW f \in Known(k)
      PROVE  n[f] = IF f \in DOMAIN D \cap Patchable(k) /\ ~Omitted(f, D[f].new)
                      THEN D[f].new ELSE o[f]
  BY <1>2 DEF Patched
<1>4. SUFFICES ASSUME NEW f \in DOMAIN Changing(m, n), ~Stubborn(m, f, Changing(m, n)[f])
               PROVE  FALSE
  BY DEF Settles
<1>5. /\ f \in Diffable(k) /\ f \in Known(k)
      /\ f \in W \/ f \in DOMAIN Actual(k, n)
      /\ f \in W /\ f \in DOMAIN Actual(k, n) => m.spec[f] \notin Refs /\ m.spec[f] # n[f]
  BY <1>1, ChangingFields, FieldSets
<1>6. f \in W => m.spec[f] # "" /\ ~Omitted(f, m.spec[f])
  <2>1. f \in W => m.spec[f] # ""
    BY <1>4, ChangingValues DEF Stubborn
  <2>2. QED
    BY <2>1, SoundFields
<1>7. f \notin W => f = "public_port"
  BY <1>4, ChangingValues DEF Stubborn
<1>8. f \notin Destination
  <2>1. SUFFICES ASSUME f \in Destination PROVE FALSE
    OBVIOUS
  <2>2. f \in W /\ f \in DOMAIN Actual(k, n) /\ f \in DOMAIN Actual(k, o)
    BY <2>1, <1>1, <1>5, DesiredFacts, ActualFacts DEF Destination, Limits, Image
  <2>3. n[f] = o[f]
    BY <2>1, <1>3, <1>5 DEF Patchable
  <2>4. f \in DOMAIN D
    BY <2>2, <2>3, <1>5, ChangingFields
  <2>5. QED
    BY <2>1, <2>4 DEF Moves
<1>9. f \in Patchable(k)
  BY <1>5, <1>8 DEF Patchable
<1>10. f \in W => n[f] = IF f \in DOMAIN D THEN m.spec[f] ELSE o[f]
  <2>1. f \in W /\ f \in DOMAIN D => D[f].new = m.spec[f]
    BY ChangingValues
  <2>2. QED
    BY <2>1, <1>3, <1>5, <1>6, <1>9
<1>11. k = "Database" => n["public"] = m.spec["public"]
  <2> SUFFICES ASSUME k = "Database" PROVE n["public"] = m.spec["public"]
    OBVIOUS
  <2>1. "public" \in Diffable(k) /\ "public" \in Known(k) /\ "public" \in Patchable(k)
    BY DEF Diffable, Known, Patchable, Destination
  <2>2. "public" \in W /\ "public" \in DOMAIN Actual(k, o)
    BY <2>1, <1>1, DesiredFacts, ActualFacts DEF Limits, Image
  <2>3. m.spec["public"] \notin Refs
    BY <1>1, TextFacts DEF Fixed
  <2>4. "public" \in DOMAIN D <=> m.spec["public"] # o["public"]
    BY <2>1, <2>2, <2>3, ChangingFields
  <2>5. "public" \in DOMAIN D => D["public"].new = m.spec["public"]
    BY <2>2, ChangingValues
  <2>6. ~Omitted("public", m.spec["public"])
    BY <1>1 DEF Omitted
  <2>7. QED
    BY <2>1, <2>4, <2>5, <2>6, <1>3
<1>12. CASE f = "public_port"
  <2>1. k = "Database"
    BY <1>12, <1>1, <1>5 DEF Kinds, Diffable, Destination, Image
  <2>2. f \in W <=> f \in DOMAIN Actual(k, n)
    <3>1. f \in W <=> m.spec["public"] = "true"
      BY <2>1, <1>12, DesiredFacts
    <3>2. f \in DOMAIN Actual(k, n) <=> n["public"] = "true"
      BY <2>1, <1>1, <1>12, ActualFacts
    <3>3. QED
      BY <3>1, <3>2, <2>1, <1>11
  <2>3. f \in W /\ n[f] = o[f] /\ f \notin DOMAIN D
    BY <2>2, <1>5, <1>10
  <2>4. f \in DOMAIN Actual(k, o)
    BY <2>3, <1>5, ChangingFields
  <2>5. QED
    BY <2>2, <2>3, <2>4, <1>5, ChangingFields
<1>13. CASE f \in W /\ f \notin Limits /\ f # "public_port"
  <2>1. f \in DOMAIN Actual(k, n) /\ f \in DOMAIN Actual(k, o)
    BY <1>13, <1>1, <1>5, ActualFacts
  <2>2. QED
    BY <1>13, <2>1, <1>5, <1>10, ChangingFields
<1>14. CASE f \in W /\ f \in Limits
  <2>1. k = "Database" /\ m.spec[f] \notin {"", "0"}
    BY <1>14, DesiredFacts
  <2>2. ~Unlimited(f, m.spec[f])
    <3>1. SUFFICES ASSUME Unlimited(f, m.spec[f]) PROVE FALSE
      OBVIOUS
    <3>2. f = "limits.cpu_shares" /\ m.spec[f] = "1024"
      BY <3>1, <2>1 DEF Unlimited
    <3>3. Changing(m, n)[f].new = "1024"
      BY <3>2, <1>14, ChangingValues
    <3>4. QED
      BY <3>2, <3>3, <1>4 DEF Stubborn
  <2>3. f \in DOMAIN Actual(k, o) <=> ~Unlimited(f, o[f])
    BY <1>1, <1>14, <2>1, ActualFacts
  <2>4. f \in DOMAIN Actual(k, n) <=> ~Unlimited(f, n[f])
    BY <1>1, <1>14, <2>1, ActualFacts
  <2>5. QED
    BY <1>5, <1>10, <1>14, <2>2, <2>3, <2>4, ChangingFields
<1>15. QED
  BY <1>7, <1>12, <1>13, <1>14

LEMMA CreateSettles ==
  ASSUME NEW m \in Manifests, Sound(m)
  PROVE  Settles(m, Created(m))
<1> DEFINE k == m.of.kind
           n == Created(m)
           a == Requested(m)
           W == DOMAIN Desired(m)
<1>1. /\ k \in Kinds
      /\ k = "Database" => m.spec["public"] \in {"true", "false"}
  BY ManifestFacts
<1>2. SUFFICES ASSUME NEW f \in DOMAIN Changing(m, n), ~Stubborn(m, f, Changing(m, n)[f])
               PROVE  FALSE
  BY DEF Settles
<1>3. /\ f \in Diffable(k) /\ f \in Known(k)
      /\ f \in W \/ f \in DOMAIN Actual(k, n)
      /\ f \in W /\ f \in DOMAIN Actual(k, n) => m.spec[f] \notin Refs /\ m.spec[f] # n[f]
  BY <1>1, ChangingFields, FieldSets
<1>4. f \in W => m.spec[f] # "" /\ ~Omitted(f, m.spec[f])
  <2>1. f \in W => m.spec[f] # ""
    BY <1>2, ChangingValues DEF Stubborn
  <2>2. QED
    BY <2>1, SoundFields
<1>5. f \notin W => f = "public_port"
  BY <1>2, ChangingValues DEF Stubborn
<1>6. f # "destination.network"
  BY <1>2 DEF Stubborn
<1>7. k = "Database" => n["public"] = m.spec["public"]
  <2> SUFFICES ASSUME k = "Database" PROVE n["public"] = m.spec["public"]
    OBVIOUS
  <2>1. "public" \in Known(k)
    BY DEF Known, Diffable
  <2>2. a["public"] = IF m.spec["public"] = "false" THEN "" ELSE "true"
    BY <1>1, CreatedFacts
  <2>3. n["public"] = IF ~Omitted("public", a["public"]) THEN a["public"] ELSE "false"
    BY <2>1, CreatedFacts, DefaultsType
  <2>4. QED
    BY <1>1, <2>2, <2>3 DEF Omitted
<1>8. f \in W => n[f] = m.spec[f]
  <2> SUFFICES ASSUME f \in W PROVE n[f] = m.spec[f]
    OBVIOUS
  <2>1. CASE f \notin {"port", "public"}
    <3>1. f # "host"
      BY <1>1, <1>3 DEF Kinds, Diffable, Destination, Image, Limits
    <3>2. a[f] = m.spec[f]
      BY <2>1, <3>1, <1>3, <1>6, CreatedFacts
    <3>3. QED
      BY <3>2, <1>3, <1>4, <1>6, CreatedFacts
  <2>2. CASE f = "public"
    BY <2>2, <1>1, <1>3, <1>7 DEF Kinds, Diffable, Destination, Image
  <2>3. CASE f = "port"
    <3>1. k = "Application"
      BY <2>3, <1>1, <1>3 DEF Kinds, Diffable, Destination, Limits
    <3>2. m.build = "dockerimage"
      BY <2>3, <1>2 DEF Stubborn
    <3>3. a[f] = m.spec[f]
      BY <2>3, <3>1, <3>2, CreatedFacts DEF Sound
    <3>4. QED
      BY <3>3, <1>3, <1>4, <1>6, CreatedFacts
  <2>4. QED
    BY <2>1, <2>2, <2>3
<1>9. CASE f = "public_port"
  <2>1. k = "Database"
    BY <1>9, <1>1, <1>3 DEF Kinds, Diffable, Destination, Image
  <2>2. f \in W <=> m.spec["public"] = "true"
    BY <2>1, <1>9, DesiredFacts
  <2>3. f \in DOMAIN Actual(k, n) <=> n["public"] = "true"
    BY <2>1, <1>1, <1>9, ActualFacts
  <2>4. QED
    BY <2>1, <2>2, <2>3, <1>3, <1>7, <1>8
<1>10. CASE f \in W /\ f \notin Limits /\ f # "public_port"
  <2>1. f \in DOMAIN Actual(k, n)
    BY <1>10, <1>1, <1>3, ActualFacts
  <2>2. QED
    BY <1>10, <2>1, <1>3, <1>8
<1>11. CASE f \in W /\ f \in Limits
  <2>1. k = "Database" /\ m.spec[f] \notin {"", "0"}
    BY <1>11, DesiredFacts
  <2>2. f \notin DOMAIN Actual(k, n)
    BY <1>3, <1>8, <1>11
  <2>3. Unlimited(f, m.spec[f])
    BY <2>1, <2>2, <1>1, <1>8, <1>11, ActualFacts
  <2>4. f = "limits.cpu_shares" /\ m.spec[f] = "1024"
    BY <2>1, <2>3 DEF Unlimited
  <2>5. Changing(m, n)[f].new = "1024"
    BY <2>4, <1>11, ChangingValues
  <2>6. QED
    BY <2>4, <2>5, <1>2 DEF Stubborn
<1>12. QED
  BY <1>5, <1>9, <1>10, <1>11

LEMMA ValidSound ==
  ASSUME NEW m \in Manifests, Valid(m)
  PROVE  Sound(m)
BY ManifestFacts DEF Valid, ValidBuild, Sound, Kinds

LEMMA BindSound ==
  ASSUME NEW m \in Manifests, CanBind(m), Sound(m)
  PROVE  Sound(Bind(m))
<1>1. m.of.kind \in Kinds
  BY ManifestFacts
<1>2. CASE m.of.kind = "Application"
  <2>1. Bind(m).spec["port"] = m.spec["port"]
    BY <1>2, BindType DEF Declarable, Diffable, Bindable, Image, Destination
  <2>2. QED
    BY <1>2, <2>1, BindType DEF Sound
<1>3. CASE m.of.kind = "Database"
  <2>1. /\ Bind(m).spec["public"] = m.spec["public"]
        /\ Bind(m).spec["public_port"] = m.spec["public_port"]
    BY <1>3, BindType DEF Declarable, Diffable, Bindable
  <2>2. QED
    BY <1>3, <2>1, BindType DEF Sound
<1>4. QED
  BY <1>1, <1>2, <1>3 DEF Kinds

\* A plan announces what an apply does, but for the fields in which it sees a
\* reference and an apply its value.
LEMMA PlanLemma ==
  ASSUME NEW m \in Manifests, CanBind(m), NEW o
  PROVE  /\ DOMAIN Changing(m, o) \subseteq DOMAIN Changing(Bind(m), o)
         /\ \A f \in DOMAIN Changing(Bind(m), o) \ DOMAIN Changing(m, o) : m.spec[f] \in Refs
<1> DEFINE k == m.of.kind
           b == Bind(m)
<1>1. /\ k \in Kinds
      /\ k = "Database" => m.spec["public"] \in {"true", "false"}
  BY ManifestFacts
<1>2. /\ b \in Manifests /\ b.of = m.of /\ b.build = m.build
      /\ \A f \in Declarable(k) : m.spec[f] \notin Refs => b.spec[f] = m.spec[f]
      /\ \A f \in Declarable(k) \ Bindable(k) : b.spec[f] = m.spec[f]
  BY BindType
<1>3. DOMAIN Desired(b) = DOMAIN Desired(m)
  <2>1. k = "Database" =>
          \A f \in {"public"} \cup Limits : f \in Declarable(k) /\ f \notin Bindable(k)
    BY DEF Declarable, Diffable, Bindable, Limits
  <2>2. k = "Database" => \A f \in {"public"} \cup Limits : b.spec[f] = m.spec[f]
    BY <2>1, <1>2
  <2>3. CASE k = "Application"
    BY <2>3, <1>2 DEF Desired
  <2>4. CASE k = "Database"
    BY <2>2, <2>4, <1>2 DEF Desired
  <2>5. QED
    BY <1>1, <2>3, <2>4 DEF Kinds
<1>4. \A f \in Diffable(k) : f \in Declarable(k)
  BY <1>1, FieldSets
<1>5. ASSUME NEW f \in DOMAIN Changing(m, o)
      PROVE  f \in DOMAIN Changing(b, o)
  <2>1. /\ f \in Diffable(k)
        /\ f \in DOMAIN Desired(m) \/ f \in DOMAIN Actual(k, o)
        /\ f \in DOMAIN Desired(m) /\ f \in DOMAIN Actual(k, o)
             => m.spec[f] \notin Refs /\ m.spec[f] # o[f]
    BY ChangingFields
  <2>2. QED
    BY <2>1, <1>2, <1>3, <1>4, ChangingFields
<1>6. ASSUME NEW f \in DOMAIN Changing(b, o), f \notin DOMAIN Changing(m, o), m.spec[f] \notin Refs
      PROVE  FALSE
  <2>1. /\ f \in Diffable(k)
        /\ f \in DOMAIN Desired(m) \/ f \in DOMAIN Actual(k, o)
        /\ f \in DOMAIN Desired(m) /\ f \in DOMAIN Actual(k, o)
             => b.spec[f] \notin Refs /\ b.spec[f] # o[f]
    BY <1>2, <1>3, ChangingFields
  <2>2. b.spec[f] = m.spec[f]
    BY <2>1, <1>2, <1>4, <1>6
  <2>3. QED
    BY <2>1, <2>2, <1>6, ChangingFields
<1>7. QED
  BY <1>5, <1>6

LEMMA MapApplicationFields ==
  ASSUME NEW r \in Resources, NEW o, r.kind = "Application"
  PROVE  /\ Map(r, o).build = IF o["image.name"] # "" THEN "dockerimage" ELSE "git"
         /\ Map(r, o).spec["source.git_repository"] = Placeholder
         /\ o["image.name"] # "" => \A f \in Diffable("Application") :
              Map(r, o).spec[f] = IF f = "destination.server" THEN o["host"]
                                  ELSE IF f = "destination.network" THEN NetworkOrDefault(o[f])
                                  ELSE IF f = "port" THEN FirstPort[o["port"]] ELSE o[f]
<1> DEFINE a == MapApplication(r, o)
<1>1. a.build = IF o["image.name"] # "" THEN "dockerimage" ELSE "git"
  BY DEF MapApplication
<1>2. a.spec["source.git_repository"] = Placeholder
  <2>1. "source.git_repository" \in Declarable("Application")
    BY DEF Declarable
  <2>2. QED
    BY <2>1 DEF MapApplication, Image
<1>3. ASSUME o["image.name"] # "", NEW f \in Diffable("Application")
      PROVE  a.spec[f] = IF f = "destination.server" THEN o["host"]
                         ELSE IF f = "destination.network" THEN NetworkOrDefault(o[f])
                         ELSE IF f = "port" THEN FirstPort[o["port"]] ELSE o[f]
  BY <1>3 DEF MapApplication, Declarable, Diffable, Image, Destination
<1>4. Map(r, o) = a
  BY DEF Map
<1> HIDE DEF a
<1>5. QED
  BY <1>1, <1>2, <1>3, <1>4

LEMMA MapDatabaseFields ==
  ASSUME NEW r \in Resources, NEW o, r.kind = "Database"
  PROVE  \A f \in Diffable("Database") \ Limits :
           Map(r, o).spec[f] = IF f = "destination.server" THEN o["host"]
                               ELSE IF f = "destination.network" THEN NetworkOrDefault(o[f])
                               ELSE IF f = "public_port" /\ o["public"] # "true" THEN "0"
                               ELSE o[f]
<1> DEFINE d == MapDatabase(r, o)
<1>1. ASSUME NEW f \in Diffable("Database") \ Limits
      PROVE  d.spec[f] = IF f = "destination.server" THEN o["host"]
                         ELSE IF f = "destination.network" THEN NetworkOrDefault(o[f])
                         ELSE IF f = "public_port" /\ o["public"] # "true" THEN "0"
                         ELSE o[f]
  BY DEF MapDatabase, Declarable, Diffable, Destination, Limits
<1>2. Map(r, o) = d
  BY DEF Map
<1> HIDE DEF d
<1>3. QED
  BY <1>1, <1>2

\* What an import brings over is what is live.
LEMMA ImportLemma ==
  ASSUME NEW r \in Resources, NEW o \in Objects(r.kind), Valid(Map(r, o)),
         NEW f \in DOMAIN Changing(Map(r, o), o)
  PROVE  Lost(o, f)
<1> DEFINE m == Map(r, o)
<1>1. m \in Manifests /\ m.of = r /\ r.kind \in Kinds
  BY MapType, ResourceKind
<1>2. /\ f \in Diffable(r.kind)
      /\ f \in DOMAIN Desired(m) \/ f \in DOMAIN Actual(r.kind, o)
      /\ f \in DOMAIN Desired(m) /\ f \in DOMAIN Actual(r.kind, o) => m.spec[f] # o[f]
  BY <1>1, ChangingFields
<1>3. o["destination.server"] \in {"", o["host"]}
  BY DEF Objects
<1>4. SUFFICES ASSUME ~Lost(o, f) PROVE FALSE
  OBVIOUS
<1>5. /\ f \notin Limits
      /\ f = "port" => FirstPort[o["port"]] = o["port"]
      /\ f \in Destination => o[f] # ""
  BY <1>4 DEF Lost
<1>6. CASE r.kind = "Application"
  <2>1. o["image.name"] # "" /\ m.build = "dockerimage"
    <3>1. m.build = IF o["image.name"] # "" THEN "dockerimage" ELSE "git"
      BY <1>6, MapApplicationFields
    <3>2. m.spec["source.git_repository"] = Placeholder
      BY <1>6, MapApplicationFields
    <3>3. m.build # "git"
      BY <3>2, <1>1, <1>6 DEF Valid, ValidBuild
    <3>4. QED
      BY <3>1, <3>3
  <2>2. m.spec[f] = IF f = "destination.server" THEN o["host"]
                    ELSE IF f = "destination.network" THEN NetworkOrDefault(o[f])
                    ELSE IF f = "port" THEN FirstPort[o["port"]] ELSE o[f]
    BY <2>1, <1>2, <1>6, MapApplicationFields
  <2>3. m.spec[f] = o[f]
    BY <2>2, <1>3, <1>5 DEF NetworkOrDefault, Destination
  <2>4. f \in DOMAIN Desired(m)
    BY <2>1, <1>1, <1>2, <1>5, <1>6, DesiredFacts DEF Diffable, Image, Destination
  <2>5. f \in DOMAIN Actual(r.kind, o)
    BY <1>1, <1>2, <1>5, <1>6, ActualFacts DEF Diffable, Image, Destination
  <2>6. QED
    BY <2>3, <2>4, <2>5, <1>2
<1>7. CASE r.kind = "Database"
  <2>1. m.spec[f] = IF f = "destination.server" THEN o["host"]
                    ELSE IF f = "destination.network" THEN NetworkOrDefault(o[f])
                    ELSE IF f = "public_port" /\ o["public"] # "true" THEN "0"
                    ELSE o[f]
    <3>1. f \in Diffable("Database") \ Limits
      BY <1>2, <1>5, <1>7
    <3>2. QED
      BY <3>1, <1>7, MapDatabaseFields
  <2>2. m.spec["public"] = o["public"]
    BY <1>7, MapDatabaseFields DEF Diffable, Limits
  <2>3. f \in DOMAIN Desired(m) <=> f \in DOMAIN Actual(r.kind, o)
    <3>1. CASE f = "public_port"
      <4>1. f \in DOMAIN Desired(m) <=> m.spec["public"] = "true"
        BY <3>1, <1>1, <1>7, DesiredFacts
      <4>2. f \in DOMAIN Actual(r.kind, o) <=> o["public"] = "true"
        BY <3>1, <1>1, <1>7, ActualFacts
      <4>3. QED
        BY <4>1, <4>2, <2>2
    <3>2. CASE f # "public_port"
      <4>1. f \notin Image
        BY <1>2, <1>7 DEF Diffable, Image, Destination, Limits
      <4>2. QED
        BY <3>2, <4>1, <1>1, <1>2, <1>5, DesiredFacts, ActualFacts
    <3>3. QED
      BY <3>1, <3>2
  <2>4. f = "public_port" => o["public"] = "true"
    BY <2>3, <1>1, <1>2, <1>7, ActualFacts
  <2>5. m.spec[f] = o[f]
    BY <2>1, <2>4, <1>3, <1>5 DEF NetworkOrDefault, Destination
  <2>6. QED
    BY <2>3, <2>5, <1>2
<1>8. QED
  BY <1>1, <1>6, <1>7 DEF Kinds

-----------------------------------------------------------------------------
(* The inductive invariant: what is on disk and live, and for each process  *)
(* what its command has reached.                                           *)

\* A manifest lies at its own path, and holds no password.
OnDisk ==
  /\ ManifestsAreWhole
  /\ \A path \in Paths : disk[path] \in Manifests =>
       PathOf(disk[path].of) = path /\ Clean(disk[path])

\* Two applies at a time are Reconciler's subject.
OneApply ==
  \A p, q \in Procs : p # q /\ cmd[p] = "apply" /\ cmd[q] = "apply" =>
    pc[p] \notin Active \/ pc[q] \notin Active

Loaders == Plans \cup {"apply"}
Writers == Imports \cup {"save"}
Writing == {"root", "fill", "write", "temp", "rename"}
Loading == {"load", "resolve"}

\* A command is where it can be.
InPlace(p) ==
  /\ pc[p] \in {"collect", "root", "fill"} => cmd[p] \in Imports
  /\ pc[p] = "open" => cmd[p] = "save"
  /\ pc[p] \in {"write", "temp", "rename"} => cmd[p] \in Writers
  /\ pc[p] \in {"load", "resolve", "diff"} => cmd[p] \in Loaders
  /\ pc[p] \in {"bind", "engine"} => cmd[p] = "apply"
  /\ pc[p] = "done" /\ cmd[p] \in Imports \cup {"apply"} => job[p].left = {}

\* What is being written is at hand, and what is renamed is whole.
Held(p) ==
  /\ pc[p] \in {"collect"} \cup Writing => \A m \in job[p].have : Clean(m)
  /\ pc[p] = "collect" => job[p].todo \subseteq Live
  /\ pc[p] \in Writing => job[p].left \subseteq job[p].have
  /\ pc[p] \in {"root", "fill"} => job[p].left = job[p].have
  /\ pc[p] = "temp" => \E m \in job[p].left : job[p].cur = {m}
  /\ pc[p] = "rename" => temp[p] \in job[p].left /\ job[p].cur = {temp[p]}

\* An import without --force still finds its paths free, where nobody else wrote.
StillFree(p) ==
  cmd[p] = "import" /\ pc[p] \in Writing =>
    \A m \in job[p].have : PathOf(m.of) \in steady[p] \ Done(p) => ~Exists(PathOf(m.of))

\* What it wrote is still there.
StillThere(p) ==
  cmd[p] \in Imports /\ pc[p] \in {"write", "temp", "rename", "done"} =>
    \A m \in job[p].have \ job[p].left : PathOf(m.of) \in steady[p] =>
      disk[PathOf(m.of)] \in job[p].have

\* What it mapped is still live as it was.
StillLive(p) ==
  cmd[p] \in Imports /\ pc[p] \in Active \cup {"done"} =>
    \A m \in job[p].have : m.of \in calm[p] => m.of \in Live /\ m = Map(m.of, live[m.of])

\* Paths a load has yet to come to.
Pending(p) ==
  job[p].files \cup job[p].found
    \cup IF job[p].loading = "Application" THEN OfKind("Database") ELSE {}

\* Every manifest on disk is pending or loaded, and none is both.
Walked(p) ==
  cmd[p] \in Loaders /\ pc[p] \in Loading =>
    /\ job[p].files \cup job[p].found \subseteq OfKind(job[p].loading)
    /\ \A m \in job[p].have : PathOf(m.of) \notin Pending(p)
    /\ \A path \in steady[p] \ Pending(p) : disk[path] \in Manifests => disk[path] \in job[p].have

\* Every manifest on disk is loaded, with its references bound for an apply.
Counted(p) ==
  /\ pc[p] = "bind" =>
       \A path \in steady[p] : disk[path] \in Manifests => disk[path] \in job[p].have
  /\ cmd[p] \in Loaders /\ pc[p] \in {"diff", "engine", "done"} =>
       \A path \in steady[p] : disk[path] \in Manifests =>
         IF cmd[p] = "apply" THEN CanBind(disk[path]) /\ Bind(disk[path]) \in job[p].have
         ELSE disk[path] \in job[p].have

\* No two manifests declare one resource, and all are sound.
Distinct(p) ==
  cmd[p] \in Loaders /\ pc[p] \in Loading \cup {"bind", "diff", "engine", "done"} =>
    /\ \A m, n \in job[p].have : m.of = n.of => m = n
    /\ \A m \in job[p].have : Sound(m)

\* An apply has announced nothing before it compares, and knows what is live, as
\* nobody else creates.
Resolved(p) ==
  cmd[p] = "apply" =>
    /\ pc[p] \in Loading \cup {"bind"} => job[p].announced = {}
    /\ pc[p] \in {"load", "bind", "diff"} => job[p].resolved = Live
    /\ pc[p] = "engine" =>
         /\ job[p].resolved \subseteq Live
         /\ \A m \in job[p].left : m.of \in Live => m.of \in job[p].resolved

\* An operation is that of a manifest.
Fits(p, op, m) ==
  /\ op.of = m.of
  /\ FieldChanges(m, op.changes)
  /\ op.verb = "create" <=> m.of \notin job[p].resolved
  /\ m.of \in job[p].resolved => ~Moves(op.changes)

\* As long as nobody else changes m's resource, what is announced for it is what
\* separates it from m.
Judged(p, m) ==
  m.of \in calm[p] /\ m.of \in job[p].resolved =>
    /\ \A op \in job[p].announced : op.of = m.of => op.changes = Changing(m, live[m.of])
    /\ (\A op \in job[p].announced : op.of # m.of) => DOMAIN Changing(m, live[m.of]) = {}

Operations(p) ==
  cmd[p] = "apply" /\ pc[p] \in {"diff", "engine"} =>
    /\ job[p].left \subseteq job[p].have
    /\ \A m \in job[p].have : Bound(m)
    /\ \A op \in job[p].announced : \E m \in job[p].have :
         Fits(p, op, m) /\ (pc[p] = "diff" => m \notin job[p].left)
    /\ \A x, y \in job[p].announced : x.of = y.of => x = y

Compares(p) ==
  cmd[p] = "apply" =>
    /\ pc[p] = "diff" =>
         \A m \in job[p].have \ job[p].left :
           /\ Judged(p, m)
           /\ m.of \notin job[p].resolved => \E op \in job[p].announced : op.of = m.of
    /\ pc[p] = "engine" => \A m \in job[p].left :
         Judged(p, m) /\ \E op \in job[p].announced : op.of = m.of

\* What was carried out settled.
Settled(p) ==
  cmd[p] = "apply" /\ pc[p] \in {"engine", "done"} =>
    \A m \in job[p].have \ job[p].left : m.of \in calm[p] /\ m.of \in Live =>
      Settles(m, live[m.of])

Files(p) == InPlace(p) /\ Held(p) /\ StillFree(p) /\ StillThere(p) /\ StillLive(p)
Loads(p) == Walked(p) /\ Counted(p) /\ Distinct(p)
Applies(p) == Resolved(p) /\ Operations(p) /\ Compares(p) /\ Settled(p)

Proc(p) == Files(p) /\ Loads(p) /\ Applies(p)

IInv ==
  TypeOK /\ OnDisk /\ NoReferenceIsSent /\ OneApply /\ \A p \in Procs : Proc(p)

-----------------------------------------------------------------------------
(* What a process relies on of the others.                                 *)

\* p's own state stays, and so does what it takes to be steady or calm.
Rely(p) ==
  /\ cmd'[p] = cmd[p] /\ pc'[p] = pc[p] /\ job'[p] = job[p] /\ temp'[p] = temp[p]
  /\ steady'[p] \subseteq steady[p] /\ \A path \in steady'[p] : disk'[path] = disk[path]
  /\ calm'[p] \subseteq calm[p] /\ \A r \in calm'[p] : live'[r] = live[r]
  /\ Live \subseteq Live'
  /\ cmd[p] = "apply" /\ pc[p] \in Active => Live' = Live

LEMMA RelyProc ==
  ASSUME TypeOK, NEW p \in Procs, Proc(p), Rely(p)
  PROVE  Proc(p)'
<1>1. /\ cmd'[p] = cmd[p] /\ pc'[p] = pc[p] /\ job'[p] = job[p] /\ temp'[p] = temp[p]
      /\ steady'[p] \subseteq steady[p] /\ \A path \in steady'[p] : disk'[path] = disk[path]
      /\ calm'[p] \subseteq calm[p] /\ \A r \in calm'[p] : live'[r] = live[r]
      /\ Live \subseteq Live'
      /\ cmd[p] = "apply" /\ pc[p] \in Active => Live' = Live
  BY DEF Rely
<1>2. InPlace(p)' /\ Held(p)'
  BY <1>1 DEF Proc, Files, InPlace, Held
<1>3. Done(p)' = Done(p) /\ Pending(p)' = Pending(p)
  BY <1>1 DEF Done, Pending
<1>4. StillFree(p)'
  BY <1>1, <1>3 DEF Proc, Files, StillFree, Exists
<1>5. StillThere(p)'
  BY <1>1 DEF Proc, Files, StillThere
<1>6. StillLive(p)'
  BY <1>1 DEF Proc, Files, StillLive
<1>7. Walked(p)'
  BY <1>1, <1>3 DEF Proc, Loads, Walked
<1>8. Counted(p)'
  BY <1>1 DEF Proc, Loads, Counted
<1>9. Distinct(p)'
  BY <1>1 DEF Proc, Loads, Distinct
<1>10. Resolved(p)'
  BY <1>1 DEF Proc, Applies, Resolved, Active
<1>11. \A m : Judged(p, m) => Judged(p, m)'
  BY <1>1 DEF Judged
<1>12. \A op, m : Fits(p, op, m)' <=> Fits(p, op, m)
  BY <1>1 DEF Fits
<1>13. Operations(p)'
  BY <1>1, <1>12 DEF Proc, Applies, Operations
<1>14. Compares(p)'
  BY <1>1, <1>11 DEF Proc, Applies, Compares
<1>15. Settled(p)'
  <2>1. \A r \in calm'[p] : r \in Live' => r \in Live /\ live'[r] = live[r]
    BY <1>1 DEF Live
  <2>2. QED
    BY <1>1, <2>1 DEF Proc, Applies, Settled
<1>16. QED
  BY <1>2, <1>4, <1>5, <1>6, <1>7, <1>8, <1>9, <1>10, <1>13, <1>14, <1>15
  DEF Proc, Files, Loads, Applies

\* A command that is given up relies on nothing.
LEMMA EndedProc ==
  ASSUME NEW p \in Procs, pc'[p] \in {"failed", "killed"}
  PROVE  Proc(p)'
BY DEF Proc, Files, Loads, Applies, InPlace, Held, StillFree, StillThere, StillLive, Walked,
       Counted, Distinct, Resolved, Operations, Compares, Settled, Active, Writing, Loading

-----------------------------------------------------------------------------
(* The initial states, and steps of a process in its command.              *)

LEMMA InitIInv ==
  ASSUME Init
  PROVE  IInv
<1>1. PICK s \in Scenarios :
        disk = s.disk /\ root = s.root /\ live = s.live /\ edits = s.edits /\ script = s.script
  BY DEF Init
<1>2. /\ disk \in [Paths -> Manifests \cup {NoFile, Garbage}]
      /\ \A path \in Paths : disk[path] \in Manifests =>
           PathOf(disk[path].of) = path /\ Clean(disk[path])
      /\ root \in {"absent", "whole"}
      /\ DOMAIN live = Resources
      /\ \A r \in Resources : live[r] # NoObject =>
           live[r] \in Objects(r.kind) /\ \A f \in Known(r.kind) : live[r][f] \notin Refs
      /\ edits \in [disk : Nat, live : Nat]
      /\ script \in [Procs -> Seq(Commands)]
  BY <1>1, ScenariosType
<1>3. /\ temp = [p \in Procs |-> NoFile]
      /\ steady = [p \in Procs |-> Paths]
      /\ calm = [p \in Procs |-> Resources]
      /\ cmd = [p \in Procs |-> "plan"]
      /\ pc = [p \in Procs |-> "idle"]
      /\ job = [p \in Procs |-> Idle]
  BY DEF Init
<1>4. TypeOK
  <2>1. JobOK(Idle)
    BY DEF JobOK, Idle
  <2>2. \A r \in Live : live[r] \in Objects(r.kind)
    BY <1>2 DEF Live
  <2>3. QED
    BY <1>2, <1>3, <2>1, <2>2 DEF TypeOK, Commands, Plans
<1>5. OnDisk
  BY <1>2, Contents DEF OnDisk, ManifestsAreWhole
<1>6. NoReferenceIsSent
  BY <1>2 DEF NoReferenceIsSent, Live
<1>7. OneApply
  BY <1>3 DEF OneApply
<1>8. \A p \in Procs : Proc(p)
  BY <1>3 DEF Proc, Files, Loads, Applies, InPlace, Held, StillFree, StillThere, StillLive,
              Walked, Counted, Distinct, Resolved, Operations, Compares, Settled, Active,
              Writing, Loading
<1>9. QED
  BY <1>4, <1>5, <1>6, <1>7, <1>8 DEF IInv

\* What the others see of a step of p that leaves Coolify alone.
Guarantees(p) ==
  \A q \in Procs \ {p} :
    /\ temp'[q] = temp[q]
    /\ steady'[q] \subseteq steady[q]
    /\ \A path \in steady'[q] : disk'[path] = disk[path]

FilesOK ==
  /\ disk \in [Paths -> Manifests \cup {NoFile, Garbage, Torn}]
  /\ root \in {"absent", "torn", "whole"}
  /\ temp \in [Procs -> Manifests \cup {NoFile, Torn}]
  /\ steady \in [Procs -> SUBSET Paths]
  /\ OnDisk

\* The step of a command on files, which ends in l with j.
LEMMA FileStep ==
  ASSUME IInv, NEW p \in Procs, pc[p] \in Active, NEW l \in Active \cup Ended, NEW j,
         Go(p, l, j), JobOK(j), UNCHANGED worldVars, Guarantees(p), FilesOK', Proc(p)'
  PROVE  IInv'
<1>1. /\ pc' = [pc EXCEPT ![p] = l] /\ job' = [job EXCEPT ![p] = j]
      /\ script' = script /\ cmd' = cmd
      /\ live' = live /\ edits' = edits /\ calm' = calm
  BY DEF Go, worldVars
<1>2. /\ pc \in [Procs -> Active \cup Ended \cup {"idle"}]
      /\ DOMAIN job = Procs /\ \A q \in Procs : JobOK(job[q])
  BY DEF IInv, TypeOK
<1>3. Live' = Live
  BY <1>1 DEF Live
<1>4. TypeOK'
  <2>1. pc' \in [Procs -> Active \cup Ended \cup {"idle"}]
    BY <1>1, <1>2
  <2>2. DOMAIN job' = Procs /\ \A q \in Procs : JobOK(job'[q])
    BY <1>1, <1>2
  <2>3. QED
    BY <1>1, <1>3, <2>1, <2>2 DEF IInv, TypeOK, FilesOK
<1>5. OnDisk'
  BY DEF FilesOK
<1>6. NoReferenceIsSent'
  BY <1>1, <1>3 DEF IInv, NoReferenceIsSent
<1>7. OneApply'
  BY <1>1, <1>2 DEF IInv, OneApply
<1>8. ASSUME NEW q \in Procs \ {p}
      PROVE  Proc(q)'
  <2>1. Rely(q)
    BY <1>1, <1>2, <1>3 DEF Rely, Guarantees
  <2>2. QED
    BY <2>1, RelyProc DEF IInv
<1>9. QED
  BY <1>4, <1>5, <1>6, <1>7, <1>8 DEF IInv

\* The step of a command that only reads.
LEMMA ReadStep ==
  ASSUME IInv, NEW p \in Procs, pc[p] \in Active, NEW l \in Active \cup Ended, NEW j,
         Go(p, l, j), JobOK(j), UNCHANGED <<filesVars, worldVars>>, Proc(p)'
  PROVE  IInv'
<1>1. disk' = disk /\ root' = root /\ temp' = temp /\ steady' = steady
  BY DEF filesVars
<1>2. Guarantees(p)
  BY <1>1 DEF Guarantees
<1>3. FilesOK'
  BY <1>1 DEF FilesOK, IInv, TypeOK, OnDisk, ManifestsAreWhole
<1>4. QED
  BY <1>2, <1>3, FileStep

LEMMA JobFacts ==
  ASSUME TypeOK, NEW p \in Procs
  PROVE  /\ JobOK(job[p])
         /\ DOMAIN job[p] = DOMAIN Idle
         /\ job[p].have \subseteq Manifests /\ job[p].left \subseteq Manifests
         /\ job[p].cur \subseteq Manifests
         /\ job[p].todo \subseteq Resources /\ job[p].resolved \subseteq Resources
         /\ job[p].files \subseteq Paths /\ job[p].found \subseteq Paths
         /\ job[p].loading \in Kinds
         /\ \A op \in job[p].announced : Announcement(op)
         /\ pc[p] \in Active \cup Ended \cup {"idle"}
         /\ cmd[p] \in Commands
         /\ calm[p] \subseteq Resources /\ steady[p] \subseteq Paths
BY DEF TypeOK, JobOK, Kinds

\* A step of a command that reads and fails, or is killed.
LEMMA GiveUp ==
  ASSUME IInv, NEW p \in Procs, pc[p] \in Active, NEW l \in {"failed", "killed"},
         Go(p, l, job[p]), UNCHANGED <<filesVars, worldVars>>
  PROVE  IInv'
<1>1. pc'[p] = l
  BY DEF IInv, TypeOK, Go
<1>2. JobOK(job[p])
  BY JobFacts DEF IInv
<1>3. QED
  BY <1>1, <1>2, EndedProc, ReadStep DEF Ended

\* A writer loads and applies nothing, a loader writes nothing.
LEMMA WriterProc ==
  ASSUME NEW p \in Procs, cmd'[p] \in Writers, pc'[p] # "bind"
  PROVE  Loads(p)' /\ Applies(p)'
BY DEF Loads, Applies, Walked, Counted, Distinct, Resolved, Operations, Compares, Settled,
       Writers, Imports, Loaders, Plans

LEMMA LoaderProc ==
  ASSUME NEW p \in Procs, cmd'[p] \in Loaders, pc'[p] \notin Writing \cup {"collect"}
  PROVE  Held(p)' /\ StillFree(p)' /\ StillThere(p)' /\ StillLive(p)'
BY DEF Held, StillFree, StillThere, StillLive, Imports, Loaders, Plans, Writing

LEMMA GoFacts ==
  ASSUME TypeOK, NEW p \in Procs, NEW l, NEW j, Go(p, l, j)
  PROVE  pc'[p] = l /\ job'[p] = j /\ cmd' = cmd
BY DEF TypeOK, Go

-----------------------------------------------------------------------------
(* import and save.                                                        *)

LEMMA CollectInv ==
  ASSUME IInv, NEW p \in Procs, Collect(p)
  PROVE  IInv'
<1> DEFINE r == CHOOSE x \in job[p].todo : TRUE
           o == live[r]
           j == [job[p] EXCEPT !.todo = @ \ {r}, !.have = @ \cup {Map(r, o)}]
<1>1. /\ pc[p] = "collect" /\ job[p].todo # {} /\ Go(p, "collect", j)
      /\ UNCHANGED <<filesVars, worldVars>>
  BY DEF Collect
<1>2. TypeOK /\ Proc(p) /\ InPlace(p) /\ Held(p) /\ StillLive(p)
  BY DEF IInv, Proc, Files
<1>3. pc'[p] = "collect" /\ job'[p] = j /\ cmd' = cmd
  BY <1>1, <1>2, GoFacts
<1>4. cmd[p] \in Imports
  BY <1>1, <1>2 DEF InPlace
<1>5. r \in job[p].todo
  BY <1>1
<1>6. r \in Resources /\ r \in Live /\ o \in Objects(r.kind)
  BY <1>1, <1>2, <1>5 DEF Held, Live, TypeOK
<1>7. Map(r, o) \in Manifests /\ Map(r, o).of = r /\ Clean(Map(r, o))
  BY <1>6, MapType
<1> HIDE DEF o, r
<1>8. /\ j.todo = job[p].todo \ {r} /\ j.have = job[p].have \cup {Map(r, o)}
      /\ j.left = job[p].left /\ JobOK(j)
  BY <1>2, <1>7, JobFacts DEF JobOK, Idle
<1> HIDE DEF j
<1>9. live' = live /\ calm' = calm /\ Live' = Live
  BY <1>1 DEF worldVars, Live
<1>10. Proc(p)'
  <2>1. Loads(p)' /\ Applies(p)'
    BY <1>3, <1>4, WriterProc DEF Writers
  <2>2. InPlace(p)'
    BY <1>3, <1>4 DEF InPlace
  <2>3. Held(p)'
    BY <1>1, <1>2, <1>3, <1>7, <1>8, <1>9 DEF Held, Writing
  <2>4. StillFree(p)' /\ StillThere(p)'
    BY <1>3 DEF StillFree, StillThere, Writing
  <2>5. StillLive(p)'
    BY <1>1, <1>2, <1>3, <1>6, <1>7, <1>8, <1>9 DEF StillLive, Active, o
  <2>6. QED
    BY <2>1, <2>2, <2>3, <2>4, <2>5 DEF Proc, Files
<1>11. QED
  BY <1>1, <1>3, <1>8, <1>10, ReadStep DEF Active

LEMMA CheckInv ==
  ASSUME IInv, NEW p \in Procs, Check(p)
  PROVE  IInv'
<1> DEFINE j == [job[p] EXCEPT !.left = job[p].have]
<1>1. pc[p] = "collect" /\ job[p].todo = {} /\ UNCHANGED <<filesVars, worldVars>>
  BY DEF Check
<1>2. TypeOK /\ InPlace(p) /\ Held(p) /\ StillLive(p)
  BY DEF IInv, Proc, Files
<1>3. CASE cmd[p] = "import" /\ InTheWay(p)
  BY <1>1, <1>3, GiveUp DEF Check, Fail, Active
<1>4. CASE ~(cmd[p] = "import" /\ InTheWay(p))
  <2>1. Go(p, "root", j)
    BY <1>4 DEF Check
  <2>2. pc'[p] = "root" /\ job'[p] = j /\ cmd' = cmd
    BY <1>2, <2>1, GoFacts
  <2>3. cmd[p] \in Imports
    BY <1>1, <1>2 DEF InPlace
  <2>4. j.have = job[p].have /\ j.left = job[p].have /\ JobOK(j)
    BY <1>2, JobFacts DEF JobOK, Idle
  <2> HIDE DEF j
  <2>5. disk' = disk /\ live' = live /\ calm' = calm /\ Live' = Live
    BY <1>1 DEF filesVars, worldVars, Live
  <2>6. Proc(p)'
    <3>1. Loads(p)' /\ Applies(p)'
      BY <2>2, <2>3, WriterProc DEF Writers
    <3>2. InPlace(p)' /\ Held(p)' /\ StillThere(p)'
      BY <1>1, <1>2, <2>2, <2>3, <2>4 DEF InPlace, Held, StillThere, Writing
    <3>3. StillFree(p)'
      <4>1. cmd[p] = "import" => \A m \in job[p].have : ~Exists(PathOf(m.of))
        BY <1>4 DEF InTheWay
      <4>2. QED
        BY <4>1, <2>2, <2>4, <2>5 DEF StillFree, Exists
    <3>4. StillLive(p)'
      BY <1>1, <1>2, <2>2, <2>4, <2>5 DEF StillLive, Active
    <3>5. QED
      BY <3>1, <3>2, <3>3, <3>4 DEF Proc, Files
  <2>7. QED
    BY <1>1, <2>1, <2>4, <2>6, ReadStep DEF Active
<1>5. QED
  BY <1>3, <1>4

LEMMA RootInv ==
  ASSUME IInv, NEW p \in Procs, TruncateRoot(p) \/ FillRoot(p)
  PROVE  IInv'
<1>1. PICK to \in {"torn", "whole"}, l \in {"fill", "write"} :
        /\ pc[p] \in {"root", "fill"} /\ WriteRoot(to) /\ Go(p, l, job[p])
        /\ UNCHANGED worldVars
  BY DEF TruncateRoot, FillRoot
<1>2. TypeOK /\ OnDisk /\ InPlace(p) /\ Held(p) /\ StillFree(p) /\ StillLive(p)
  BY DEF IInv, Proc, Files
<1>3. pc'[p] = l /\ job'[p] = job[p] /\ cmd' = cmd
  BY <1>1, <1>2, GoFacts
<1>4. /\ root' = to /\ disk' = disk /\ temp' = temp /\ steady' = steady
      /\ live' = live /\ calm' = calm /\ Live' = Live
  BY <1>1 DEF WriteRoot, worldVars, Live
<1>5. cmd[p] \in Imports
  BY <1>1, <1>2 DEF InPlace
<1>6. Proc(p)'
  <2>1. Loads(p)' /\ Applies(p)'
    BY <1>1, <1>3, <1>5, WriterProc DEF Writers
  <2>2. InPlace(p)' /\ Held(p)'
    BY <1>1, <1>2, <1>3, <1>5 DEF InPlace, Held, Writing, Writers
  <2>3. StillFree(p)'
    BY <1>1, <1>2, <1>3, <1>4 DEF StillFree, Writing, Exists, Done
  <2>4. StillThere(p)'
    BY <1>1, <1>2, <1>3 DEF StillThere, Held
  <2>5. StillLive(p)'
    BY <1>1, <1>2, <1>3, <1>4 DEF StillLive, Active
  <2>6. QED
    BY <2>1, <2>2, <2>3, <2>4, <2>5 DEF Proc, Files
<1>7. FilesOK' /\ Guarantees(p)
  BY <1>2, <1>4 DEF FilesOK, Guarantees, TypeOK, OnDisk, ManifestsAreWhole
<1>8. QED
  BY <1>1, <1>2, <1>6, <1>7, JobFacts, FileStep DEF Active

LEMMA OpenInv ==
  ASSUME IInv, NEW p \in Procs, Open(p)
  PROVE  IInv'
<1> DEFINE apps == {disk[path] : path \in {x \in OfKind("Application") : disk[x] \in Manifests}}
<1>1. pc[p] = "open" /\ UNCHANGED <<filesVars, worldVars>>
  BY DEF Open
<1>2. TypeOK /\ OnDisk /\ InPlace(p)
  BY DEF IInv, Proc, Files
<1>3. CASE ~(apps # {} /\ \A m \in apps : Valid(m))
  BY <1>1, <1>3, GiveUp DEF Open, Fail, Active
<1>4. CASE apps # {} /\ \A m \in apps : Valid(m)
  <2>1. PICK m \in apps : Go(p, "write", [job[p] EXCEPT !.have = {m}, !.left = {m}])
    BY <1>4 DEF Open
  <2> DEFINE j == [job[p] EXCEPT !.have = {m}, !.left = {m}]
  <2>2. pc'[p] = "write" /\ job'[p] = j /\ cmd' = cmd
    BY <1>2, <2>1, GoFacts
  <2>3. cmd[p] = "save"
    BY <1>1, <1>2 DEF InPlace
  <2>4. m \in Manifests /\ Clean(m)
    BY <1>2, <2>1 DEF OnDisk, OfKind
  <2>5. j.have = {m} /\ j.left = {m} /\ JobOK(j)
    BY <1>2, <2>4, JobFacts DEF JobOK, Idle
  <2> HIDE DEF j
  <2>6. Proc(p)'
    <3>1. Loads(p)' /\ Applies(p)'
      BY <2>2, <2>3, WriterProc DEF Writers
    <3>2. InPlace(p)' /\ Held(p)'
      BY <2>2, <2>3, <2>4, <2>5 DEF InPlace, Held, Writers, Writing
    <3>3. StillFree(p)' /\ StillThere(p)' /\ StillLive(p)'
      BY <2>2, <2>3 DEF StillFree, StillThere, StillLive, Imports
    <3>4. QED
      BY <3>1, <3>2, <3>3 DEF Proc, Files
  <2>7. QED
    BY <1>1, <2>1, <2>5, <2>6, ReadStep DEF Active, j
<1>5. QED
  BY <1>3, <1>4

LEMMA StartFileInv ==
  ASSUME IInv, NEW p \in Procs, StartFile(p)
  PROVE  IInv'
<1>1. PICK m \in job[p].left : Go(p, "temp", [job[p] EXCEPT !.cur = {m}])
  BY DEF StartFile
<1> DEFINE j == [job[p] EXCEPT !.cur = {m}]
<1>2. TypeOK /\ OnDisk /\ InPlace(p) /\ Held(p) /\ StillFree(p) /\ StillThere(p) /\ StillLive(p)
  BY DEF IInv, Proc, Files
<1>3. pc'[p] = "temp" /\ job'[p] = j /\ cmd' = cmd
  BY <1>1, <1>2, GoFacts
<1>4. m \in Manifests /\ m \in job[p].left
  BY <1>1, <1>2, JobFacts
<1>5. /\ j.have = job[p].have /\ j.left = job[p].left /\ j.cur = {m}
      /\ JobOK(j)
  BY <1>2, <1>4, JobFacts DEF JobOK, Idle
<1> HIDE DEF j
<1>6. /\ pc[p] = "write" /\ temp' = [temp EXCEPT ![p] = Torn]
      /\ disk' = disk /\ root' = root /\ steady' = steady
      /\ UNCHANGED worldVars /\ live' = live /\ calm' = calm /\ Live' = Live
  BY DEF StartFile, CreateTemp, worldVars, Live
<1>7. cmd[p] \in Writers
  BY <1>2, <1>6 DEF InPlace
<1>8. Proc(p)'
  <2>1. Loads(p)' /\ Applies(p)'
    BY <1>3, <1>7, WriterProc
  <2>2. InPlace(p)' /\ Held(p)'
    BY <1>2, <1>3, <1>4, <1>5, <1>6, <1>7 DEF InPlace, Held, Writing
  <2>3. StillFree(p)'
    BY <1>2, <1>3, <1>5, <1>6 DEF StillFree, Writing, Exists, Done
  <2>4. StillThere(p)'
    BY <1>2, <1>3, <1>5, <1>6 DEF StillThere
  <2>5. StillLive(p)'
    BY <1>2, <1>3, <1>5, <1>6 DEF StillLive, Active
  <2>6. QED
    BY <2>1, <2>2, <2>3, <2>4, <2>5 DEF Proc, Files
<1>9. FilesOK' /\ Guarantees(p)
  BY <1>2, <1>6 DEF FilesOK, Guarantees, TypeOK, OnDisk, ManifestsAreWhole
<1>10. QED
  BY <1>1, <1>5, <1>6, <1>8, <1>9, FileStep DEF Active, j

LEMMA FillFileInv ==
  ASSUME IInv, NEW p \in Procs, FillFile(p)
  PROVE  IInv'
<1>1. TypeOK /\ OnDisk /\ InPlace(p) /\ Held(p) /\ StillFree(p) /\ StillThere(p) /\ StillLive(p)
  BY DEF IInv, Proc, Files
<1>2. pc[p] = "temp" /\ Go(p, "rename", job[p]) /\ UNCHANGED worldVars
  BY DEF FillFile
<1>3. PICK m \in job[p].left : job[p].cur = {m}
  BY <1>1, <1>2 DEF Held
<1>4. m \in Manifests
  BY <1>1, <1>3, JobFacts
<1>5. pc'[p] = "rename" /\ job'[p] = job[p] /\ cmd' = cmd
  BY <1>1, <1>2, GoFacts
<1>6. /\ temp' = [temp EXCEPT ![p] = m] /\ disk' = disk /\ root' = root /\ steady' = steady
      /\ live' = live /\ calm' = calm /\ Live' = Live
  BY <1>3 DEF FillFile, FillTemp, worldVars, Live
<1>7. cmd[p] \in Writers
  BY <1>1, <1>2 DEF InPlace
<1>8. Proc(p)'
  <2>1. Loads(p)' /\ Applies(p)'
    BY <1>5, <1>7, WriterProc
  <2>2. temp'[p] = m
    BY <1>1, <1>6 DEF TypeOK
  <2>3. InPlace(p)' /\ Held(p)'
    BY <1>1, <1>2, <1>3, <1>5, <1>7, <2>2 DEF InPlace, Held, Writing
  <2>4. StillFree(p)'
    BY <1>1, <1>2, <1>5, <1>6 DEF StillFree, Writing, Exists, Done
  <2>5. StillThere(p)'
    BY <1>1, <1>2, <1>5, <1>6 DEF StillThere
  <2>6. StillLive(p)'
    BY <1>1, <1>2, <1>5, <1>6 DEF StillLive, Active
  <2>7. QED
    BY <2>1, <2>3, <2>4, <2>5, <2>6 DEF Proc, Files
<1>9. FilesOK' /\ Guarantees(p)
  BY <1>1, <1>4, <1>6 DEF FilesOK, Guarantees, TypeOK, OnDisk, ManifestsAreWhole
<1>10. QED
  BY <1>1, <1>2, <1>8, <1>9, JobFacts, FileStep DEF Active

LEMMA RenameFileInv ==
  ASSUME IInv, NEW p \in Procs, RenameFile(p)
  PROVE  IInv'
<1> DEFINE m == temp[p]
           path == PathOf(m.of)
           j == [job[p] EXCEPT !.left = @ \ {m}, !.cur = {}]
<1>1. TypeOK /\ OnDisk /\ InPlace(p) /\ Held(p) /\ StillFree(p) /\ StillThere(p) /\ StillLive(p)
  BY DEF IInv, Proc, Files
<1>2. pc[p] = "rename" /\ UNCHANGED worldVars
  BY DEF RenameFile
<1>3. m \in job[p].left /\ job[p].cur = {m} /\ m \in job[p].have /\ m \in Manifests /\ Clean(m)
  BY <1>1, <1>2, JobFacts DEF Held, Writing
<1>4. path \in Paths
  BY <1>3, ManifestFacts, ResourceKind
<1>5. /\ Go(p, "write", j)
      /\ disk' = [disk EXCEPT ![path] = m]
      /\ steady' = [q \in Procs |-> IF q = p THEN steady[q] ELSE steady[q] \ {path}]
      /\ temp' = [temp EXCEPT ![p] = NoFile] /\ root' = root
      /\ live' = live /\ calm' = calm /\ Live' = Live
  BY <1>3 DEF RenameFile, RenameTemp, Rewrite, worldVars, Live
<1>6. pc'[p] = "write" /\ job'[p] = j /\ cmd' = cmd
  BY <1>1, <1>5, GoFacts
<1> HIDE DEF m, path
<1>7. /\ j.have = job[p].have /\ j.left = job[p].left \ {m} /\ JobOK(j)
  BY <1>1, JobFacts DEF JobOK, Idle
<1> HIDE DEF j
<1>8. cmd[p] \in Writers
  BY <1>1, <1>2 DEF InPlace
<1>9. /\ disk \in [Paths -> Manifests \cup {NoFile, Garbage, Torn}]
      /\ \A x \in Paths : disk'[x] = IF x = path THEN m ELSE disk[x]
      /\ steady'[p] = steady[p] /\ steady[p] \subseteq Paths
  BY <1>1, <1>4, <1>5 DEF TypeOK
<1>10. Proc(p)'
  <2>1. Loads(p)' /\ Applies(p)'
    BY <1>6, <1>8, WriterProc
  <2>2. InPlace(p)' /\ Held(p)'
    BY <1>1, <1>2, <1>6, <1>7, <1>8 DEF InPlace, Held, Writing
  <2>3. StillFree(p)'
    <3>1. Done(p) \cup {path} \subseteq Done(p)'
      BY <1>3, <1>6, <1>7 DEF Done, path
    <3>2. QED
      BY <1>1, <1>2, <1>6, <1>7, <1>9, <3>1 DEF StillFree, Writing, Exists
  <2>4. StillThere(p)'
    <3>1. SUFFICES ASSUME cmd[p] \in Imports, NEW n \in job'[p].have \ job'[p].left,
                          PathOf(n.of) \in steady'[p]
                   PROVE  disk'[PathOf(n.of)] \in job'[p].have
      BY <1>6 DEF StillThere
    <3>2. CASE PathOf(n.of) = path
      BY <3>1, <3>2, <1>3, <1>4, <1>6, <1>7, <1>9
    <3>3. CASE PathOf(n.of) # path
      <4>1. n # m
        BY <3>3 DEF path
      <4>2. n \in job[p].have \ job[p].left /\ PathOf(n.of) \in steady[p]
        BY <3>1, <4>1, <1>6, <1>7, <1>9
      <4>3. disk[PathOf(n.of)] \in job[p].have
        BY <3>1, <4>2, <1>1, <1>2 DEF StillThere
      <4>4. QED
        BY <3>3, <4>2, <4>3, <1>6, <1>7, <1>9
    <3>4. QED
      BY <3>2, <3>3
  <2>5. StillLive(p)'
    BY <1>1, <1>2, <1>5, <1>6, <1>7 DEF StillLive, Active
  <2>6. QED
    BY <2>1, <2>2, <2>3, <2>4, <2>5 DEF Proc, Files
<1>11. Guarantees(p)
  BY <1>1, <1>5, <1>9 DEF Guarantees, TypeOK
<1>12. OnDisk'
  <2>1. m # Torn /\ PathOf(m.of) = path
    BY <1>3, Contents DEF path
  <2>2. QED
    BY <1>1, <1>3, <1>9, <2>1 DEF OnDisk, ManifestsAreWhole
<1>13. FilesOK'
  <2>1. disk' \in [Paths -> Manifests \cup {NoFile, Garbage, Torn}]
    BY <1>3, <1>4, <1>5, <1>9
  <2>2. temp' \in [Procs -> Manifests \cup {NoFile, Torn}] /\ root' \in {"absent", "torn", "whole"}
    BY <1>1, <1>5 DEF TypeOK
  <2>3. steady' \in [Procs -> SUBSET Paths]
    BY <1>1, <1>5 DEF TypeOK
  <2>4. QED
    BY <2>1, <2>2, <2>3, <1>12 DEF FilesOK
<1>14. QED
  BY <1>2, <1>5, <1>7, <1>10, <1>11, <1>13, FileStep DEF Active

LEMMA WriteFailsInv ==
  ASSUME IInv, NEW p \in Procs, WriteFails(p)
  PROVE  IInv'
<1>1. /\ pc[p] \in {"root", "fill", "write", "temp", "rename"}
      /\ Go(p, "failed", job[p]) /\ UNCHANGED worldVars
      /\ disk' = disk /\ root' = root /\ steady' = steady
      /\ temp' = temp \/ temp' = [temp EXCEPT ![p] = NoFile]
  BY DEF WriteFails, RemoveTemp, filesVars, Fail
<1>2. TypeOK /\ OnDisk
  BY DEF IInv
<1>3. FilesOK' /\ Guarantees(p)
  BY <1>1, <1>2 DEF FilesOK, Guarantees, TypeOK, OnDisk, ManifestsAreWhole
<1>4. pc'[p] = "failed"
  BY <1>1, <1>2, GoFacts
<1>5. Proc(p)'
  BY <1>4, EndedProc
<1>6. QED
  BY <1>1, <1>2, <1>3, <1>5, JobFacts, FileStep DEF Active, Ended

LEMMA WrittenInv ==
  ASSUME IInv, NEW p \in Procs, Written(p)
  PROVE  IInv'
<1>1. /\ pc[p] = "write" /\ job[p].left = {} /\ Go(p, "done", job[p])
      /\ UNCHANGED <<filesVars, worldVars>>
  BY DEF Written
<1>2. TypeOK /\ InPlace(p) /\ StillThere(p) /\ StillLive(p)
  BY DEF IInv, Proc, Files
<1>3. pc'[p] = "done" /\ job'[p] = job[p] /\ cmd' = cmd
  BY <1>1, <1>2, GoFacts
<1>4. disk' = disk /\ steady' = steady /\ live' = live /\ calm' = calm /\ Live' = Live
  BY <1>1 DEF filesVars, worldVars, Live
<1>5. cmd[p] \in Writers
  BY <1>1, <1>2 DEF InPlace
<1>6. Proc(p)'
  <2>1. Loads(p)' /\ Applies(p)'
    BY <1>3, <1>5, WriterProc
  <2>2. InPlace(p)' /\ Held(p)' /\ StillFree(p)'
    BY <1>1, <1>3, <1>5 DEF InPlace, Held, StillFree, Writing
  <2>3. StillThere(p)'
    BY <1>1, <1>2, <1>3, <1>4 DEF StillThere
  <2>4. StillLive(p)'
    BY <1>1, <1>2, <1>3, <1>4 DEF StillLive, Active
  <2>5. QED
    BY <2>1, <2>2, <2>3, <2>4 DEF Proc, Files
<1>7. QED
  BY <1>1, <1>2, <1>6, JobFacts, ReadStep DEF Active, Ended

-----------------------------------------------------------------------------
(* Loading, for plan and apply.                                            *)

LEMMA LoadProc ==
  ASSUME NEW p \in Procs, cmd'[p] \in Loaders, pc'[p] \in Loading \cup {"bind"},
         pc'[p] = "bind" => cmd'[p] = "apply",
         pc'[p] \in Loading => Walked(p)', Counted(p)', Distinct(p)', Resolved(p)'
  PROVE  Proc(p)'
<1>1. Files(p)'
  BY LoaderProc DEF Files, InPlace, Loading, Writing
<1>2. Loads(p)'
  BY DEF Loads, Walked, Loading
<1>3. Applies(p)'
  BY DEF Applies, Operations, Compares, Settled, Loading
<1>4. QED
  BY <1>1, <1>2, <1>3 DEF Proc

LEMMA WalkInv ==
  ASSUME IInv, NEW p \in Procs, Walk(p)
  PROVE  IInv'
<1> DEFINE path == CHOOSE x \in job[p].files : TRUE
           hit == PeekKind(path) = job[p].loading
           j == [job[p] EXCEPT !.files = @ \ {path},
                               !.found = IF hit THEN @ \cup {path} ELSE @]
<1>1. pc[p] = "load" /\ path \in job[p].files /\ Go(p, "load", j)
      /\ UNCHANGED <<filesVars, worldVars>>
  BY DEF Walk
<1>2. TypeOK /\ InPlace(p) /\ Walked(p) /\ Distinct(p) /\ Resolved(p)
  BY DEF IInv, Proc, Files, Loads, Applies
<1>3. pc'[p] = "load" /\ job'[p] = j /\ cmd' = cmd
  BY <1>1, <1>2, GoFacts
<1>4. disk' = disk /\ steady' = steady /\ Live' = Live
  BY <1>1 DEF filesVars, worldVars, Live
<1>5. cmd[p] \in Loaders /\ path \in Paths
  BY <1>1, <1>2, JobFacts DEF InPlace
<1>6. path \in OfKind(job[p].loading)
  BY <1>1, <1>2, <1>5 DEF Walked, Loading
<1>7. disk[path] \in Manifests => hit
  BY <1>6 DEF PeekKind, OfKind
<1> HIDE DEF path, hit
<1>8. /\ j.files = job[p].files \ {path}
      /\ j.found = IF hit THEN job[p].found \cup {path} ELSE job[p].found
      /\ j.loading = job[p].loading /\ j.have = job[p].have
      /\ j.resolved = job[p].resolved /\ j.announced = job[p].announced
      /\ JobOK(j)
  BY <1>2, <1>5, JobFacts DEF JobOK, Idle
<1> HIDE DEF j
<1>9. Walked(p)'
  <2>1. Pending(p)' \subseteq Pending(p)
    BY <1>1, <1>3, <1>8 DEF Pending
  <2>2. \A x \in Pending(p) \ Pending(p)' : x = path /\ ~hit
    BY <1>3, <1>8 DEF Pending
  <2>3. QED
    BY <2>1, <2>2, <1>1, <1>2, <1>3, <1>4, <1>5, <1>6, <1>7, <1>8 DEF Walked, Loading
<1>10. Counted(p)' /\ Distinct(p)' /\ Resolved(p)'
  BY <1>1, <1>2, <1>3, <1>4, <1>8 DEF Counted, Distinct, Resolved, Loading
<1>11. Proc(p)'
  BY <1>3, <1>5, <1>9, <1>10, LoadProc DEF Loading
<1>12. QED
  BY <1>1, <1>8, <1>11, ReadStep DEF Active

LEMMA ReadInv ==
  ASSUME IInv, NEW p \in Procs, Read(p)
  PROVE  IInv'
<1> DEFINE path == CHOOSE x \in job[p].found : TRUE
           m == disk[path]
           j == [job[p] EXCEPT !.found = @ \ {path}, !.have = @ \cup {m}]
<1>1. pc[p] = "load" /\ job[p].files = {} /\ path \in job[p].found
      /\ UNCHANGED <<filesVars, worldVars>>
  BY DEF Read
<1>2. TypeOK /\ OnDisk /\ InPlace(p) /\ Walked(p) /\ Distinct(p) /\ Resolved(p)
  BY DEF IInv, Proc, Files, Loads, Applies
<1>3. CASE ~Loadable(path)
  BY <1>1, <1>3, GiveUp DEF Read, Fail, Active
<1>4. CASE Loadable(path)
  <2>1. Go(p, "load", j)
    BY <1>4 DEF Read
  <2>2. pc'[p] = "load" /\ job'[p] = j /\ cmd' = cmd
    BY <1>2, <2>1, GoFacts
  <2>3. disk' = disk /\ steady' = steady /\ Live' = Live
    BY <1>1 DEF filesVars, worldVars, Live
  <2>4. cmd[p] \in Loaders /\ path \in Paths
    BY <1>1, <1>2, JobFacts DEF InPlace
  <2>5. m \in Manifests /\ Sound(m) /\ PathOf(m.of) = path
    BY <1>2, <1>4, <2>4, ValidSound DEF Loadable, OnDisk
  <2>6. /\ path \in Pending(p) /\ path \in OfKind(job[p].loading)
        /\ \A n \in job[p].have : PathOf(n.of) # path
    BY <1>1, <1>2, <2>4 DEF Walked, Loading, Pending
  <2> HIDE DEF path, m
  <2>7. /\ j.files = {} /\ j.found = job[p].found \ {path}
        /\ j.loading = job[p].loading /\ j.have = job[p].have \cup {m}
        /\ j.resolved = job[p].resolved /\ j.announced = job[p].announced /\ JobOK(j)
    BY <1>1, <1>2, <2>5, JobFacts DEF JobOK, Idle
  <2> HIDE DEF j
  <2>8. Walked(p)'
    <3>1. job[p].loading = "Application" => path \notin OfKind("Database")
      BY <2>6 DEF OfKind
    <3>2. Pending(p)' = Pending(p) \ {path}
      BY <1>1, <2>2, <2>7, <3>1 DEF Pending
    <3>3. Walked(p)
      BY <1>2
    <3>4. QED
      BY <3>2, <3>3, <1>1, <2>2, <2>3, <2>4, <2>5, <2>6, <2>7 DEF Walked, Loading, m
  <2>9. Distinct(p)'
    <3>1. \A n \in job[p].have : n.of # m.of
      BY <2>5, <2>6
    <3>2. QED
      BY <3>1, <1>1, <1>2, <2>2, <2>4, <2>5, <2>7 DEF Distinct, Loading
  <2>10. Counted(p)' /\ Resolved(p)'
    BY <1>1, <1>2, <2>2, <2>3, <2>7 DEF Counted, Resolved, Loading
  <2>11. Proc(p)'
    BY <2>2, <2>4, <2>8, <2>9, <2>10, LoadProc DEF Loading
  <2>12. QED
    BY <1>1, <2>1, <2>7, <2>11, ReadStep DEF Active
<1>5. QED
  BY <1>3, <1>4

LEMMA ResolveInv ==
  ASSUME IInv, NEW p \in Procs, Resolve(p)
  PROVE  IInv'
<1> DEFINE known == IF cmd[p] = "plan offline" THEN {} ELSE Live
           j == [job[p] EXCEPT !.resolved = known]
<1>1. pc[p] = "resolve" /\ Go(p, "load", j) /\ UNCHANGED <<filesVars, worldVars>>
  BY DEF Resolve
<1>2. TypeOK /\ InPlace(p) /\ Walked(p) /\ Distinct(p) /\ Resolved(p)
  BY DEF IInv, Proc, Files, Loads, Applies
<1>3. pc'[p] = "load" /\ job'[p] = j /\ cmd' = cmd
  BY <1>1, <1>2, GoFacts
<1>4. disk' = disk /\ steady' = steady /\ Live' = Live /\ known \subseteq Resources
  BY <1>1 DEF filesVars, worldVars, Live
<1>5. cmd[p] \in Loaders
  BY <1>1, <1>2 DEF InPlace
<1>6. cmd[p] = "apply" => known = Live
  OBVIOUS
<1> HIDE DEF known
<1>7. /\ j.files = job[p].files /\ j.found = job[p].found /\ j.loading = job[p].loading
      /\ j.have = job[p].have /\ j.resolved = known /\ j.announced = job[p].announced
      /\ JobOK(j)
  BY <1>2, <1>4, JobFacts DEF JobOK, Idle
<1> HIDE DEF j
<1>8. Walked(p)'
  BY <1>1, <1>2, <1>3, <1>4, <1>7 DEF Walked, Loading, Pending
<1>9. Counted(p)' /\ Distinct(p)' /\ Resolved(p)'
  BY <1>1, <1>2, <1>3, <1>4, <1>6, <1>7 DEF Counted, Distinct, Resolved, Loading
<1>10. Proc(p)'
  BY <1>3, <1>5, <1>8, <1>9, LoadProc DEF Loading
<1>11. QED
  BY <1>1, <1>7, <1>10, ReadStep DEF Active

LEMMA LoadedInv ==
  ASSUME IInv, NEW p \in Procs, Loaded(p)
  PROVE  IInv'
<1>1. /\ pc[p] = "load" /\ job[p].files = {} /\ job[p].found = {}
      /\ UNCHANGED <<filesVars, worldVars>>
  BY DEF Loaded
<1>2. TypeOK /\ InPlace(p) /\ Walked(p) /\ Distinct(p) /\ Resolved(p)
  BY DEF IInv, Proc, Files, Loads, Applies
<1>3. disk' = disk /\ steady' = steady /\ Live' = Live
  BY <1>1 DEF filesVars, worldVars, Live
<1>4. cmd[p] \in Loaders
  BY <1>1, <1>2 DEF InPlace
<1>5. CASE job[p].loading = "Application"
  <2> DEFINE l == IF cmd[p] = "apply" THEN "load" ELSE "resolve"
             j == [job[p] EXCEPT !.loading = "Database", !.files = OfKind("Database")]
  <2>1. Go(p, l, j)
    BY <1>5 DEF Loaded
  <2>2. pc'[p] = l /\ job'[p] = j /\ cmd' = cmd
    BY <1>2, <2>1, GoFacts
  <2>3. /\ j.files = OfKind("Database") /\ j.found = {} /\ j.loading = "Database"
        /\ j.have = job[p].have /\ j.resolved = job[p].resolved
        /\ j.announced = job[p].announced /\ JobOK(j)
    BY <1>1, <1>2, JobFacts DEF JobOK, Idle, OfKind
  <2> HIDE DEF j
  <2>4. Pending(p)' = Pending(p)
    BY <1>1, <1>5, <2>2, <2>3 DEF Pending
  <2>5. Walked(p)'
    BY <1>1, <1>2, <1>3, <1>4, <2>2, <2>3, <2>4 DEF Walked, Loading
  <2>6. Counted(p)' /\ Distinct(p)' /\ Resolved(p)'
    BY <1>1, <1>2, <1>3, <2>2, <2>3 DEF Counted, Distinct, Resolved, Loading
  <2>7. Proc(p)'
    BY <1>4, <2>2, <2>5, <2>6, LoadProc DEF Loading
  <2>8. QED
    BY <1>1, <2>1, <2>3, <2>7, ReadStep DEF Active
<1>6. CASE job[p].loading = "Database"
  <2> DEFINE l == IF cmd[p] = "apply" THEN "bind" ELSE "diff"
             j == [job[p] EXCEPT !.left = job[p].have]
  <2>1. Go(p, l, j)
    BY <1>6 DEF Loaded
  <2>2. pc'[p] = l /\ job'[p] = j /\ cmd' = cmd
    BY <1>2, <2>1, GoFacts
  <2>3. /\ j.have = job[p].have /\ j.resolved = job[p].resolved
        /\ j.announced = job[p].announced /\ JobOK(j)
    BY <1>2, JobFacts DEF JobOK, Idle
  <2> HIDE DEF j
  <2>4. Pending(p) = {}
    BY <1>1, <1>6 DEF Pending
  <2>5. Counted(p)'
    BY <1>1, <1>2, <1>3, <1>4, <2>2, <2>3, <2>4 DEF Walked, Loading, Counted
  <2>6. Distinct(p)' /\ Resolved(p)'
    BY <1>1, <1>2, <1>3, <2>2, <2>3 DEF Distinct, Resolved, Loading
  <2>7. Proc(p)'
    <3>1. CASE cmd[p] = "apply"
      BY <3>1, <1>4, <2>2, <2>5, <2>6, LoadProc DEF Loading
    <3>2. CASE cmd[p] # "apply"
      <4>1. Files(p)'
        BY <3>2, <1>4, <2>2, LoaderProc DEF Files, InPlace, Writing
      <4>2. Loads(p)'
        BY <3>2, <2>2, <2>5, <2>6 DEF Loads, Walked, Loading
      <4>3. Applies(p)'
        BY <3>2, <2>2, <2>6 DEF Applies, Operations, Compares, Settled
      <4>4. QED
        BY <4>1, <4>2, <4>3 DEF Proc
    <3>3. QED
      BY <3>1, <3>2
  <2>8. QED
    BY <1>1, <2>1, <2>3, <2>7, ReadStep DEF Active
<1>7. QED
  BY <1>2, <1>5, <1>6, JobFacts DEF Kinds

-----------------------------------------------------------------------------
(* apply, up to its engine.                                                *)

LEMMA ApplyProc ==
  ASSUME NEW p \in Procs, cmd'[p] = "apply", pc'[p] \in {"diff", "engine", "done"},
         pc'[p] = "done" => job'[p].left = {},
         Counted(p)', Distinct(p)', Applies(p)'
  PROVE  Proc(p)'
<1>1. Files(p)'
  BY LoaderProc DEF Files, InPlace, Loaders, Writing
<1>2. Loads(p)'
  BY DEF Loads, Walked, Loading
<1>3. QED
  BY <1>1, <1>2 DEF Proc

LEMMA BindAllInv ==
  ASSUME IInv, NEW p \in Procs, BindAll(p)
  PROVE  IInv'
<1> DEFINE bound == {Bind(m) : m \in job[p].have}
           j == [job[p] EXCEPT !.have = bound, !.left = bound]
<1>1. pc[p] = "bind" /\ UNCHANGED <<filesVars, worldVars>>
  BY DEF BindAll
<1>2. TypeOK /\ InPlace(p) /\ Counted(p) /\ Distinct(p) /\ Resolved(p)
  BY DEF IInv, Proc, Files, Loads, Applies
<1>3. CASE ~\A m \in job[p].have : CanBind(m)
  BY <1>1, <1>3, GiveUp DEF BindAll, Fail, Active
<1>4. CASE \A m \in job[p].have : CanBind(m)
  <2>1. Go(p, "diff", j)
    BY <1>4 DEF BindAll
  <2>2. pc'[p] = "diff" /\ job'[p] = j /\ cmd' = cmd
    BY <1>2, <2>1, GoFacts
  <2>3. disk' = disk /\ steady' = steady /\ Live' = Live
    BY <1>1 DEF filesVars, worldVars, Live
  <2>4. cmd[p] = "apply"
    BY <1>1, <1>2 DEF InPlace
  <2>5. \A m \in job[p].have : m \in Manifests /\ CanBind(m)
    BY <1>2, <1>4, JobFacts
  <2>6. bound \subseteq Manifests
    BY <2>5, BindType
  <2>7. \A n \in bound : \E m \in job[p].have : n = Bind(m) /\ n.of = m.of
    BY <2>5, BindType
  <2>8. \A m, n \in bound : m.of = n.of => m = n
    BY <2>7, <1>1, <1>2, <2>4 DEF Distinct, Loaders
  <2>9. \A n \in bound : Sound(n) /\ Bound(n)
    BY <2>5, <2>7, <1>1, <1>2, <2>4, BindSound, BindBound DEF Distinct, Loaders
  <2>10. \A path \in steady[p] : disk[path] \in Manifests =>
           CanBind(disk[path]) /\ Bind(disk[path]) \in bound
    BY <1>1, <1>2, <2>5 DEF Counted
  <2> HIDE DEF bound
  <2>11. /\ j.have = bound /\ j.left = bound /\ j.resolved = job[p].resolved
         /\ j.announced = job[p].announced /\ JobOK(j)
    BY <1>2, <2>6, JobFacts DEF JobOK, Idle
  <2> HIDE DEF j
  <2>12. Counted(p)' /\ Distinct(p)'
    BY <2>2, <2>3, <2>4, <2>8, <2>9, <2>10, <2>11 DEF Counted, Distinct
  <2>13. Resolved(p)' /\ job[p].announced = {}
    BY <1>1, <1>2, <2>2, <2>3, <2>4, <2>11 DEF Resolved, Loading
  <2>14. Operations(p)' /\ Compares(p)' /\ Settled(p)'
    BY <2>2, <2>9, <2>11, <2>13 DEF Operations, Compares, Settled
  <2>15. Proc(p)'
    BY <2>2, <2>4, <2>12, <2>13, <2>14, ApplyProc DEF Applies
  <2>16. QED
    BY <1>1, <2>1, <2>11, <2>15, ReadStep DEF Active
<1>5. QED
  BY <1>3, <1>4

LEMMA OperationFacts ==
  ASSUME NEW p, NEW m, NEW op, op = Operation(p, m)
  PROVE  /\ op.of = m.of /\ op.changes = Changes(p, m)
         /\ op.verb = IF m.of \in job[p].resolved THEN "update" ELSE "create"
BY DEF Operation

LEMMA OperationType ==
  ASSUME NEW p, NEW m \in Manifests
  PROVE  FieldChanges(m, Changes(p, m)) /\ Announcement(Operation(p, m))
<1>1. FieldChanges(m, Changes(p, m))
  BY DiffChanges, AdditionChanges DEF Changes, Changing
<1> DEFINE verb == IF m.of \in job[p].resolved THEN "update" ELSE "create"
<1>2. Operation(p, m) = [of |-> m.of, verb |-> verb, changes |-> Changes(p, m)]
  BY DEF Operation
<1>3. verb \in {"create", "update"}
  OBVIOUS
<1> HIDE DEF verb
<1>4. Announcement([of |-> m.of, verb |-> verb, changes |-> Changes(p, m)])
  BY <1>1, <1>3, FieldChangesType
<1>5. QED
  BY <1>1, <1>2, <1>4

LEMMA CompareInv ==
  ASSUME IInv, NEW p \in Procs, Compare(p)
  PROVE  IInv'
<1>a. PICK m : m = CHOOSE x \in job[p].left : TRUE
  OBVIOUS
<1>b. PICK op : op = Operation(p, m)
  OBVIOUS
<1> DEFINE empty == op.verb = "update" /\ DOMAIN op.changes = {}
           ops == IF cmd[p] = "apply" /\ empty THEN job[p].announced
                  ELSE job[p].announced \cup {op}
           moves == cmd[p] = "apply" /\ op.verb = "update" /\ Moves(op.changes)
           j == [job[p] EXCEPT !.left = @ \ {m}, !.announced = ops]
<1>1. pc[p] = "diff" /\ m \in job[p].left /\ UNCHANGED <<filesVars, worldVars>>
  BY <1>a DEF Compare
<1>2. /\ TypeOK /\ InPlace(p) /\ Counted(p) /\ Distinct(p)
      /\ Resolved(p) /\ Operations(p) /\ Compares(p)
  BY DEF IInv, Proc, Files, Loads, Applies
<1>3. CASE moves
  BY <1>1, <1>3, <1>a, <1>b, GiveUp DEF Compare, Fail, Active
<1>4. CASE ~moves
  <2>1. Go(p, "diff", j)
    BY <1>4, <1>a, <1>b DEF Compare
  <2>2. pc'[p] = "diff" /\ job'[p] = j /\ cmd' = cmd
    BY <1>2, <2>1, GoFacts
  <2>3. /\ disk' = disk /\ steady' = steady /\ live' = live /\ calm' = calm /\ Live' = Live
    BY <1>1 DEF filesVars, worldVars, Live
  <2>4. cmd[p] \in Loaders
    BY <1>1, <1>2 DEF InPlace
  <2>5. m \in Manifests
    BY <1>1, <1>2, JobFacts
  <2>6. FieldChanges(m, Changes(p, m)) /\ Announcement(op)
    BY <1>b, <2>5, OperationType
  <2>7. /\ op.of = m.of /\ op.changes = Changes(p, m)
        /\ op.verb = IF m.of \in job[p].resolved THEN "update" ELSE "create"
    BY <1>b, OperationFacts
  <2>8. m.of \in job[p].resolved => op.changes = Changing(m, live[m.of])
    BY <2>7 DEF Changes, Changing
  <2>9. \A x \in ops : Announcement(x)
    BY <1>2, <2>6, JobFacts
  <2>10. /\ \A x \in ops : x \in job[p].announced \/ x = op
         /\ job[p].announced \subseteq ops
         /\ op \in ops \/ (cmd[p] = "apply" /\ empty)
    OBVIOUS
  <2>11. cmd[p] = "apply" => (op.verb = "update" => ~Moves(op.changes))
    BY <1>4
  <2> HIDE DEF ops, moves
  <2>12. /\ j.have = job[p].have /\ j.left = job[p].left \ {m} /\ j.resolved = job[p].resolved
         /\ j.announced = ops /\ JobOK(j)
    BY <1>2, <2>9, JobFacts DEF JobOK, Idle
  <2> HIDE DEF j
  <2>13. Counted(p)' /\ Distinct(p)' /\ Resolved(p)'
    BY <1>1, <1>2, <2>2, <2>3, <2>12 DEF Counted, Distinct, Resolved, Loading
  <2>14. ASSUME cmd[p] = "apply"
         PROVE  Proc(p)'
    <3>1. /\ job[p].left \subseteq job[p].have
          /\ \A n \in job[p].have : Bound(n)
          /\ \A x \in job[p].announced : \E n \in job[p].have : Fits(p, x, n) /\ n \notin job[p].left
          /\ \A x, y \in job[p].announced : x.of = y.of => x = y
      BY <1>1, <1>2, <2>14 DEF Operations
    <3>2. m \in job[p].have /\ \A n \in job[p].have : n.of = m.of => n = m
      BY <1>1, <1>2, <2>4, <3>1 DEF Distinct
    <3>3. \A x \in job[p].announced : x.of # m.of
      BY <1>1, <3>1, <3>2 DEF Fits
    <3>4. \A n \in job[p].have \ job[p].left :
            Judged(p, n) /\ (n.of \notin job[p].resolved => \E x \in job[p].announced : x.of = n.of)
      BY <1>1, <1>2, <2>14 DEF Compares
    <3>5. Operations(p)'
      <4>1. \A x, n : Fits(p, x, n) => Fits(p, x, n)'
        BY <2>2, <2>12 DEF Fits
      <4>2. Fits(p, op, m)'
        BY <2>2, <2>6, <2>7, <2>11, <2>12, <2>14 DEF Fits
      <4>3. \A x \in ops : \E n \in job[p].have : Fits(p, x, n)' /\ n \notin job[p].left \ {m}
        BY <2>10, <3>1, <3>2, <4>1, <4>2
      <4>4. \A x, y \in ops : x.of = y.of => x = y
        BY <2>7, <2>10, <3>1, <3>3
      <4>5. QED
        BY <2>2, <2>12, <3>1, <4>3, <4>4 DEF Operations
    <3>6. Compares(p)'
      <4>1. ASSUME NEW n \in job[p].have, n \notin job[p].left \ {m}
            PROVE  Judged(p, n)' /\ (n.of \notin job[p].resolved => \E x \in ops : x.of = n.of)
        <5>1. CASE n = m
          <6>1. m.of \notin job[p].resolved => op \in ops
            BY <2>7, <2>10
          <6>2. m.of \in job[p].resolved => \A x \in ops : x.of = m.of => x = op
            BY <2>10, <3>3
          <6>3. m.of \in job[p].resolved /\ op \notin ops => DOMAIN Changing(m, live[m.of]) = {}
            BY <2>8, <2>10
          <6>4. QED
            BY <5>1, <6>1, <6>2, <6>3, <2>2, <2>3, <2>7, <2>8, <2>12 DEF Judged
        <5>2. CASE n # m
          <6>1. n \in job[p].have \ job[p].left /\ n.of # m.of
            BY <3>2, <4>1, <5>2
          <6>2. \A x \in ops : x.of = n.of => x \in job[p].announced
            BY <2>7, <2>10, <6>1
          <6>3. Judged(p, n)
            BY <3>4, <6>1
          <6>4. Judged(p, n)'
            BY <6>2, <6>3, <2>2, <2>3, <2>10, <2>12 DEF Judged
          <6>5. QED
            BY <6>1, <6>4, <3>4, <2>10
        <5>3. QED
          BY <5>1, <5>2
      <4>2. QED
        BY <2>2, <2>12, <4>1 DEF Compares
    <3>7. Settled(p)'
      BY <2>2 DEF Settled
    <3>8. QED
      BY <2>2, <2>13, <2>14, <3>5, <3>6, <3>7, ApplyProc DEF Applies
  <2>15. ASSUME cmd[p] # "apply"
         PROVE  Proc(p)'
    <3>1. Files(p)'
      BY <2>2, <2>4, <2>15, LoaderProc DEF Files, InPlace, Writing
    <3>2. Loads(p)'
      BY <2>2, <2>13 DEF Loads, Walked, Loading
    <3>3. Applies(p)'
      BY <2>2, <2>13, <2>15 DEF Applies, Operations, Compares, Settled
    <3>4. QED
      BY <3>1, <3>2, <3>3 DEF Proc
  <2>16. QED
    BY <1>1, <2>1, <2>12, <2>14, <2>15, ReadStep DEF Active
<1>5. QED
  BY <1>3, <1>4

LEMMA ComparedInv ==
  ASSUME IInv, NEW p \in Procs, Compared(p)
  PROVE  IInv'
<1>1. pc[p] = "diff" /\ job[p].left = {} /\ UNCHANGED <<filesVars, worldVars>>
  BY DEF Compared
<1>2. /\ TypeOK /\ InPlace(p) /\ Counted(p) /\ Distinct(p)
      /\ Resolved(p) /\ Operations(p) /\ Compares(p)
  BY DEF IInv, Proc, Files, Loads, Applies
<1>3. disk' = disk /\ steady' = steady /\ live' = live /\ calm' = calm /\ Live' = Live
  BY <1>1 DEF filesVars, worldVars, Live
<1>4. CASE cmd[p] = "apply"
  <2> DEFINE left == {m \in job[p].have : \E op \in job[p].announced : op.of = m.of}
             j == [job[p] EXCEPT !.left = left]
  <2>1. Go(p, "engine", j)
    BY <1>4 DEF Compared
  <2>2. pc'[p] = "engine" /\ job'[p] = j /\ cmd' = cmd
    BY <1>2, <2>1, GoFacts
  <2>3. /\ left \subseteq job[p].have
        /\ \A m \in job[p].have : m \in left <=> \E op \in job[p].announced : op.of = m.of
    OBVIOUS
  <2> HIDE DEF left
  <2>4. /\ j.have = job[p].have /\ j.left = left /\ j.resolved = job[p].resolved
        /\ j.announced = job[p].announced /\ JobOK(j)
    BY <1>2, <2>3, JobFacts DEF JobOK, Idle
  <2> HIDE DEF j
  <2>5. Counted(p)' /\ Distinct(p)' /\ Resolved(p)'
    BY <1>1, <1>2, <1>3, <1>4, <2>2, <2>3, <2>4 DEF Counted, Distinct, Resolved, Loading
  <2>6. Operations(p)'
    BY <1>1, <1>2, <1>4, <2>2, <2>3, <2>4 DEF Operations, Fits
  <2>7. \A m \in job[p].have :
          /\ Judged(p, m)
          /\ m.of \notin job[p].resolved => \E op \in job[p].announced : op.of = m.of
    BY <1>1, <1>2, <1>4 DEF Compares
  <2>8. Compares(p)'
    BY <1>3, <2>2, <2>3, <2>4, <2>7 DEF Compares, Judged
  <2>9. Settled(p)'
    <3>1. ASSUME NEW m \in job[p].have \ left, m.of \in calm[p]
          PROVE  Settles(m, live[m.of])
      <4>1. m.of \in job[p].resolved /\ \A op \in job[p].announced : op.of # m.of
        BY <2>3, <2>7, <3>1
      <4>2. DOMAIN Changing(m, live[m.of]) = {}
        BY <2>7, <3>1, <4>1 DEF Judged
      <4>3. QED
        BY <4>2 DEF Settles
    <3>2. QED
      BY <1>3, <2>2, <2>4, <3>1 DEF Settled
  <2>10. Proc(p)'
    BY <1>4, <2>2, <2>5, <2>6, <2>8, <2>9, ApplyProc DEF Applies
  <2>11. QED
    BY <1>1, <2>1, <2>4, <2>10, ReadStep DEF Active
<1>5. CASE cmd[p] # "apply"
  <2>1. Go(p, "done", job[p])
    BY <1>5 DEF Compared
  <2>2. pc'[p] = "done" /\ job'[p] = job[p] /\ cmd' = cmd
    BY <1>2, <2>1, GoFacts
  <2>3. cmd[p] \in Plans
    BY <1>1, <1>2, <1>5 DEF InPlace, Loaders
  <2>4. Files(p)'
    BY <2>2, <2>3, LoaderProc DEF Files, InPlace, Loaders, Plans, Writing, Imports
  <2>5. Loads(p)'
    BY <1>1, <1>2, <1>3, <2>2 DEF Loads, Walked, Loading, Counted, Distinct
  <2>6. Applies(p)'
    BY <1>5, <2>2 DEF Applies, Resolved, Operations, Compares, Settled
  <2>7. QED
    BY <1>1, <1>2, <2>1, <2>4, <2>5, <2>6, JobFacts, ReadStep DEF Proc, Active, Ended
<1>6. QED
  BY <1>4, <1>5

LEMMA AppliedInv ==
  ASSUME IInv, NEW p \in Procs, Applied(p)
  PROVE  IInv'
<1>1. /\ pc[p] = "engine" /\ job[p].left = {} /\ Go(p, "done", job[p])
      /\ UNCHANGED <<filesVars, worldVars>>
  BY DEF Applied
<1>2. TypeOK /\ InPlace(p) /\ Counted(p) /\ Distinct(p) /\ Settled(p)
  BY DEF IInv, Proc, Files, Loads, Applies
<1>3. disk' = disk /\ steady' = steady /\ live' = live /\ calm' = calm /\ Live' = Live
  BY <1>1 DEF filesVars, worldVars, Live
<1>4. pc'[p] = "done" /\ job'[p] = job[p] /\ cmd' = cmd
  BY <1>1, <1>2, GoFacts
<1>5. cmd[p] = "apply"
  BY <1>1, <1>2 DEF InPlace
<1>6. Counted(p)' /\ Distinct(p)'
  BY <1>1, <1>2, <1>3, <1>4 DEF Counted, Distinct
<1>7. Settled(p)'
  BY <1>1, <1>2, <1>3, <1>4 DEF Settled
<1>8. Applies(p)'
  BY <1>4, <1>7 DEF Applies, Resolved, Loading, Operations, Compares
<1>9. Proc(p)'
  BY <1>1, <1>4, <1>5, <1>6, <1>8, ApplyProc
<1>10. QED
  BY <1>1, <1>2, <1>9, JobFacts, ReadStep DEF Active, Ended

-----------------------------------------------------------------------------
(* apply's engine.                                                         *)

\* The operation carried out is that of its manifest, and what is made of the
\* object settles, unless somebody else changed it after the comparison.
LEMMA ExecuteFacts ==
  ASSUME IInv, NEW p \in Procs, pc[p] = "engine", NEW m \in job[p].left,
         NEW op \in job[p].announced, op.of = m.of, NEW n,
         n = IF op.verb = "create" THEN Created(m) ELSE Patched(m, live[m.of], op.changes)
  PROVE  /\ m \in Manifests /\ m \in job[p].have
         /\ n \in Objects(m.of.kind)
         /\ \A f \in Known(m.of.kind) : n[f] \in Refs => MayRefer(m.of.kind, f)
         /\ m.of \in calm[p] => Settles(m, n)
         /\ m.of \in Live => \A f \in DOMAIN live[m.of] :
              n[f] # live[m.of][f] => f \in DOMAIN op.changes
<1>1. TypeOK /\ InPlace(p) /\ Distinct(p) /\ Resolved(p) /\ Operations(p) /\ Compares(p)
  BY DEF IInv, Proc, Files, Loads, Applies
<1>2. cmd[p] = "apply" /\ m \in Manifests /\ m.of \in Resources
  BY <1>1, JobFacts, ManifestFacts DEF InPlace
<1>3. /\ m \in job[p].have /\ Bound(m)
      /\ \E x \in job[p].have : Fits(p, op, x)
      /\ \A x \in job[p].announced : x.of = m.of => x = op
  BY <1>1, <1>2 DEF Operations
<1>4. Sound(m) /\ \A x \in job[p].have : x.of = m.of => x = m
  BY <1>1, <1>2, <1>3 DEF Distinct, Loaders
<1>5. Fits(p, op, m)
  BY <1>3, <1>4 DEF Fits
<1>6. Judged(p, m)
  BY <1>1, <1>2 DEF Compares
<1>7. CASE op.verb = "create"
  <2>1. m.of \notin Live
    BY <1>1, <1>2, <1>5, <1>7 DEF Resolved, Fits
  <2>2. QED
    BY <1>2, <1>3, <1>4, <1>7, <2>1, CreatedType, CreateSettles
<1>8. CASE op.verb # "create"
  <2>1. m.of \in job[p].resolved /\ FieldChanges(m, op.changes) /\ ~Moves(op.changes)
    BY <1>5, <1>8 DEF Fits
  <2>2. m.of \in Live /\ live[m.of] \in Objects(m.of.kind)
    BY <1>1, <1>2, <2>1 DEF Resolved, TypeOK
  <2>3. n = Patched(m, live[m.of], op.changes)
    BY <1>8
  <2>4. n \in Objects(m.of.kind)
    BY <1>2, <2>1, <2>2, <2>3, PatchedType
  <2>5. m.of \in calm[p] => Settles(m, n)
    <3>1. m.of \in calm[p] => op.changes = Changing(m, live[m.of])
      BY <1>6, <2>1 DEF Judged
    <3>2. QED
      BY <1>2, <1>4, <2>1, <2>2, <2>3, <3>1, PatchSettles
  <2>6. /\ DOMAIN live[m.of] = Known(m.of.kind)
        /\ \A f \in Known(m.of.kind) :
             n[f] = live[m.of][f] \/ (f \in DOMAIN op.changes /\ n[f] = op.changes[f].new)
    BY <2>2, <2>3 DEF Patched, Objects
  <2>7. ASSUME NEW f \in Known(m.of.kind), n[f] \in Refs
        PROVE  MayRefer(m.of.kind, f)
    <3>1. CASE n[f] = live[m.of][f]
      BY <2>2, <2>7, <3>1 DEF IInv, NoReferenceIsSent, MayRefer
    <3>2. CASE f \in DOMAIN op.changes /\ n[f] = op.changes[f].new
      <4>1. f \in Diffable(m.of.kind) /\ n[f] \in {m.spec[f], ""}
        BY <2>1, <3>2 DEF FieldChanges
      <4>2. m.spec[f] \in Refs
        BY <2>7, <4>1, TextFacts DEF Fixed
      <4>3. QED
        BY <1>2, <1>3, <4>1, <4>2, BoundFields
    <3>3. QED
      BY <2>6, <3>1, <3>2
  <2>8. QED
    BY <1>2, <1>3, <2>4, <2>5, <2>6, <2>7
<1>9. QED
  BY <1>7, <1>8

LEMMA ExecuteInv ==
  ASSUME IInv, NEW p \in Procs, Execute(p)
  PROVE  IInv'
<1>1. PICK m \in job[p].left, op \in job[p].announced :
        /\ op.of = m.of
        /\ Touch(p, m.of, IF op.verb = "create" THEN Created(m)
                          ELSE Patched(m, live[m.of], op.changes))
        /\ Go(p, "engine", [job[p] EXCEPT !.left = @ \ {m}])
  BY DEF Execute
<1>2. PICK n : n = IF op.verb = "create" THEN Created(m) ELSE Patched(m, live[m.of], op.changes)
  OBVIOUS
<1>3. PICK j : j = [job[p] EXCEPT !.left = @ \ {m}]
  OBVIOUS
<1>4. pc[p] = "engine" /\ disk' = disk /\ root' = root /\ temp' = temp /\ steady' = steady
  BY DEF Execute, filesVars
<1>5. /\ TypeOK /\ InPlace(p) /\ Counted(p) /\ Distinct(p)
      /\ Resolved(p) /\ Operations(p) /\ Compares(p) /\ Settled(p)
  BY DEF IInv, Proc, Files, Loads, Applies
<1>6. /\ m \in Manifests /\ m \in job[p].have
      /\ n \in Objects(m.of.kind)
      /\ \A f \in Known(m.of.kind) : n[f] \in Refs => MayRefer(m.of.kind, f)
      /\ m.of \in calm[p] => Settles(m, n)
  BY <1>1, <1>2, <1>4, ExecuteFacts
<1>7. m.of \in Resources /\ m.of.kind \in Kinds
  BY <1>6, ManifestFacts
<1>8. cmd[p] = "apply" /\ \A x \in job[p].have : x.of = m.of => x = m
  BY <1>4, <1>5, <1>6 DEF InPlace, Distinct, Loaders
<1>9. /\ live' = [live EXCEPT ![m.of] = n]
      /\ calm' = [q \in Procs |-> IF q = p THEN calm[q] ELSE calm[q] \ {m.of}]
      /\ edits' = edits
      /\ pc' = [pc EXCEPT ![p] = "engine"] /\ job' = [job EXCEPT ![p] = j]
      /\ script' = script /\ cmd' = cmd
  BY <1>1, <1>2, <1>3 DEF Touch, Go
<1>10. /\ DOMAIN live = Resources
       /\ \A r \in Resources : live'[r] = IF r = m.of THEN n ELSE live[r]
       /\ DOMAIN live' = Resources
  BY <1>5, <1>7, <1>9 DEF TypeOK
<1>11. Live' = Live \cup {m.of}
  BY <1>6, <1>7, <1>10, NoObjectType DEF Live, Kinds
<1>12. /\ j.have = job[p].have /\ j.left = job[p].left \ {m} /\ j.resolved = job[p].resolved
       /\ j.announced = job[p].announced /\ JobOK(j)
  BY <1>3, <1>5, JobFacts DEF JobOK, Idle
<1>13. pc' = pc /\ job'[p] = j /\ calm'[p] = calm[p]
       /\ \A q \in Procs \ {p} : job'[q] = job[q] /\ calm'[q] = calm[q] \ {m.of}
  BY <1>4, <1>5, <1>9 DEF TypeOK
<1>14. TypeOK'
  <2>1. \A r \in Live' : live'[r] \in Objects(r.kind)
    BY <1>5, <1>6, <1>7, <1>10, <1>11 DEF TypeOK, Live
  <2>2. DOMAIN job' = Procs /\ \A q \in Procs : JobOK(job'[q])
    BY <1>5, <1>9, <1>12, <1>13 DEF TypeOK
  <2>3. calm' \in [Procs -> SUBSET Resources]
    BY <1>5, <1>9 DEF TypeOK
  <2>4. QED
    BY <1>4, <1>5, <1>9, <1>10, <1>13, <2>1, <2>2, <2>3 DEF TypeOK
<1>15. OnDisk'
  BY <1>4 DEF IInv, OnDisk, ManifestsAreWhole
<1>16. NoReferenceIsSent'
  BY <1>6, <1>7, <1>10, <1>11 DEF IInv, NoReferenceIsSent, MayRefer, Live
<1>17. OneApply'
  BY <1>9, <1>13 DEF IInv, OneApply
<1>18. ASSUME NEW q \in Procs \ {p}
       PROVE  Proc(q)'
  <2>1. ~(cmd[q] = "apply" /\ pc[q] \in Active)
    BY <1>4, <1>8 DEF IInv, OneApply, Active
  <2>2. \A r \in calm'[q] : live'[r] = live[r]
    BY <1>5, <1>10, <1>13, JobFacts
  <2>3. Rely(q)
    BY <1>4, <1>9, <1>11, <1>13, <2>1, <2>2 DEF Rely
  <2>4. QED
    BY <2>3, RelyProc DEF IInv
<1>19. Proc(p)'
  <2>1. \A x \in job[p].have : x # m => live'[x.of] = live[x.of] /\ (x.of \in Live' => x.of \in Live)
    BY <1>5, <1>8, <1>10, <1>11, JobFacts, ManifestFacts
  <2>2. job[p].left \subseteq job[p].have
    BY <1>4, <1>5, <1>8 DEF Operations
  <2>3. Counted(p)' /\ Distinct(p)'
    BY <1>4, <1>5, <1>9, <1>12, <1>13 DEF Counted, Distinct
  <2>4. Resolved(p)'
    BY <1>4, <1>5, <1>8, <1>9, <1>11, <1>12, <1>13, <2>1, <2>2 DEF Resolved, Loading
  <2>5. Operations(p)'
    BY <1>4, <1>5, <1>8, <1>9, <1>12, <1>13 DEF Operations, Fits
  <2>6. Compares(p)'
    <3>1. ASSUME NEW x \in job[p].left \ {m}
          PROVE  Judged(p, x)' /\ \E y \in job[p].announced : y.of = x.of
      <4>1. Judged(p, x) /\ \E y \in job[p].announced : y.of = x.of
        BY <1>4, <1>5, <1>8, <3>1 DEF Compares
      <4>2. live'[x.of] = live[x.of]
        BY <2>1, <2>2, <3>1
      <4>3. QED
        BY <1>12, <1>13, <4>1, <4>2 DEF Judged
    <3>2. QED
      BY <1>4, <1>12, <1>13, <3>1 DEF Compares
  <2>7. Settled(p)'
    <3>1. ASSUME NEW x \in job[p].have, x \notin job[p].left \ {m},
                 x.of \in calm[p], x.of \in Live'
          PROVE  Settles(x, live'[x.of])
      <4>1. CASE x = m
        BY <1>6, <1>7, <1>10, <3>1, <4>1
      <4>2. CASE x # m
        BY <1>4, <1>5, <1>8, <2>1, <3>1, <4>2 DEF Settled
      <4>3. QED
        BY <4>1, <4>2
    <3>2. QED
      BY <1>12, <1>13, <3>1 DEF Settled
  <2>8. QED
    BY <1>4, <1>8, <1>9, <1>13, <2>3, <2>4, <2>5, <2>6, <2>7, ApplyProc DEF Applies
<1>20. QED
  BY <1>14, <1>15, <1>16, <1>17, <1>18, <1>19 DEF IInv

-----------------------------------------------------------------------------
(* Beginnings, failures and people.                                        *)

LEMMA BeginInv ==
  ASSUME IInv, NEW p \in Procs, Begin(p)
  PROVE  IInv'
<1>1. PICK c : c = Head(script[p])
  OBVIOUS
<1>2. PICK l : l = Entry(c)
  OBVIOUS
<1>3. PICK j : j = [Idle EXCEPT !.files = IF c \in Loaders THEN OfKind("Application") ELSE {},
                                !.todo = IF c \in Imports THEN Live ELSE {}]
  OBVIOUS
<1>4. /\ pc[p] \notin Active /\ script[p] # <<>>
      /\ c = "apply" => \A q \in Procs : cmd[q] = "apply" => pc[q] \notin Active
      /\ cmd' = [cmd EXCEPT ![p] = c] /\ pc' = [pc EXCEPT ![p] = l]
      /\ job' = [job EXCEPT ![p] = j]
      /\ script' = [script EXCEPT ![p] = Tail(@)]
      /\ steady' = [steady EXCEPT ![p] = Paths]
      /\ calm' = [calm EXCEPT ![p] = Resources]
      /\ disk' = disk /\ root' = root /\ temp' = temp /\ live' = live /\ edits' = edits
  BY <1>1, <1>2, <1>3 DEF Begin, Loaders
<1>5. TypeOK
  BY DEF IInv
<1>6. c \in Commands /\ Tail(script[p]) \in Seq(Commands)
  BY <1>1, <1>4, <1>5 DEF TypeOK
<1>7. /\ c \in Imports => l = "collect"
      /\ c = "save" => l = "open"
      /\ c \in Plans => l = "load"
      /\ c = "apply" => l = "resolve"
  BY <1>2 DEF Entry, Imports, Plans
<1>8. l \in Active
  BY <1>6, <1>7 DEF Commands, Active
<1>9. /\ j.files = IF c \in Loaders THEN OfKind("Application") ELSE {}
      /\ j.todo = IF c \in Imports THEN Live ELSE {}
      /\ j.have = {} /\ j.left = {} /\ j.found = {} /\ j.announced = {}
      /\ j.loading = "Application"
  BY <1>3 DEF Idle
<1>10. JobOK(j)
  BY <1>3 DEF JobOK, Idle, OfKind, Live
<1>11. cmd'[p] = c /\ pc'[p] = l /\ job'[p] = j /\ Live' = Live
  BY <1>4, <1>5 DEF TypeOK, Live
<1>12. TypeOK'
  <2>1. DOMAIN job' = Procs /\ \A q \in Procs : JobOK(job'[q])
    BY <1>4, <1>5, <1>10 DEF TypeOK
  <2>2. script' \in [Procs -> Seq(Commands)]
    BY <1>4, <1>5, <1>6 DEF TypeOK
  <2>3. cmd' \in [Procs -> Commands] /\ pc' \in [Procs -> Active \cup Ended \cup {"idle"}]
    BY <1>4, <1>5, <1>6, <1>8 DEF TypeOK
  <2>4. steady' \in [Procs -> SUBSET Paths] /\ calm' \in [Procs -> SUBSET Resources]
    BY <1>4, <1>5 DEF TypeOK
  <2>5. QED
    BY <1>4, <1>5, <1>11, <2>1, <2>2, <2>3, <2>4 DEF TypeOK
<1>13. OnDisk' /\ NoReferenceIsSent'
  BY <1>4, <1>11 DEF IInv, OnDisk, ManifestsAreWhole, NoReferenceIsSent
<1>14. OneApply'
  BY <1>4, <1>5 DEF IInv, OneApply, TypeOK
<1>15. ASSUME NEW q \in Procs \ {p}
       PROVE  Proc(q)'
  <2>1. Rely(q)
    BY <1>4, <1>5, <1>11 DEF Rely, TypeOK
  <2>2. QED
    BY <2>1, <1>5, RelyProc DEF IInv
<1>16. Proc(p)'
  <2>1. CASE c \in Writers
    <3>1. Loads(p)' /\ Applies(p)'
      BY <2>1, <1>7, <1>11, WriterProc DEF Writers
    <3>2. Files(p)'
      BY <2>1, <1>7, <1>9, <1>11
      DEF Files, InPlace, Held, StillFree, StillThere, StillLive, Writers, Writing, Imports
    <3>3. QED
      BY <3>1, <3>2 DEF Proc
  <2>2. CASE c \in Loaders
    <3>1. Pending(p)' = Paths
      <4>1. \A path \in Paths : KindAt(path) \in Kinds
        BY ResourceKind DEF Paths
      <4>2. QED
        BY <4>1, <2>2, <1>9, <1>11 DEF Pending, OfKind, Kinds
    <3>2. Walked(p)'
      BY <3>1, <2>2, <1>9, <1>11, <1>12 DEF Walked, TypeOK
    <3>3. pc'[p] \in Loading /\ pc'[p] # "bind"
      BY <2>2, <1>7, <1>11 DEF Loaders, Loading
    <3>4. Counted(p)' /\ Distinct(p)' /\ Resolved(p)'
      BY <3>3, <2>2, <1>7, <1>9, <1>11 DEF Counted, Distinct, Resolved, Loading, Plans
    <3>5. QED
      BY <3>2, <3>3, <3>4, <2>2, <1>11, LoadProc
  <2>3. QED
    BY <2>1, <2>2, <1>6 DEF Commands, Writers, Loaders
<1>17. QED
  BY <1>12, <1>13, <1>14, <1>15, <1>16 DEF IInv

LEMMA FailuresInv ==
  ASSUME IInv, NEW p \in Procs, ReadFails(p) \/ Refused(p) \/ Crash(p)
  PROVE  IInv'
BY GiveUp DEF ReadFails, Refused, Crash, Fail, Active

LEMMA HandEditInv ==
  ASSUME IInv, NEW path \in Paths, HandEdit(path)
  PROVE  IInv'
<1>1. PICK c \in {m \in Drafts : PathOf(m.of) = path} \cup {Garbage, NoFile} :
        Rewrite(Somebody, path, c)
  BY DEF HandEdit
<1>2. /\ edits.disk > 0 /\ edits' = [edits EXCEPT !.disk = @ - 1]
      /\ root' = root /\ temp' = temp /\ live' = live /\ calm' = calm /\ script' = script
      /\ cmd' = cmd /\ pc' = pc /\ job' = job /\ Live' = Live
  BY DEF HandEdit, Live
<1>3. TypeOK /\ OnDisk
  BY DEF IInv
<1>4. /\ disk' = [disk EXCEPT ![path] = c]
      /\ steady' = [q \in Procs |-> steady[q] \ {path}]
  BY <1>1, SomebodyElse DEF Rewrite
<1>5. /\ c \in Manifests \cup {NoFile, Garbage}
      /\ c \in Manifests => PathOf(c.of) = path /\ Clean(c)
      /\ c # Torn
  <2>1. CASE c \in {m \in Drafts : PathOf(m.of) = path}
    BY <2>1, DraftsType, Contents
  <2>2. CASE c \in {Garbage, NoFile} /\ c \in Manifests
    BY <2>2, Contents
  <2>3. CASE c \in {Garbage, NoFile} /\ c \notin Manifests
    BY <2>3, Contents
  <2>4. QED
    BY <1>1, <2>1, <2>2, <2>3
<1>6. \A x \in Paths : disk'[x] = IF x = path THEN c ELSE disk[x]
  BY <1>3, <1>4 DEF TypeOK
<1>7. TypeOK'
  <2>1. edits' \in [disk : Nat, live : Nat]
    <3>1. edits.disk \in Nat /\ edits.live \in Nat /\ edits = [disk |-> edits.disk, live |-> edits.live]
      BY <1>3 DEF TypeOK
    <3>2. edits.disk - 1 \in Nat
      BY <1>2, <3>1
    <3>3. PICK i \in Nat : i = edits.disk - 1
      BY <3>2
    <3>4. edits' = [edits EXCEPT !.disk = i]
      BY <1>2, <3>3
    <3>5. QED
      BY <1>3, <3>4 DEF TypeOK
  <2>2. disk' \in [Paths -> Manifests \cup {NoFile, Garbage, Torn}]
    BY <1>3, <1>4, <1>5 DEF TypeOK
  <2>3. steady' \in [Procs -> SUBSET Paths]
    BY <1>3, <1>4 DEF TypeOK
  <2>4. QED
    BY <1>2, <1>3, <2>1, <2>2, <2>3 DEF TypeOK
<1>8. OnDisk'
  BY <1>3, <1>5, <1>6 DEF OnDisk, ManifestsAreWhole
<1>9. NoReferenceIsSent' /\ OneApply'
  BY <1>2 DEF IInv, NoReferenceIsSent, OneApply
<1>10. ASSUME NEW q \in Procs
       PROVE  Proc(q)'
  <2>1. Rely(q)
    BY <1>2, <1>3, <1>4, <1>6, JobFacts DEF Rely
  <2>2. QED
    BY <2>1, <1>3, RelyProc DEF IInv
<1>11. QED
  BY <1>7, <1>8, <1>9, <1>10 DEF IInv

LEMMA DashboardEditInv ==
  ASSUME IInv, NEW r \in Live, DashboardEdit(r)
  PROVE  IInv'
<1>1. PICK k \in Knobs :
        k[1] \in DOMAIN live[r] /\ live' = [live EXCEPT ![r] = [@ EXCEPT ![k[1]] = k[2]]]
  BY DEF DashboardEdit
<1>2. /\ edits.live > 0 /\ edits' = [edits EXCEPT !.live = @ - 1]
      /\ calm' = [q \in Procs |-> calm[q] \ {r}]
      /\ disk' = disk /\ root' = root /\ temp' = temp /\ steady' = steady
      /\ script' = script /\ cmd' = cmd /\ pc' = pc /\ job' = job
  BY DEF DashboardEdit, filesVars
<1>3. TypeOK /\ r \in Resources /\ r.kind \in Kinds
  BY ResourceKind DEF IInv, Live
<1>4. PICK n : n = [live[r] EXCEPT ![k[1]] = k[2]]
  OBVIOUS
<1>5. live[r] \in Objects(r.kind)
  BY <1>3 DEF TypeOK
<1>6. /\ k[1] \notin Destination \cup {"host"} /\ k[2] \in Text \ Refs
      /\ k[1] = "public" => k[2] \in {"true", "false"}
  BY KnobsType
<1>7. n \in Objects(r.kind)
  <2>1. /\ live[r] \in [Known(r.kind) -> Text]
        /\ \A f \in Numbers \cap Known(r.kind) : live[r][f] \notin Refs
        /\ live[r]["destination.server"] \in {"", live[r]["host"]}
        /\ r.kind = "Database" => live[r]["public"] \in {"true", "false"}
    BY <1>5 DEF Objects
  <2>2. n \in [Known(r.kind) -> Text]
    BY <1>1, <1>4, <1>6, <2>1
  <2>3. \A f \in Known(r.kind) : n[f] = IF f = k[1] THEN k[2] ELSE live[r][f]
    BY <1>1, <1>4, <2>1
  <2>4. {"destination.server", "host"} \subseteq Known(r.kind)
    BY <1>3 DEF Kinds, Known, Diffable, Destination
  <2>5. n["destination.server"] \in {"", n["host"]}
    BY <1>6, <2>1, <2>3, <2>4 DEF Destination
  <2>6. r.kind = "Database" => n["public"] \in {"true", "false"}
    BY <1>6, <2>1, <2>3 DEF Known, Diffable
  <2>7. \A f \in Numbers \cap Known(r.kind) : n[f] \notin Refs
    BY <1>6, <2>1, <2>3
  <2>8. QED
    BY <2>2, <2>5, <2>6, <2>7 DEF Objects
<1>8. \A f \in Known(r.kind) : n[f] \in Refs => n[f] = live[r][f]
  BY <1>1, <1>4, <1>5, <1>6 DEF Objects
<1>9. /\ DOMAIN live' = Resources
      /\ \A x \in Resources : live'[x] = IF x = r THEN n ELSE live[x]
  BY <1>1, <1>3, <1>4 DEF TypeOK
<1>10. Live' = Live
  BY <1>3, <1>7, <1>9, NoObjectType DEF Live, Kinds
<1>11. TypeOK'
  <2>1. edits' \in [disk : Nat, live : Nat]
    <3>1. edits.disk \in Nat /\ edits.live \in Nat /\ edits = [disk |-> edits.disk, live |-> edits.live]
      BY <1>3 DEF TypeOK
    <3>2. edits.live - 1 \in Nat
      BY <1>2, <3>1
    <3>3. PICK i \in Nat : i = edits.live - 1
      BY <3>2
    <3>4. edits' = [edits EXCEPT !.live = i]
      BY <1>2, <3>3
    <3>5. QED
      BY <1>3, <3>4 DEF TypeOK
  <2>2. \A x \in Live' : live'[x] \in Objects(x.kind)
    BY <1>3, <1>7, <1>9, <1>10 DEF TypeOK, Live
  <2>3. calm' \in [Procs -> SUBSET Resources]
    BY <1>2, <1>3 DEF TypeOK
  <2>4. QED
    BY <1>2, <1>3, <1>9, <2>1, <2>2, <2>3 DEF TypeOK
<1>12. OnDisk' /\ OneApply'
  BY <1>2 DEF IInv, OnDisk, ManifestsAreWhole, OneApply
<1>13. NoReferenceIsSent'
  BY <1>8, <1>9, <1>10 DEF IInv, NoReferenceIsSent, Live
<1>14. ASSUME NEW q \in Procs
       PROVE  Proc(q)'
  <2>1. Rely(q)
    BY <1>2, <1>3, <1>9, <1>10, JobFacts DEF Rely
  <2>2. QED
    BY <2>1, <1>3, RelyProc DEF IInv
<1>15. QED
  BY <1>11, <1>12, <1>13, <1>14 DEF IInv

-----------------------------------------------------------------------------
(* Every step.                                                             *)

LEMMA NextIInv ==
  ASSUME IInv, [Next]_vars
  PROVE  IInv'
<1>1. CASE UNCHANGED vars
  <2>1. /\ disk' = disk /\ root' = root /\ temp' = temp /\ steady' = steady
        /\ live' = live /\ edits' = edits /\ calm' = calm /\ script' = script
        /\ cmd' = cmd /\ pc' = pc /\ job' = job /\ Live' = Live
    BY <1>1 DEF vars, filesVars, worldVars, Live
  <2>2. ASSUME NEW q \in Procs PROVE Proc(q)'
    <3>1. Rely(q)
      BY <2>1 DEF Rely
    <3>2. QED
      BY <3>1, RelyProc DEF IInv
  <2>3. TypeOK' /\ OnDisk' /\ NoReferenceIsSent' /\ OneApply'
    BY <2>1 DEF IInv, TypeOK, OnDisk, ManifestsAreWhole, NoReferenceIsSent, OneApply
  <2>4. QED
    BY <2>2, <2>3 DEF IInv
<1>2. CASE \E path \in Paths : HandEdit(path)
  BY <1>2, HandEditInv
<1>3. CASE \E r \in Live : DashboardEdit(r)
  BY <1>3, DashboardEditInv
<1>4. CASE \E p \in Procs : Begin(p) \/ Crash(p) \/ ReadFails(p) \/ WriteFails(p) \/ Refused(p)
  BY <1>4, BeginInv, FailuresInv, WriteFailsInv
<1>5. CASE \E p \in Procs : Step(p)
  <2>1. PICK p \in Procs : Step(p)
    BY <1>5
  <2>2. CASE Collect(p) \/ Check(p) \/ TruncateRoot(p) \/ FillRoot(p)
    BY <2>2, CollectInv, CheckInv, RootInv
  <2>3. CASE Open(p) \/ StartFile(p) \/ FillFile(p) \/ RenameFile(p) \/ Written(p)
    BY <2>3, OpenInv, StartFileInv, FillFileInv, RenameFileInv, WrittenInv
  <2>4. CASE Walk(p) \/ Read(p) \/ Loaded(p) \/ Resolve(p)
    BY <2>4, WalkInv, ReadInv, LoadedInv, ResolveInv
  <2>5. CASE BindAll(p) \/ Compare(p) \/ Compared(p) \/ Execute(p) \/ Applied(p)
    BY <2>5, BindAllInv, CompareInv, ComparedInv, ExecuteInv, AppliedInv
  <2>6. QED
    BY <2>1, <2>2, <2>3, <2>4, <2>5 DEF Step
<1>6. QED
  BY <1>1, <1>2, <1>3, <1>4, <1>5 DEF Next, Goes

\* The invariant holds in every state: see IInv.
THEOREM Invariant == Spec => []IInv
<1>1. Init => IInv
  BY InitIInv
<1>2. IInv /\ [Next]_vars => IInv'
  BY NextIInv
<1>3. QED
  BY <1>1, <1>2, PTL DEF Spec

-----------------------------------------------------------------------------
(* The theorems.                                                           *)

\* Every variable holds what it is meant to, and every object stays well formed.
THEOREM TypeCorrect == Spec => []TypeOK
<1>1. IInv => TypeOK
  BY DEF IInv
<1>2. QED
  BY <1>1, Invariant, PTL

\* However imports and saves overlap, fail or crash, no manifest is ever seen half
\* written.
THEOREM WritesAreAtomic == Spec => []ManifestsAreWhole
<1>1. IInv => ManifestsAreWhole
  BY DEF IInv, OnDisk
<1>2. QED
  BY <1>1, Invariant, PTL

\* Neither the importer nor the explorer ever writes a password in clear.
THEOREM NoPasswordOnDisk == Spec => []PasswordsStayReferences
<1>1. ASSUME IInv, NEW path \in Paths, disk[path] \in Manifests, KindAt(path) = "Database"
      PROVE  disk[path].spec["password"] \in Refs \cup {""}
  <2>1. PathOf(disk[path].of) = path /\ Clean(disk[path])
    BY <1>1 DEF IInv, OnDisk
  <2>2. disk[path].of \in Resources
    BY <1>1, ManifestFacts
  <2>3. disk[path].of.kind = "Database"
    BY <1>1, <2>1, <2>2, ResourceKind
  <2>4. QED
    BY <2>1, <2>3 DEF Clean
<1>2. IInv => PasswordsStayReferences
  BY <1>1 DEF PasswordsStayReferences
<1>3. QED
  BY <1>2, Invariant, PTL

\* What a successful import reports as written is on disk.
THEOREM ImportDelivers == Spec => []ReportedIsOnDisk
<1>1. ASSUME IInv, NEW p \in Procs, pc[p] = "done", cmd[p] \in Imports,
             NEW m \in job[p].have, PathOf(m.of) \in steady[p]
      PROVE  disk[PathOf(m.of)] \in {n \in job[p].have : PathOf(n.of) = PathOf(m.of)}
  <2>1. TypeOK /\ OnDisk /\ InPlace(p) /\ StillThere(p)
    BY <1>1 DEF IInv, Proc, Files
  <2>2. disk[PathOf(m.of)] \in job[p].have
    BY <1>1, <2>1 DEF InPlace, StillThere
  <2>3. disk[PathOf(m.of)] \in Manifests /\ PathOf(m.of) \in Paths
    BY <1>1, <2>1, <2>2, JobFacts
  <2>4. PathOf(disk[PathOf(m.of)].of) = PathOf(m.of)
    BY <2>1, <2>3 DEF OnDisk
  <2>5. QED
    BY <2>2, <2>4
<1>2. IInv => ReportedIsOnDisk
  BY <1>1 DEF ReportedIsOnDisk
<1>3. QED
  BY <1>2, Invariant, PTL

\* A plan or an apply takes in every manifest that was on disk all along and
\* parses: none is passed over, and one that is not valid stops it.
THEOREM NothingIsPassedOver == Spec => []EveryManifestCounts
<1>1. ASSUME IInv, NEW p \in Procs, cmd[p] \in Loaders, pc[p] \in {"diff", "engine", "done"},
             NEW path \in steady[p], disk[path] \in Manifests
      PROVE  \E m \in job[p].have : m.of = disk[path].of
  <2>1. IF cmd[p] = "apply" THEN CanBind(disk[path]) /\ Bind(disk[path]) \in job[p].have
        ELSE disk[path] \in job[p].have
    BY <1>1 DEF IInv, Proc, Loads, Counted
  <2>2. QED
    BY <1>1, <2>1, BindType
<1>2. IInv => EveryManifestCounts
  BY <1>1 DEF EveryManifestCounts, Loaders
<1>3. QED
  BY <1>2, Invariant, PTL

\* No reference reaches Coolify but in the fields apply does not bind.
THEOREM ReferencesAreBound == Spec => []NoReferenceIsSent
<1>1. IInv => NoReferenceIsSent
  BY DEF IInv
<1>2. QED
  BY <1>1, Invariant, PTL

\* After a successful apply, only what no request carries is left to change of a
\* resource nobody else touched.
THEOREM ApplyConverges == Spec => []ApplySettles
<1>1. ASSUME IInv, NEW p \in Procs, cmd[p] = "apply", pc[p] = "done",
             NEW m \in job[p].have, Undisturbed(p, m), NEW f \in DOMAIN Remaining(m)
      PROVE  Stubborn(m, f, Remaining(m)[f])
  <2>1. TypeOK /\ InPlace(p) /\ Settled(p)
    BY <1>1 DEF IInv, Proc, Files, Applies
  <2>2. m.of \in calm[p] /\ m.of \in Live
    BY <1>1, <2>1, JobFacts DEF Undisturbed, Live
  <2>3. Settles(m, live[m.of])
    BY <1>1, <2>1, <2>2 DEF InPlace, Settled
  <2>4. Remaining(m) = Changing(m, live[m.of])
    BY DEF Remaining, Changing
  <2>5. QED
    BY <1>1, <2>3, <2>4 DEF Settles
<1>2. IInv => ApplySettles
  BY <1>1 DEF ApplySettles
<1>3. QED
  BY <1>2, Invariant, PTL

\* A plan announces what the apply of the same manifest does, up to the fields
\* that hold references.
THEOREM PlanIsHonest == Spec => []PlanForetells
<1>1. ASSUME IInv, NEW p \in Procs, cmd[p] = "apply", pc[p] = "diff", job[p].left = {},
             NEW path \in steady[p], disk[path] \in Manifests,
             Undisturbed(p, disk[path]), disk[path].of \in job[p].resolved
      PROVE  LET m == disk[path]
                 does == UNION {DOMAIN op.changes : op \in {x \in job[p].announced : x.of = m.of}}
             IN /\ DOMAIN Remaining(m) \subseteq does
                /\ \A f \in does \ DOMAIN Remaining(m) : m.spec[f] \in Refs
  <2> DEFINE m == disk[path]
             b == Bind(m)
             o == live[m.of]
             does == UNION {DOMAIN op.changes : op \in {x \in job[p].announced : x.of = m.of}}
  <2>1. CanBind(m) /\ b \in job[p].have
    BY <1>1 DEF IInv, Proc, Loads, Counted, Loaders
  <2>2. b.of = m.of
    BY <1>1, <2>1, BindType
  <2>3. Judged(p, b)
    BY <1>1, <2>1 DEF IInv, Proc, Applies, Compares
  <2>4. m.of \in calm[p]
    BY <1>1 DEF Undisturbed
  <2>5. /\ \A op \in job[p].announced : op.of = m.of => op.changes = Changing(b, o)
        /\ (\A op \in job[p].announced : op.of # m.of) => DOMAIN Changing(b, o) = {}
    BY <1>1, <2>2, <2>3, <2>4 DEF Judged
  <2>6. DOMAIN Changing(b, o) = does
    <3>1. CASE \A op \in job[p].announced : op.of # m.of
      BY <2>5, <3>1
    <3>2. CASE \E op \in job[p].announced : op.of = m.of
      <4>1. \A op \in {x \in job[p].announced : x.of = m.of} :
              DOMAIN op.changes = DOMAIN Changing(b, o)
        BY <2>5
      <4>2. {x \in job[p].announced : x.of = m.of} # {}
        BY <3>2
      <4>3. QED
        BY <4>1, <4>2
    <3>3. QED
      BY <3>1, <3>2
  <2>7. Remaining(m) = Changing(m, o)
    BY DEF Remaining, Changing
  <2>8. /\ DOMAIN Changing(m, o) \subseteq DOMAIN Changing(b, o)
        /\ \A f \in DOMAIN Changing(b, o) \ DOMAIN Changing(m, o) : m.spec[f] \in Refs
    BY <1>1, <2>1, PlanLemma
  <2>9. QED
    BY <2>6, <2>7, <2>8
<1>2. IInv => PlanForetells
  BY <1>1 DEF PlanForetells
<1>3. QED
  BY <1>2, Invariant, PTL

\* The plan right after an import is clean, but for what an import cannot bring
\* over.
THEOREM ImportRoundTrips == Spec => []ImportedPlansClean
<1>1. ASSUME IInv, NEW p \in Procs, cmd[p] \in Imports, pc[p] = "done",
             NEW m \in job[p].have, Undisturbed(p, m), Valid(m), NEW f \in DOMAIN Remaining(m)
      PROVE  Lost(live[m.of], f)
  <2>1. TypeOK /\ StillLive(p)
    BY <1>1 DEF IInv, Proc, Files
  <2>2. m.of \in Live /\ m = Map(m.of, live[m.of])
    BY <1>1, <2>1 DEF StillLive, Undisturbed
  <2>3. m.of \in Resources /\ live[m.of] \in Objects(m.of.kind)
    BY <2>1, <2>2 DEF TypeOK, Live
  <2>4. Remaining(m) = Changing(m, live[m.of])
    BY DEF Remaining, Changing
  <2>5. PICK o : o = live[m.of]
    OBVIOUS
  <2>6. PICK r : r = m.of
    OBVIOUS
  <2>7. QED
    BY <1>1, <2>2, <2>3, <2>4, <2>5, <2>6, ImportLemma
<1>2. IInv => ImportedPlansClean
  BY <1>1 DEF ImportedPlansClean
<1>3. QED
  BY <1>2, Invariant, PTL

-----------------------------------------------------------------------------
(* What a step may never do.                                               *)

LEMMA StepsGo ==
  ASSUME NEW q \in Procs, Goes(q) \/ Crash(q)
  PROVE  \E l, j : Go(q, l, j)
<1>1. CASE Collect(q) \/ Check(q) \/ TruncateRoot(q) \/ FillRoot(q) \/ Open(q)
  BY <1>1 DEF Collect, Check, TruncateRoot, FillRoot, Open, Fail
<1>2. CASE StartFile(q) \/ FillFile(q) \/ RenameFile(q) \/ Written(q)
  BY <1>2 DEF StartFile, FillFile, RenameFile, Written
<1>3. CASE Walk(q) \/ Read(q) \/ Loaded(q) \/ Resolve(q)
  BY <1>3 DEF Walk, Read, Loaded, Resolve, Fail
<1>4. CASE BindAll(q) \/ Compare(q) \/ Compared(q) \/ Execute(q) \/ Applied(q)
  BY <1>4 DEF BindAll, Compare, Compared, Execute, Applied, Fail
<1>5. CASE ReadFails(q) \/ WriteFails(q) \/ Refused(q) \/ Crash(q)
  BY <1>5 DEF ReadFails, WriteFails, Refused, Crash, Fail
<1>6. QED
  BY <1>1, <1>2, <1>3, <1>4, <1>5 DEF Goes, Step

\* A process changes its own state only by its own steps.
LEMMA OwnStep ==
  ASSUME TypeOK, [Next]_vars, NEW p \in Procs, pc'[p] # pc[p] \/ job'[p] # job[p]
  PROVE  Begin(p) \/ Goes(p) \/ Crash(p)
<1>1. ~UNCHANGED <<pc, job>>
  OBVIOUS
<1>2. PICK q \in Procs : Begin(q) \/ Goes(q) \/ Crash(q)
  BY <1>1 DEF Next, vars, HandEdit, DashboardEdit
<1>3. CASE q # p
  <2>1. PICK l, j : pc' = [pc EXCEPT ![q] = l] /\ job' = [job EXCEPT ![q] = j]
    <3>1. CASE Begin(q)
      BY <3>1 DEF Begin
    <3>2. CASE Goes(q) \/ Crash(q)
      BY <3>2, StepsGo DEF Go
    <3>3. QED
      BY <1>2, <3>1, <3>2
  <2>2. QED
    BY <1>3, <2>1 DEF TypeOK
<1>4. QED
  BY <1>2, <1>3

\* An import without --force never replaces a manifest that was there when it
\* began.
THEOREM ImportReplacesNothing == Spec => ImportKeepsFiles
<1>1. ASSUME IInv, [Next]_vars, NEW p \in Procs, cmd[p] = "import",
             pc[p] = "rename", pc'[p] = "write",
             NEW path \in steady[p] \ Done(p), Exists(path)
      PROVE  disk'[path] = disk[path]
  <2>1. TypeOK /\ Held(p) /\ StillFree(p)
    BY <1>1 DEF IInv, Proc, Files
  <2>2. RenameFile(p)
    <3>1. Begin(p) \/ Goes(p) \/ Crash(p)
      BY <1>1, <2>1, OwnStep
    <3>2. pc'[p] # "failed" /\ pc'[p] # "killed"
      BY <1>1
    <3>3. ~Begin(p) /\ ~Crash(p)
      BY <1>1, <2>1, <3>2, GoFacts DEF Begin, Crash, Active
    <3>4. ~ReadFails(p) /\ ~WriteFails(p) /\ ~Refused(p)
      BY <1>1, <2>1, <3>2, GoFacts DEF ReadFails, WriteFails, Refused, Fail
    <3>5. Step(p)
      BY <3>1, <3>3, <3>4 DEF Goes
    <3>6. QED
      BY <1>1, <3>5
      DEF Step, Collect, Check, TruncateRoot, FillRoot, Open, StartFile, FillFile, Written,
          Walk, Read, Loaded, Resolve, BindAll, Compare, Compared, Execute, Applied
  <2>3. temp[p] \in job[p].left /\ job[p].cur = {temp[p]} /\ temp[p] \in job[p].have
    BY <1>1, <2>1 DEF Held, Writing
  <2>4. disk' = [disk EXCEPT ![PathOf(temp[p].of)] = temp[p]]
    BY <2>2, <2>3 DEF RenameFile, RenameTemp, Rewrite
  <2>5. path # PathOf(temp[p].of)
    BY <1>1, <2>1, <2>3 DEF StillFree, Writing
  <2>6. path \in Paths
    BY <1>1, <2>1, JobFacts
  <2>7. QED
    BY <2>1, <2>4, <2>5, <2>6 DEF TypeOK
<1>2. IInv /\ [Next]_vars =>
        [\A p \in Procs :
           cmd[p] = "import" /\ pc[p] = "rename" /\ pc'[p] = "write" =>
             \A path \in steady[p] \ Done(p) : Exists(path) => disk'[path] = disk[path]]_vars
  BY <1>1
<1>3. QED
  BY <1>2, Invariant, PTL DEF Spec, ImportKeepsFiles

\* What apply sends never undoes what somebody else changed after the comparison,
\* but in the fields it announced.
THEOREM ApplySendsOnlyChanges == Spec => OthersEditsSurvive
<1>1. ASSUME IInv, [Next]_vars, NEW p \in Procs, NEW r \in Live,
             pc[p] = "engine", job'[p].left # job[p].left,
             NEW f \in DOMAIN live[r], live'[r][f] # live[r][f]
      PROVE  \E op \in job[p].announced : op.of = r /\ f \in DOMAIN op.changes
  <2>1. TypeOK
    BY <1>1 DEF IInv
  <2>2. Execute(p)
    <3>1. Begin(p) \/ Goes(p) \/ Crash(p)
      BY <1>1, <2>1, OwnStep
    <3>2. job'[p] # job[p]
      BY <1>1
    <3>3. ~Begin(p) /\ ~Crash(p)
      BY <1>1, <2>1, <3>2, GoFacts DEF Begin, Crash, Active
    <3>4. ~ReadFails(p) /\ ~WriteFails(p) /\ ~Refused(p) /\ ~Applied(p)
      BY <1>1, <2>1, <3>2, GoFacts DEF ReadFails, WriteFails, Refused, Applied, Fail
    <3>5. Step(p)
      BY <3>1, <3>3, <3>4 DEF Goes
    <3>6. QED
      BY <1>1, <3>4, <3>5
      DEF Step, Collect, Check, TruncateRoot, FillRoot, Open, StartFile, FillFile, RenameFile,
          Written, Walk, Read, Loaded, Resolve, BindAll, Compare, Compared
  <2>3. PICK m \in job[p].left, op \in job[p].announced :
          /\ op.of = m.of
          /\ Touch(p, m.of, IF op.verb = "create" THEN Created(m)
                            ELSE Patched(m, live[m.of], op.changes))
    BY <2>2 DEF Execute
  <2>4. PICK n : n = IF op.verb = "create" THEN Created(m)
                     ELSE Patched(m, live[m.of], op.changes)
    OBVIOUS
  <2>5. live' = [live EXCEPT ![m.of] = n] /\ r \in Resources
    BY <2>3, <2>4 DEF Touch, Live
  <2>6. r = m.of /\ n[f] # live[r][f]
    BY <1>1, <2>1, <2>5 DEF TypeOK
  <2>7. f \in DOMAIN op.changes
    BY <1>1, <2>3, <2>4, <2>6, ExecuteFacts
  <2>8. QED
    BY <2>3, <2>6, <2>7
<1>2. IInv /\ [Next]_vars =>
        [\A p \in Procs, r \in Live :
           pc[p] = "engine" /\ job'[p].left # job[p].left =>
             \A f \in DOMAIN live[r] : live'[r][f] # live[r][f] =>
               \E op \in job[p].announced : op.of = r /\ f \in DOMAIN op.changes]_vars
  BY <1>1
<1>3. QED
  BY <1>2, Invariant, PTL DEF Spec, OthersEditsSurvive
=============================================================================
