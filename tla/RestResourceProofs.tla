------------------------- MODULE RestResourceProofs -------------------------
(***************************************************************************)
(* Proofs about RestResource, for every set of configurations that fits    *)
(* the schemas, all values and every number of resources.                  *)
(***************************************************************************)
EXTENDS RestResource, TLAPS

(***************************************************************************)
(* Attributes: the two spellings, and what renaming does.                  *)
(***************************************************************************)
TfSpelled == {"access_key_id", "api_key", "secret_access_key", "channel_id", "group_name"}
ApiSpelled == {"accessKeyId", "apiKey", "secretAccessKey", "channelId", "groupName"}
Hidden == {"accessKeyId", "apiKey", "secretAccessKey", "token"}
Display == {"accessKeyIdDisplay", "apiKeyDisplay", "secretAccessKeyDisplay", "tokenDisplay"}
Back == [channelId |-> "channel_id", groupName |-> "group_name"]

LEMMA SpelledKeys ==
  /\ DOMAIN Spellings = TfSpelled /\ ImageOf(Spellings) = ApiSpelled
  /\ DOMAIN Displays = Hidden /\ ImageOf(Displays) = Display
  /\ DOMAIN Back = {"channelId", "groupName"} /\ ImageOf(Back) = {"channel_id", "group_name"}
<1>1. DOMAIN Spellings = TfSpelled /\ DOMAIN Displays = Hidden
        /\ DOMAIN Back = {"channelId", "groupName"}
  BY DEF Spellings, TfSpelled, Displays, Hidden, Back
<1>2. ImageOf(Spellings) = ApiSpelled
  BY DEF Spellings, ImageOf, ApiSpelled
<1>3. ImageOf(Displays) = Display
  BY DEF Displays, ImageOf, Display
<1>4. ImageOf(Back) = {"channel_id", "group_name"}
  BY DEF Back, ImageOf
<1>5. QED
  BY <1>1, <1>2, <1>3, <1>4

LEMMA ApiKeysAre == ApiKeys = {"project_id", "name", "blocks", "spec", "token"} \union ApiSpelled
  BY SpelledKeys DEF ApiKeys

LEMMA KeysAre == Keys = ApiKeys \union TfSpelled
  BY SpelledKeys DEF Keys

OneToOne(names) == \A j, k \in DOMAIN names : names[j] = names[k] => j = k

LEMMA NamesOneToOne == OneToOne(Spellings) /\ OneToOne(Displays) /\ OneToOne(Back)
<1>1. OneToOne(Spellings)
  BY DEF OneToOne, Spellings
<1>2. OneToOne(Displays)
  BY DEF OneToOne, Displays
<1>3. OneToOne(Back)
  BY DEF OneToOne, Back
<1>4. QED
  BY <1>1, <1>2, <1>3

NewNames(attrs, names) == {names[k] : k \in DOMAIN names \intersect DOMAIN attrs}

\* Under its new name a value is what it was, and so is one with another name.
LEMMA RenamedParts ==
  ASSUME NEW attrs, NEW names, OneToOne(names)
  PROVE  /\ DOMAIN Renamed(attrs, names) =
              (DOMAIN attrs \ DOMAIN names) \union NewNames(attrs, names)
         /\ Renamed(attrs, names) \in [DOMAIN Renamed(attrs, names) -> ImageOf(attrs)]
         /\ \A k \in DOMAIN names \intersect DOMAIN attrs : Renamed(attrs, names)[names[k]] = attrs[k]
         /\ \A k \in DOMAIN attrs \ (DOMAIN names \union ImageOf(names)) :
              Renamed(attrs, names)[k] = attrs[k]
<1> DEFINE from == DOMAIN names \intersect DOMAIN attrs
           to == {names[k] : k \in from}
           Old(k) == CHOOSE j \in from : names[j] = k
           keys == (DOMAIN attrs \ from) \union to
<1>1. Renamed(attrs, names) = [k \in keys |-> IF k \in to THEN attrs[Old(k)] ELSE attrs[k]]
  BY DEF Renamed
<1>2. \A k \in to : Old(k) \in from /\ names[Old(k)] = k
  <2> SUFFICES ASSUME NEW k \in to PROVE Old(k) \in from /\ names[Old(k)] = k
    OBVIOUS
  <2>1. \E j \in from : names[j] = k
    OBVIOUS
  <2>2. QED
    BY <2>1, Zenon
<1> HIDE DEF Old
<1>3. \A k \in from : Old(names[k]) = k
  BY <1>2 DEF OneToOne
<1>4. keys = (DOMAIN attrs \ DOMAIN names) \union to
  OBVIOUS
<1>5. \A k \in DOMAIN attrs \ (DOMAIN names \union ImageOf(names)) : k \in keys \ to
  BY DEF ImageOf
<1>6. Renamed(attrs, names) \in [keys -> ImageOf(attrs)]
  BY <1>1, <1>2 DEF ImageOf
<1>7. QED
  BY <1>1, <1>3, <1>4, <1>5, <1>6 DEF NewNames

-----------------------------------------------------------------------------
(***************************************************************************)
(* What is sent to the API and what is read from it are attributes.        *)
(***************************************************************************)
AValue == Values \union {Empty, Foreign, Blank, Bare, Padded}

LEMMA AreAttrs ==
  ASSUME NEW f, NEW keys, NEW dom, dom \subseteq keys, f \in [dom -> AValue]
  PROVE  IsAttrs(f, keys)
  BY DEF IsAttrs, AValue

LEMMA FewerAttrs ==
  ASSUME NEW f, NEW keys, IsAttrs(f, keys)
  PROVE  /\ f \in [DOMAIN f -> AValue]
         /\ \A more : keys \subseteq more => IsAttrs(f, more)
  BY DEF IsAttrs, AValue

LEMMA RenamedAttrs ==
  ASSUME NEW f, NEW keys, NEW names, OneToOne(names), IsAttrs(f, keys)
  PROVE  IsAttrs(Renamed(f, names), (keys \ DOMAIN names) \union ImageOf(names))
<1>1. ImageOf(f) \subseteq AValue /\ DOMAIN f \subseteq keys
  BY DEF IsAttrs, AValue, ImageOf
<1>2. NewNames(f, names) \subseteq ImageOf(names)
  BY DEF ImageOf, NewNames
<1> DEFINE r == Renamed(f, names)
<1>3. /\ DOMAIN r = (DOMAIN f \ DOMAIN names) \union NewNames(f, names)
      /\ r \in [DOMAIN r -> ImageOf(f)]
  BY RenamedParts
<1> HIDE DEF r
<1>4. r \in [DOMAIN r -> AValue]
  BY <1>1, <1>3
<1>5. DOMAIN r \subseteq (keys \ DOMAIN names) \union ImageOf(names)
  BY <1>1, <1>2, <1>3
<1>6. IsAttrs(r, (keys \ DOMAIN names) \union ImageOf(names))
  BY <1>4, <1>5, AreAttrs
<1>7. QED
  BY <1>6 DEF r

LEMMA PartAttrs ==
  ASSUME NEW f, NEW keys, IsAttrs(f, keys)
  PROVE  /\ \A some : IsAttrs(Only(f, some), keys \intersect some)
         /\ \A some : IsAttrs(Without(f, some), keys \ some)
         /\ IsAttrs(NonEmpty(f), keys)
         /\ \A old : IsAttrs(Changed(old, f), keys)
         /\ IsAttrs(AclRequest(f), keys)
<1>1. DOMAIN f \subseteq keys /\ f \in [DOMAIN f -> AValue]
  BY DEF IsAttrs, AValue
<1>2. \A some : IsAttrs(Only(f, some), keys \intersect some)
  BY <1>1 DEF Only, IsAttrs, AValue
<1>3. \A some : IsAttrs(Without(f, some), keys \ some)
  BY <1>1 DEF Without, IsAttrs, AValue
<1>4. IsAttrs(NonEmpty(f), keys)
  BY <1>1 DEF NonEmpty, IsAttrs, AValue
<1>5. \A old : IsAttrs(Changed(old, f), keys)
  BY <1>1 DEF Changed, IsAttrs, AValue
<1>6. IsAttrs(AclRequest(f), keys)
  <2>1. \A b \in AValue : CidrBlocks(b) \in AValue
    BY DEF CidrBlocks, AValue
  <2>2. AclRequest(f) \in [DOMAIN f -> AValue]
    BY <1>1, <2>1 DEF AclRequest
  <2>3. QED
    BY <1>1, <2>2, AreAttrs
<1>7. QED
  BY <1>2, <1>3, <1>4, <1>5, <1>6

LEMMA OverAttrs ==
  ASSUME NEW f, NEW g, NEW keys, IsAttrs(f, keys), IsAttrs(g, keys)
  PROVE  IsAttrs(Over(f, g), keys)
  BY DEF Over, IsAttrs

LEMMA NoAttrs == ASSUME NEW keys PROVE IsAttrs(<<>>, keys)
  BY DEF IsAttrs

\* No key in Terraform's spelling is sent to the API.
LEMMA ToApiAttrs ==
  ASSUME NEW f, IsAttrs(f, Keys)
  PROVE  IsAttrs(ToApi(f), ApiKeys)
<1>1. IsAttrs(ToApi(f), (Keys \ DOMAIN Spellings) \union ImageOf(Spellings))
  BY NamesOneToOne, RenamedAttrs DEF ToApi
<1>2. (Keys \ DOMAIN Spellings) \union ImageOf(Spellings) \subseteq ApiKeys
  BY SpelledKeys, ApiKeysAre, KeysAre
<1>3. QED
  BY <1>1, <1>2, FewerAttrs

LEMMA RequestTyped ==
  ASSUME kind \in Kinds, NEW c \in Configs[kind]
  PROVE  IsAttrs(Request(c), ApiKeys)
<1>1. IsAttrs(c, Keys) /\ kind \in AllKinds
  BY KindAssumption, ConfigAssumption
<1>2. CASE kind \in {"integration", "cloudwatch"}
  <2>1. Request(c) = ToApi(c)
    BY <1>2 DEF Request
  <2>2. QED
    BY <1>1, <2>1, ToApiAttrs
<1>3. CASE kind \in {"project", "acl", "backup"}
  <2>1. IsAttrs(c, ApiKeys)
    BY <1>1, <1>3, SchemaAssumption DEF IsAttrs
  <2>2. CASE kind = "acl"
    <3>1. Request(c) = AclRequest(c)
      BY <2>2 DEF Request
    <3>2. QED
      BY <2>1, <3>1, PartAttrs
  <2>3. CASE kind # "acl"
    <3>1. Request(c) = c
      BY <1>3, <2>3 DEF Request
    <3>2. QED
      BY <2>1, <3>1
  <2>4. QED
    BY <2>2, <2>3
<1>4. QED
  BY <1>1, <1>2, <1>3 DEF AllKinds

\* The body of PUT, case by case of the resource.
LEMMA Bodies ==
  ASSUME NEW old, NEW new
  PROVE  /\ kind = "project" => Sent(old, new) = Only(new, {"name"})
         /\ kind = "acl" => Sent(old, new) = AclBody(new)
         /\ kind = "integration" => Sent(old, new) = IntegrationBody(old, new)
         /\ kind = "cloudwatch" => Sent(old, new) = CloudWatchBody(old, new)
         /\ kind = "backup" => Sent(old, new) = <<>>
  BY DEF Sent

LEMMA SentTyped ==
  ASSUME kind \in AllKinds, NEW old, NEW new, IsAttrs(new, Keys)
  PROVE  IsAttrs(Sent(old, new), ApiKeys)
<1>1. IsAttrs(Only(new, {"name"}), ApiKeys) /\ IsAttrs(Only(new, {"name", "blocks"}), ApiKeys)
  <2>1. /\ IsAttrs(Only(new, {"name"}), Keys \intersect {"name"})
        /\ IsAttrs(Only(new, {"name", "blocks"}), Keys \intersect {"name", "blocks"})
    BY PartAttrs
  <2>2. {"name", "blocks"} \subseteq ApiKeys
    BY ApiKeysAre
  <2>3. QED
    BY <2>1, <2>2, FewerAttrs
<1>2. IsAttrs(NonEmpty(Only(new, {"name"})), ApiKeys)
  BY <1>1, PartAttrs
<1>3. CASE kind = "project"
  BY <1>1, <1>3, Bodies
<1>4. CASE kind = "acl"
  <2>1. IsAttrs(AclBody(new), ApiKeys)
    BY <1>1, PartAttrs DEF AclBody
  <2>2. QED
    BY <1>4, <2>1, Bodies
<1>5. CASE kind = "integration"
  <2> DEFINE Data(attrs) == Without(attrs, {"project_id", "name"})
             data == IF Data(old) = Data(new) THEN <<>> ELSE ToApi(Data(new))
  <2>1. IsAttrs(Data(new), Keys)
    <3>1. IsAttrs(Data(new), Keys \ {"project_id", "name"})
      BY PartAttrs
    <3>2. QED
      BY <3>1, FewerAttrs
  <2>2. IsAttrs(data, ApiKeys)
    BY <2>1, ToApiAttrs, NoAttrs
  <2>3. IntegrationBody(old, new) = Over(NonEmpty(Only(new, {"name"})), data)
    BY DEF IntegrationBody
  <2> HIDE DEF data
  <2>4. QED
    BY <1>2, <1>5, <2>2, <2>3, OverAttrs, Bodies
<1>6. CASE kind = "cloudwatch"
  <2> DEFINE keys == NonEmpty(Changed(Only(old, Secrets), Only(new, Secrets)))
             data == Over(Only(new, {"group_name"}), keys)
  <2>1. IsAttrs(Only(new, Secrets), Keys) /\ IsAttrs(Only(new, {"group_name"}), Keys)
    <3>1. /\ IsAttrs(Only(new, Secrets), Keys \intersect Secrets)
          /\ IsAttrs(Only(new, {"group_name"}), Keys \intersect {"group_name"})
      BY PartAttrs
    <3>2. QED
      BY <3>1, FewerAttrs
  <2>2. IsAttrs(keys, Keys)
    BY <2>1, PartAttrs
  <2>3. IsAttrs(ToApi(data), ApiKeys)
    BY <2>1, <2>2, OverAttrs, ToApiAttrs
  <2>4. CloudWatchBody(old, new) = Over(NonEmpty(Only(new, {"name"})), ToApi(data))
    BY DEF CloudWatchBody
  <2> HIDE DEF data
  <2>5. QED
    BY <1>2, <1>6, <2>3, <2>4, OverAttrs, Bodies
<1>7. CASE kind = "backup"
  BY <1>7, Bodies, NoAttrs
<1>8. QED
  BY <1>3, <1>4, <1>5, <1>6, <1>7 DEF AllKinds

\* What GET shows and translateApiDataToTf makes of it: two keys are spelled otherwise, what was
\* masked is gone, and the rest is as it is stored.
Plain == {"project_id", "name", "blocks", "spec"}

LEMMA ReadBack ==
  ASSUME NEW f, DOMAIN f \subseteq ApiKeys
  PROVE  /\ DOMAIN ToTf(Shown(f)) = (DOMAIN f \intersect Plain)
              \union NewNames(f, Back)
         /\ \A k \in DOMAIN f \intersect Plain : ToTf(Shown(f))[k] = f[k]
         /\ \A k \in DOMAIN f \intersect DOMAIN Back : ToTf(Shown(f))[Back[k]] = f[k]
<1> DEFINE masked == Renamed(f, Displays)
           shown == Shown(f)
           spelled == Renamed(shown, Back)
<1>1. /\ DOMAIN masked = (DOMAIN f \ Hidden) \union NewNames(f, Displays)
      /\ \A k \in DOMAIN f \ (Hidden \union Display) : masked[k] = f[k]
  BY NamesOneToOne, RenamedParts, SpelledKeys
<1>2. shown = [k \in DOMAIN masked |-> IF k \in Display THEN Masked ELSE masked[k]]
  BY SpelledKeys DEF Shown
<1>3. NewNames(f, Displays) \subseteq Display
  BY SpelledKeys DEF ImageOf, NewNames
<1> HIDE DEF masked
<1>4. DOMAIN shown = DOMAIN masked /\ \A k \in DOMAIN f \ (Hidden \union Display) : shown[k] = f[k]
  BY <1>1, <1>2
<1>5. DOMAIN f \intersect (Display \union TfSpelled) = {}
  BY ApiKeysAre DEF Display, TfSpelled, ApiSpelled
<1> HIDE DEF shown
<1>6. /\ DOMAIN spelled = (DOMAIN shown \ DOMAIN Back) \union NewNames(shown, Back)
      /\ \A k \in DOMAIN Back \intersect DOMAIN shown : spelled[Back[k]] = shown[k]
      /\ \A k \in DOMAIN shown \ (DOMAIN Back \union ImageOf(Back)) : spelled[k] = shown[k]
  BY NamesOneToOne, RenamedParts
<1>7. ToTf(Shown(f)) = [k \in DOMAIN spelled \ Display |-> spelled[k]]
  BY SpelledKeys DEF ToTf, Without, Back, shown
<1> HIDE DEF spelled
<1>8. DOMAIN Back \intersect DOMAIN shown = DOMAIN f \intersect DOMAIN Back
  BY <1>1, <1>3, <1>4, SpelledKeys DEF Hidden, Display
<1>9. \A k \in DOMAIN Back : Back[k] \in {"channel_id", "group_name"}
  BY SpelledKeys DEF ImageOf
<1>10. (DOMAIN spelled \ Display) = (DOMAIN f \intersect Plain)
              \union NewNames(f, Back)
  <2>1. (DOMAIN shown \ DOMAIN Back) \ Display = DOMAIN f \intersect Plain
    BY <1>1, <1>3, <1>4, <1>5, ApiKeysAre, SpelledKeys DEF Hidden, Display, Plain, ApiSpelled
  <2>2. NewNames(f, Back) \intersect Display = {}
    BY <1>9 DEF Display, NewNames
  <2>3. NewNames(shown, Back) = NewNames(f, Back)
    BY <1>8 DEF NewNames
  <2>4. QED
    BY <1>6, <2>1, <2>2, <2>3
<1>11. \A k \in DOMAIN f \intersect Plain : spelled[k] = f[k]
  BY <1>1, <1>4, <1>6, SpelledKeys DEF Plain, Hidden, Display
<1>12. \A k \in DOMAIN f \intersect DOMAIN Back : spelled[Back[k]] = f[k]
  BY <1>4, <1>6, <1>8, SpelledKeys DEF Hidden, Display
<1>13. \A k \in DOMAIN f \intersect DOMAIN Back : Back[k] \in NewNames(f, Back)
  BY DEF NewNames
<1>14. QED
  BY <1>7, <1>10, <1>11, <1>12, <1>13

\* What Read leaves, case by case of the resource.
LEMMA Views ==
  ASSUME NEW f, NEW kept
  PROVE  /\ kind = "integration" => View(f, kept) = ToTf(Shown(f))
         /\ kind = "cloudwatch" => View(f, kept) = Over(Only(kept, Secrets), ToTf(Shown(f)))
         /\ kind \notin {"integration", "cloudwatch"} => View(f, kept) = f
  BY DEF View, CloudWatchView

\* No masked secret gets into the state.
LEMMA ViewTyped ==
  ASSUME kind \in AllKinds, NEW f, IsAttrs(f, ApiKeys), NEW kept, IsAttrs(kept, Keys)
  PROVE  IsAttrs(View(f, kept), Keys)
<1> DEFINE r == ToTf(Shown(f))
<1>1. /\ DOMAIN r = (DOMAIN f \intersect Plain) \union NewNames(f, Back)
      /\ \A k \in DOMAIN f \intersect Plain : r[k] = f[k]
      /\ \A k \in DOMAIN f \intersect DOMAIN Back : r[Back[k]] = f[k]
  BY ReadBack DEF IsAttrs
<1>2. r \in [DOMAIN r -> {r[k] : k \in DOMAIN r}]
  BY DEF ToTf, Without
<1> HIDE DEF r
<1>3. \A k \in DOMAIN f : f[k] \in AValue
  BY DEF IsAttrs, AValue
<1>4. \A k \in NewNames(f, Back) : \E j \in DOMAIN f \intersect DOMAIN Back : k = Back[j]
  BY DEF NewNames
<1>5. \A k \in DOMAIN r : r[k] \in AValue
  BY <1>1, <1>3, <1>4
<1>6. NewNames(f, Back) \subseteq Keys /\ Plain \subseteq Keys
  BY KeysAre, ApiKeysAre, SpelledKeys DEF NewNames, ImageOf, Plain, TfSpelled
<1>7. r \in [DOMAIN r -> AValue] /\ DOMAIN r \subseteq Keys
  BY <1>1, <1>2, <1>5, <1>6
<1>8. IsAttrs(r, Keys)
  BY <1>7, AreAttrs
<1>9. IsAttrs(Only(kept, Secrets), Keys)
  <2>1. IsAttrs(Only(kept, Secrets), Keys \intersect Secrets)
    BY PartAttrs
  <2>2. QED
    BY <2>1, FewerAttrs
<1>10. IsAttrs(f, Keys)
  BY FewerAttrs, KeysAre
<1>11. QED
  BY <1>8, <1>9, <1>10, OverAttrs, Views DEF r

\* What is sent is read back as it was written, but for the secrets.
LEMMA WrittenIsRead ==
  ASSUME kind \in AllKinds, NEW c, IsAttrs(c, Keys), Canonical(c), NEW kept
  PROVE  Without(View(Request(c), kept), Secrets \union {"token"})
           = Without(c, Secrets \union {"token"})
<1> DEFINE S == Secrets \union {"token"}
           f == ToApi(c)
           r == ToTf(Shown(f))
<1>1. CASE kind \in {"project", "backup"}
  <2>1. Request(c) = c
    BY <1>1 DEF Request
  <2>2. QED
    BY <1>1, <2>1, Views
<1>2. CASE kind = "acl"
  <2>1. c \in [DOMAIN c -> AValue] /\ \A k \in DOMAIN c : c[k] \notin {Foreign, Bare}
    BY DEF IsAttrs, AValue, Canonical
  <2>2. AclRequest(c) = c
    BY <2>1 DEF AclRequest, CidrBlocks
  <2>3. Request(c) = AclRequest(c)
    BY <1>2 DEF Request
  <2>4. QED
    BY <1>2, <2>2, <2>3, Views
<1>3. /\ DOMAIN c \subseteq Plain \union TfSpelled \union {"token"}
      /\ DOMAIN c \intersect ApiSpelled = {}
  BY KeysAre, ApiKeysAre, SpelledKeys DEF Canonical, IsAttrs, Plain
<1>4. /\ DOMAIN f = (DOMAIN c \ TfSpelled) \union NewNames(c, Spellings)
      /\ \A k \in TfSpelled \intersect DOMAIN c : f[Spellings[k]] = c[k]
      /\ \A k \in DOMAIN c \ (TfSpelled \union ApiSpelled) : f[k] = c[k]
  BY NamesOneToOne, RenamedParts, SpelledKeys DEF ToApi
<1>5. DOMAIN f \subseteq ApiKeys
  BY ToApiAttrs DEF IsAttrs
<1> HIDE DEF f
<1>6. /\ DOMAIN r = (DOMAIN f \intersect Plain) \union NewNames(f, Back)
      /\ \A k \in DOMAIN f \intersect Plain : r[k] = f[k]
      /\ \A k \in DOMAIN f \intersect DOMAIN Back : r[Back[k]] = f[k]
  BY <1>5, ReadBack
<1> HIDE DEF r
<1>7. DOMAIN f \intersect Plain = DOMAIN c \intersect Plain
  BY <1>4, SpelledKeys DEF NewNames, ImageOf, Plain, TfSpelled, ApiSpelled
<1>8. /\ "channelId" \in DOMAIN f <=> "channel_id" \in DOMAIN c
      /\ "groupName" \in DOMAIN f <=> "group_name" \in DOMAIN c
  BY <1>3, <1>4 DEF NewNames, Spellings, TfSpelled, ApiSpelled
<1>9. /\ "channel_id" \in DOMAIN c => f["channelId"] = c["channel_id"]
      /\ "group_name" \in DOMAIN c => f["groupName"] = c["group_name"]
  BY <1>4 DEF Spellings, TfSpelled
<1>10. \A k : k \in NewNames(f, Back) <=>
         \/ k = "channel_id" /\ "channelId" \in DOMAIN f
         \/ k = "group_name" /\ "groupName" \in DOMAIN f
  BY DEF NewNames, Back
<1>11. DOMAIN r \ S = DOMAIN c \ S
  BY <1>3, <1>6, <1>7, <1>8, <1>10 DEF Secrets, Plain, TfSpelled
<1>12. \A k \in DOMAIN c \ S : r[k] = c[k]
  <2>1. \A k \in DOMAIN c \intersect Plain : r[k] = c[k]
    BY <1>4, <1>6, <1>7 DEF Plain, TfSpelled, ApiSpelled
  <2>2. "channel_id" \in DOMAIN c => r["channel_id"] = c["channel_id"]
    BY <1>6, <1>8, <1>9 DEF Back
  <2>3. "group_name" \in DOMAIN c => r["group_name"] = c["group_name"]
    BY <1>6, <1>8, <1>9 DEF Back
  <2>4. QED
    BY <1>3, <2>1, <2>2, <2>3 DEF Secrets, TfSpelled
<1>13. Without(r, S) = Without(c, S)
  BY <1>11, <1>12 DEF Without
<1>14. CASE kind = "integration"
  <2>1. Request(c) = f
    BY <1>14 DEF Request, f
  <2>2. QED
    BY <1>13, <1>14, <2>1, Views DEF r
<1>15. CASE kind = "cloudwatch"
  <2>1. Request(c) = f
    BY <1>15 DEF Request, f
  <2>2. View(f, kept) = Over(Only(kept, Secrets), r)
    BY <1>15, Views DEF r
  <2>3. Without(Over(Only(kept, Secrets), r), S) = Without(r, S)
    BY DEF Without, Over, Only
  <2>4. QED
    BY <1>13, <2>1, <2>2, <2>3
<1>16. QED
  BY <1>1, <1>2, <1>14, <1>15 DEF AllKinds

-----------------------------------------------------------------------------
(***************************************************************************)
(* The inductive invariant.  Typed: what is referred to exists and has     *)
(* attributes.  Control: the place of a handler fits its operation, its    *)
(* ResourceData and the saved state.                                       *)
(***************************************************************************)
IsState(s) ==
  /\ DOMAIN s = {"id", "attrs", "tainted"}
  /\ s.id \in Ids \union {None} /\ (s.attrs = None \/ IsAttrs(s.attrs, Keys)) /\ s.tainted \in BOOLEAN

IsItem(p) ==
  /\ DOMAIN p = {"status", "doomed", "attrs"}
  /\ p.status \in {"none", "active", "deleted"}
  /\ p.doomed \in BOOLEAN /\ (p.attrs = None \/ IsAttrs(p.attrs, ApiKeys))

IsData(r) ==
  /\ DOMAIN r = {"op", "id", "new"}
  /\ r.op \in {"none", "create", "update", "delete"}
  /\ r.id \in Ids \union {None} /\ (r.new = None \/ IsAttrs(r.new, Keys))

Exists(id) == items[id].status # "none"

Typed ==
  /\ TypeOK
  /\ \A i \in Ids : items[i].status = "active" => IsAttrs(items[i].attrs, ApiKeys)
  /\ tf.id # None => IsAttrs(tf.attrs, Keys) /\ Exists(tf.id)
  /\ d.id # None => Exists(d.id)
  /\ d.op \in {"create", "update"} => d.new \in Configs[kind]

Control ==
  /\ pc \in {"idle", "plan"} => d.op = "none" /\ d.id = None
  /\ pc \in Handler => (d.id = None <=> pc = "create")
  /\ pc = "create" => d.op = "create"
  /\ pc = "read" => d.op \in {"create", "update"}
  /\ pc = "update" => d.op = "update"
  /\ pc \in {"delete", "poll", "gone"} => d.op = "delete"
  /\ pc = "poll" => Polled
  /\ d.op = "create" => tf.id = None
  /\ d.op \in {"update", "delete"} => tf.id = d.id
  /\ pc = "gone" => items[d.id].status = "deleted"

Inv == Typed /\ Control

\* None is not the id of a resource.
LEMMA NoneIsNoId == None \notin Ids
  BY NullAssumption DEF Ids

\* The null records have their types.
LEMMA NullRecords ==
  /\ IsState(NoState) /\ NoState.id = None
  /\ IsData(NoData) /\ NoData.op = "none" /\ NoData.id = None
  /\ IsItem(NoItem) /\ NoItem.status = "none"
  /\ IsItem(Gone) /\ Gone.status = "deleted"
  BY DEF NoState, IsState, NoData, IsData, NoItem, Gone, IsItem

\* Configurations are attributes of a known kind of resource.
LEMMA ConfigsAre ==
  ASSUME kind \in Kinds
  PROVE  kind \in AllKinds /\ \A c \in Configs[kind] : IsAttrs(c, Keys) /\ c # None /\ c # Absent
  BY KindAssumption, ConfigAssumption

\* TypeOK in terms of its records.
LEMMA TypesAre ==
  TypeOK <=>
    /\ kind \in Kinds /\ cfg \in Configs[kind] \union {Absent}
    /\ IsState(tf) /\ IsData(d)
    /\ DOMAIN items = Ids /\ \A i \in Ids : IsItem(items[i])
    /\ pc \in {"idle", "plan"} \union Handler
    /\ late \in BOOLEAN /\ expired \in BOOLEAN /\ calm \in BOOLEAN
    /\ lost \subseteq Ids /\ unsure \subseteq Ids
  BY DEF TypeOK, IsState, IsItem, IsData

-----------------------------------------------------------------------------
\* The API answers a create with the id, which the handler stores and reads.
CreateReads(id) ==
  /\ d' = [d EXCEPT !.id = id]
  /\ pc' = "read" /\ lost' = lost \ {id} /\ unsure' = unsure \ {id}
  /\ UNCHANGED <<kind, cfg, tf, late, expired, calm>>

(***************************************************************************)
(* What no step does to the items: none ceases to exist, and a deleted one *)
(* stays deleted but where an id is given anew.                            *)
(***************************************************************************)
ExistsNext(id) == items'[id].status # "none"

Kept ==
  /\ DOMAIN items' = Ids /\ kind' = kind
  /\ \A i \in Ids :
       /\ IsItem(items'[i])
       /\ items'[i].status = "active" => IsAttrs(items'[i].attrs, ApiKeys)
       /\ Exists(i) => ExistsNext(i)
       /\ items[i].status = "deleted" /\ pc # "create" => items'[i].status = "deleted"

\* A step that leaves the items alone.
LEMMA SameKept == Typed /\ UNCHANGED <<items, kind>> => Kept
  BY TypesAre DEF Typed, Kept, Exists, ExistsNext

\* A step that changes one item.
LEMMA OneKept ==
  ASSUME Typed, kind' = kind, NEW id \in Ids, NEW p, IsItem(p), items' = [items EXCEPT ![id] = p],
         p.status # "none", p.status = "active" => IsAttrs(p.attrs, ApiKeys),
         items[id].status = "deleted" => p.status = "deleted" \/ pc = "create"
  PROVE  Kept
<1>1. DOMAIN items = Ids /\ \A i \in Ids : IsItem(items[i])
  BY TypesAre DEF Typed
<1>2. /\ DOMAIN items' = Ids
      /\ items'[id] = p /\ \A i \in Ids \ {id} : items'[i] = items[i]
  BY <1>1
<1>3. QED
  BY <1>1, <1>2 DEF Typed, Kept, Exists, ExistsNext

\* A new item.
LEMMA ProvisionKept ==
  ASSUME Typed, kind' = kind, NEW id \in FreshIds, d.new \in Configs[kind], pc = "create",
         Provision(id)
  PROVE  Kept /\ ExistsNext(id)
<1> DEFINE p == [status |-> "active", doomed |-> FALSE, attrs |-> Request(d.new)]
<1>1. kind \in Kinds /\ DOMAIN items = Ids /\ id \in Ids
  BY TypesAre DEF Typed, FreshIds
<1>2. IsAttrs(Request(d.new), ApiKeys)
  BY <1>1, RequestTyped
<1>3. items' = [items EXCEPT ![id] = p]
  BY DEF Provision
<1>4. IsItem(p) /\ p.status = "active" /\ IsAttrs(p.attrs, ApiKeys)
  BY <1>2 DEF IsItem
<1> HIDE DEF p
<1>5. items'[id] = p
  BY <1>1, <1>3
<1>6. QED
  BY <1>1, <1>3, <1>4, <1>5, OneKept DEF ExistsNext

\* An update of an item.
LEMMA PutKept ==
  ASSUME Typed, kind' = kind, NEW id \in Ids, d.new \in Configs[kind], AcceptsUpdate(id), Put(id)
  PROVE  Kept
<1> DEFINE attrs == Over(Sent(tf.attrs, d.new), items[id].attrs)
           p == [items[id] EXCEPT !.attrs = attrs]
<1>1. /\ kind \in Kinds /\ DOMAIN items = Ids /\ IsItem(items[id]) /\ items[id].status = "active"
      /\ IsAttrs(items[id].attrs, ApiKeys)
  BY TypesAre DEF Typed, AcceptsUpdate
<1>2. IsAttrs(attrs, ApiKeys)
  BY <1>1, ConfigsAre, SentTyped, OverAttrs
<1>3. items' = [items EXCEPT ![id] = p]
  BY DEF Put
<1> HIDE DEF attrs
<1>4. IsItem(p) /\ p.status = "active" /\ IsAttrs(p.attrs, ApiKeys)
  BY <1>1, <1>2 DEF IsItem
<1> HIDE DEF p
<1>5. QED
  BY <1>1, <1>3, <1>4, OneKept

\* A request to delete.
LEMMA DoomKept ==
  ASSUME Typed, kind' = kind, NEW id \in Ids, items[id].status = "active", Doom(id)
  PROVE  Kept
<1> DEFINE p == IF Polled THEN [items[id] EXCEPT !.doomed = TRUE] ELSE Gone
<1>1. IsItem(items[id]) /\ IsAttrs(items[id].attrs, ApiKeys)
  BY TypesAre DEF Typed
<1>2. items' = [items EXCEPT ![id] = p]
  BY DEF Doom
<1>3. IsItem(p) /\ p.status # "none" /\ (p.status = "active" => IsAttrs(p.attrs, ApiKeys))
  <2>1. CASE Polled
    BY <1>1, <2>1 DEF IsItem
  <2>2. CASE ~Polled
    BY <2>2, NullRecords
  <2>3. QED
    BY <2>1, <2>2
<1> HIDE DEF p
<1>4. QED
  BY <1>2, <1>3, OneKept

\* The steps of the API change an active item and nothing else.
Api(id) == Remove(id) \/ Spare(id) \/ Vanish(id)

LEMMA ApiOnly ==
  ASSUME NEW id \in Ids, Api(id)
  PROVE  /\ UNCHANGED <<kind, cfg, tf, pc, d, late, expired, calm, lost, unsure>>
         /\ items[id].status = "active"
         /\ \/ items' = [items EXCEPT ![id] = Gone]
            \/ items' = [items EXCEPT ![id] = [items[id] EXCEPT !.doomed = FALSE]]
  BY DEF Api, Remove, Spare, Vanish, Become

LEMMA ApiKept ==
  ASSUME Typed, NEW id \in Ids, Api(id)
  PROVE  Kept
<1> DEFINE p == [items[id] EXCEPT !.doomed = FALSE]
<1>1. IsItem(items[id]) /\ IsAttrs(items[id].attrs, ApiKeys) /\ items[id].status = "active"
        /\ kind' = kind
  BY ApiOnly, TypesAre DEF Typed
<1>2. IsItem(p) /\ p.status = "active" /\ IsAttrs(p.attrs, ApiKeys)
  BY <1>1 DEF IsItem
<1>3. items' = [items EXCEPT ![id] = Gone] \/ items' = [items EXCEPT ![id] = p]
  BY ApiOnly
<1> HIDE DEF p
<1>4. QED
  BY <1>1, <1>2, <1>3, NullRecords, OneKept

\* No step undoes an item.
LEMMA NextKept == Inv /\ [Next]_vars => Kept
<1> SUFFICES ASSUME Inv, [Next]_vars PROVE Kept
  OBVIOUS
<1>1. UNCHANGED <<items, kind>> => Kept
  BY SameKept DEF Inv
<1>2. CASE Create
  <2>1. d.new \in Configs[kind]
    BY <1>2 DEF Create, Inv, Control, Typed
  <2>2. kind' = kind
    BY <1>2 DEF Create, Goto, Fail, End
  <2>3. QED
    BY <1>1, <1>2, <2>1, <2>2, ProvisionKept DEF Create, Inv
<1>3. CASE Update
  <2>1. d.new \in Configs[kind] /\ d.id \in Ids
    BY <1>3, TypesAre DEF Update, Inv, Control, Typed, Handler, IsData
  <2>2. kind' = kind
    BY <1>3 DEF Update, Goto, Fail, End
  <2>3. QED
    BY <1>1, <1>3, <2>1, <2>2, PutKept DEF Update, Inv
<1>4. CASE Delete
  <2>1. d.id \in Ids
    BY <1>4, TypesAre DEF Delete, Inv, Control, Typed, Handler, IsData
  <2>2. kind' = kind
    BY <1>4 DEF Delete, Goto, Fail, End
  <2>3. QED
    BY <1>1, <1>4, <2>1, <2>2, DoomKept DEF Delete, Inv
<1>5. ASSUME NEW id \in Ids, Api(id) PROVE Kept
  BY <1>5, ApiKept DEF Inv
<1>6. CASE \/ UNCHANGED vars \/ Edit \/ Refresh \/ Plan \/ Read \/ Poll \/ DeleteReturns \/ Late
           \/ Expire \/ Calm \/ Crash \/ \E id \in Ids : Import(id)
  BY <1>1, <1>6 DEF vars, Edit, Refresh, Plan, Read, Poll, DeleteReturns, Late, Expire, Calm, Crash,
     Import, Goto, Fail, End
<1>7. QED
  BY <1>2, <1>3, <1>4, <1>5, <1>6 DEF Next, Step, Api

-----------------------------------------------------------------------------
(***************************************************************************)
(* Ending an operation and going on.                                       *)
(***************************************************************************)
\* TypeOK of the next state in terms of its records.
LEMMA TypesAreNext ==
  ASSUME kind' \in Kinds, cfg' \in Configs[kind'] \union {Absent},
         IsState(tf'), IsData(d'), DOMAIN items' = Ids, \A i \in Ids : IsItem(items'[i]),
         pc' \in {"idle", "plan"} \union Handler, late' \in BOOLEAN, expired' \in BOOLEAN,
         calm' \in BOOLEAN, lost' \subseteq Ids, unsure' \subseteq Ids
  PROVE  TypeOK'
  BY DEF TypeOK, IsState, IsItem, IsData

\* What refers to items has to refer to some that exist.
LEMMA TypedNext ==
  ASSUME Kept, TypeOK', tf'.id # None => IsAttrs(tf'.attrs, Keys) /\ ExistsNext(tf'.id),
         d'.id # None => ExistsNext(d'.id), d'.op \in {"create", "update"} => d'.new \in Configs[kind]
  PROVE  Typed'
  BY DEF Typed, Exists, ExistsNext, Kept

\* An operation ends in a state without the resource, or one that refers to
\* an item that exists.
LEMMA EndKeeps ==
  ASSUME Inv, Kept, NEW where \in {"idle", "plan"}, NEW state, IsState(state),
         state.id # None => IsAttrs(state.attrs, Keys) /\ ExistsNext(state.id),
         End(where, state), lost' \subseteq Ids, unsure' \subseteq Ids
  PROVE  Inv'
<1>1. /\ tf' = state /\ d' = NoData /\ pc' = where /\ late' = FALSE /\ expired' = FALSE
      /\ UNCHANGED <<kind, cfg, calm>>
  BY DEF End
<1>2. /\ kind \in Kinds /\ cfg \in Configs[kind] \union {Absent} /\ calm \in BOOLEAN
      /\ DOMAIN items' = Ids /\ \A i \in Ids : IsItem(items'[i])
  BY TypesAre DEF Inv, Typed, Kept
<1>3. TypeOK'
  BY <1>1, <1>2, NullRecords, TypesAreNext
<1>4. Typed'
  BY <1>1, <1>3, NullRecords, TypedNext
<1>5. Control'
  BY <1>1, NullRecords DEF Control, Handler
<1>6. QED
  BY <1>4, <1>5 DEF Inv

\* What Terraform saves after an error, case by case of the operation.
LEMMA ErrorStates ==
  /\ d.op = "create" /\ d.id = None => StateAfterError = NoState
  /\ d.op = "create" /\ d.id # None =>
       StateAfterError = [id |-> d.id, attrs |-> d.new, tainted |-> TRUE]
  /\ d.op = "update" => StateAfterError = [id |-> d.id, attrs |-> d.new, tainted |-> FALSE]
  /\ d.op = "delete" => StateAfterError = tf
<1>1. CASE d.op = "create" /\ d.id = None
  BY <1>1 DEF StateAfterError
<1>2. CASE d.op = "create" /\ d.id # None
  BY <1>2 DEF StateAfterError
<1>3. CASE d.op = "update"
  BY <1>3 DEF StateAfterError
<1>4. CASE d.op = "delete"
  BY <1>4 DEF StateAfterError
<1>5. QED
  BY <1>1, <1>2, <1>3, <1>4

\* It refers to an item that exists, the one the operation and the state knew.
LEMMA ErrorStateTyped ==
  ASSUME Inv, Kept, d.op # "none"
  PROVE  /\ IsState(StateAfterError)
         /\ StateAfterError.id # None =>
              IsAttrs(StateAfterError.attrs, Keys) /\ ExistsNext(StateAfterError.id)
         /\ tf.id # None => StateAfterError.id = tf.id
         /\ d.id # None => StateAfterError.id = d.id
<1>1. /\ d.op \in {"create", "update", "delete"} /\ d.id \in Ids \union {None}
      /\ d.op \in {"create", "update"} => IsAttrs(d.new, Keys)
      /\ d.id # None => ExistsNext(d.id)
      /\ IsState(tf) /\ (tf.id # None => IsAttrs(tf.attrs, Keys) /\ ExistsNext(tf.id))
  <2>1. kind \in Kinds /\ IsData(d) /\ IsState(tf)
    BY TypesAre DEF Inv, Typed
  <2>2. d.op \in {"create", "update"} => IsAttrs(d.new, Keys)
    BY <2>1, ConfigsAre DEF Inv, Typed
  <2>3. tf.id # None => IsAttrs(tf.attrs, Keys) /\ Exists(tf.id) /\ tf.id \in Ids
    BY <2>1 DEF Inv, Typed, IsState
  <2>4. d.id # None => Exists(d.id) /\ d.id \in Ids
    BY <2>1 DEF Inv, Typed, IsData
  <2>5. QED
    BY <2>1, <2>2, <2>3, <2>4 DEF IsData, Kept
<1>2. /\ d.op = "create" => tf.id = None
      /\ d.op \in {"update", "delete"} => tf.id = d.id
  BY DEF Inv, Control
<1>3. CASE d.op = "create" /\ d.id = None
  BY <1>2, <1>3, ErrorStates, NullRecords
<1>4. CASE d.op = "create" /\ d.id # None
  <2>1. StateAfterError = [id |-> d.id, attrs |-> d.new, tainted |-> TRUE]
    BY <1>4, ErrorStates
  <2>2. QED
    BY <1>1, <1>2, <1>4, <2>1 DEF IsState
<1>5. CASE d.op = "update"
  <2>1. StateAfterError = [id |-> d.id, attrs |-> d.new, tainted |-> FALSE]
    BY <1>5, ErrorStates
  <2>2. QED
    BY <1>1, <1>2, <1>5, <2>1 DEF IsState
<1>6. CASE d.op = "delete"
  BY <1>1, <1>2, <1>6, ErrorStates
<1>7. QED
  BY <1>1, <1>3, <1>4, <1>5, <1>6

\* An operation that fails keeps the invariant.
LEMMA FailKeeps ==
  ASSUME Inv, Kept, d.op # "none", Fail, lost' \subseteq Ids, unsure' \subseteq Ids
  PROVE  Inv'
<1>1. End("idle", StateAfterError)
  BY DEF Fail
<1>2. QED
  BY <1>1, ErrorStateTyped, EndKeeps

\* A step that keeps the state and the ResourceData, but for the id.
LEMMA TypedKept ==
  ASSUME Inv, Kept, UNCHANGED <<cfg, tf, calm>>, late' \in BOOLEAN, expired' \in BOOLEAN,
         lost' \subseteq Ids, unsure' \subseteq Ids,
         pc' \in {"idle", "plan"} \union Handler,
         \/ d' = d
         \/ \E id \in Ids : d' = [d EXCEPT !.id = id] /\ ExistsNext(id)
  PROVE  Typed'
<1>1. /\ kind \in Kinds /\ cfg \in Configs[kind] \union {Absent} /\ calm \in BOOLEAN
      /\ IsState(tf) /\ IsData(d)
      /\ DOMAIN items' = Ids /\ \A i \in Ids : IsItem(items'[i])
  BY TypesAre DEF Inv, Typed, Kept
<1>2. IsData(d') /\ (d'.id # None => ExistsNext(d'.id)) /\ d'.op = d.op /\ d'.new = d.new
  <2>1. CASE d' = d
    BY <1>1, <2>1 DEF Inv, Typed, Kept, IsData
  <2>2. ASSUME NEW id \in Ids, d' = [d EXCEPT !.id = id], ExistsNext(id)
        PROVE  IsData(d') /\ (d'.id # None => ExistsNext(d'.id)) /\ d'.op = d.op /\ d'.new = d.new
    BY <1>1, <2>2 DEF IsData
  <2>3. QED
    BY <2>1, <2>2
<1>3. TypeOK'
  BY <1>1, <1>2, TypesAreNext DEF Kept
<1>4. tf'.id # None => IsAttrs(tf'.attrs, Keys) /\ ExistsNext(tf'.id)
  BY <1>1 DEF Inv, Typed, Kept, IsState
<1>5. d'.op \in {"create", "update"} => d'.new \in Configs[kind]
  BY <1>2 DEF Inv, Typed
<1>6. QED
  BY <1>2, <1>3, <1>4, <1>5, TypedNext

-----------------------------------------------------------------------------
(***************************************************************************)
(* The invariant holds at the start, and every action keeps it.            *)
(***************************************************************************)
\* At the start there is nothing.
LEMMA InitInv == Init => Inv
<1> SUFFICES ASSUME Init PROVE Inv
  OBVIOUS
<1>1. TypeOK
  BY NullRecords, TypesAre DEF Init
<1>2. Typed
  BY <1>1, NullRecords DEF Init, Typed
<1>3. Control
  BY NullRecords DEF Init, Control, Handler
<1>4. QED
  BY <1>2, <1>3 DEF Inv

\* What a read leaves in the state: the item as it is shown, unless it was deleted.
LEMMA StateReadTyped ==
  ASSUME Inv, Kept, NEW id \in Ids, Exists(id), NEW kept, IsAttrs(kept, Keys), NEW tainted \in BOOLEAN
  PROVE  /\ IsState(StateRead(id, kept, tainted))
         /\ StateRead(id, kept, tainted).id # None =>
              /\ StateRead(id, kept, tainted).id = id /\ ExistsNext(id)
              /\ IsAttrs(StateRead(id, kept, tainted).attrs, Keys)
         /\ items[id].status = "active" => StateRead(id, kept, tainted).id = id
<1>1. kind \in AllKinds /\ items[id].status \in {"active", "deleted"} /\ ExistsNext(id)
  BY TypesAre, ConfigsAre DEF Inv, Typed, IsItem, Exists, Kept
<1>2. CASE items[id].status = "deleted"
  BY <1>2, NullRecords DEF StateRead
<1>3. CASE items[id].status = "active"
  <2> DEFINE v == View(items[id].attrs, kept)
  <2>1. IsAttrs(v, Keys)
    BY <1>1, <1>3, ViewTyped DEF Inv, Typed
  <2>2. StateRead(id, kept, tainted) = [id |-> id, attrs |-> v, tainted |-> tainted]
    BY <1>3 DEF StateRead
  <2> HIDE DEF v
  <2>3. QED
    BY <1>1, <2>1, <2>2 DEF IsState
<1>4. QED
  BY <1>1, <1>2, <1>3

\* Where nothing runs, a step that takes what was read into the state.
LEMMA ReadIntoState ==
  ASSUME Inv, Kept, d.op = "none", d.id = None, UNCHANGED <<cfg, d, late, expired, calm, unsure>>,
         IsState(tf'), tf'.id # None => IsAttrs(tf'.attrs, Keys) /\ ExistsNext(tf'.id),
         pc' \in {"idle", "plan"}, lost' \subseteq Ids
  PROVE  Inv'
<1>1. TypeOK'
  BY TypesAre, TypesAreNext DEF Inv, Typed, Kept
<1>2. Typed'
  BY <1>1, TypedNext
<1>3. Control'
  BY DEF Control, Handler
<1>4. QED
  BY <1>2, <1>3 DEF Inv

LEMMA RefreshKeeps == Inv /\ Kept /\ Refresh => Inv'
<1> SUFFICES ASSUME Inv, Kept, Refresh PROVE Inv'
  OBVIOUS
<1>1. /\ pc = "idle" /\ d.op = "none" /\ d.id = None
      /\ UNCHANGED <<cfg, d, late, expired, calm, unsure, lost>>
      /\ pc' \in {"idle", "plan"} /\ IsState(tf) /\ lost \subseteq Ids
      /\ tf.id # None => tf.id \in Ids /\ Exists(tf.id) /\ ExistsNext(tf.id)
           /\ IsAttrs(tf.attrs, Keys)
      /\ tf.tainted \in BOOLEAN
  BY TypesAre DEF Refresh, Inv, Typed, Control, IsState, Kept
<1>2. CASE tf' = tf
  BY <1>1, <1>2, ReadIntoState
<1>3. CASE tf.id # None /\ tf' = StateRead(tf.id, tf.attrs, tf.tainted)
  BY <1>1, <1>3, StateReadTyped, ReadIntoState
<1>4. QED
  BY <1>2, <1>3 DEF Refresh

LEMMA ImportKeeps == ASSUME Inv, Kept, NEW id \in Ids, Import(id) PROVE Inv'
<1>1. /\ pc = "idle" /\ d.op = "none" /\ d.id = None
      /\ UNCHANGED <<cfg, d, late, expired, calm, unsure>>
      /\ pc' = "idle" /\ lost' \subseteq Ids /\ Exists(id) /\ tf' = StateRead(id, <<>>, FALSE)
  BY TypesAre DEF Import, Inv, Typed, Control, Exists
<1>2. IsAttrs(<<>>, Keys)
  BY NoAttrs
<1>3. QED
  BY <1>1, <1>2, StateReadTyped, ReadIntoState

\* A plan starts an operation on the resource of the state, or a create.
LEMMA PlanKeeps == Inv /\ Kept /\ Plan => Inv'
<1> SUFFICES ASSUME Inv, Kept, Plan PROVE Inv'
  OBVIOUS
<1>1. /\ UNCHANGED <<cfg, tf, late, expired, calm, lost, unsure, items>>
      /\ d.op = "none" /\ d.id = None
      /\ kind \in Kinds /\ cfg \in Configs[kind] \union {Absent} /\ IsState(tf)
      /\ tf.id # None => tf.id \in Ids /\ Exists(tf.id) /\ ExistsNext(tf.id)
           /\ IsAttrs(tf.attrs, Keys)
  BY TypesAre DEF Plan, Inv, Typed, Control, IsState, Kept
<1>2. cfg # Absent => cfg \in Configs[kind] /\ IsAttrs(cfg, Keys)
  BY <1>1, ConfigsAre
<1>3. Absent # None /\ (tf.id # None /\ ~MustDelete => cfg # Absent)
  BY NullAssumption DEF MustDelete
<1>4. /\ IsData(d') /\ (d'.id # None => d'.id = tf.id)
      /\ d'.op \in {"create", "update"} => d'.new \in Configs[kind]
      /\ pc' \in {"idle", "plan"} \union Handler
  BY <1>1, <1>2, <1>3, NullRecords DEF Plan, IsData, IsState, Handler
<1>5. TypeOK'
  BY <1>1, <1>4, TypesAre, TypesAreNext DEF Inv, Typed, Kept
<1>6. Typed'
  BY <1>1, <1>4, <1>5, TypedNext
<1>7. \/ pc' = "create" /\ d'.op = "create" /\ d'.id = None /\ tf'.id = None
      \/ pc' \in {"delete", "update"} /\ d'.op = pc' /\ d'.id = tf'.id /\ tf'.id # None
      \/ pc' = "idle" /\ d'.op = "none" /\ d'.id = None
  BY <1>1, NullRecords DEF Plan, MustDelete
<1>8. Control'
  BY <1>7 DEF Control, Handler
<1>9. QED
  BY <1>6, <1>8 DEF Inv

LEMMA CreateKeeps == Inv /\ Kept /\ Create => Inv'
<1> SUFFICES ASSUME Inv, Kept, Create PROVE Inv'
  OBVIOUS
<1>1. /\ d.op = "create" /\ d.new \in Configs[kind] /\ tf.id = None /\ lost \subseteq Ids
      /\ unsure \subseteq Ids /\ pc = "create" /\ unsure' \subseteq Ids
      /\ late \in BOOLEAN /\ expired \in BOOLEAN /\ DOMAIN d = {"op", "id", "new"}
  BY TypesAre DEF Create, Inv, Typed, Control, IsData
<1>2. CASE Fail /\ lost' \subseteq Ids
  BY <1>1, <1>2, FailKeeps
<1>3. ASSUME NEW id \in FreshIds, Provision(id), CreateReads(id)
      PROVE  Inv'
  <2>1. id \in Ids /\ id # None /\ ExistsNext(id) /\ lost' \subseteq Ids
          /\ UNCHANGED <<kind, cfg, tf, late, expired, calm>>
    BY <1>1, <1>3, ProvisionKept, NoneIsNoId DEF FreshIds, CreateReads, Inv
  <2>2. pc' = "read" /\ d' = [d EXCEPT !.id = id]
    BY <1>3 DEF CreateReads
  <2>3. Typed'
    BY <1>1, <1>3, <2>1, <2>2, TypedKept DEF Handler
  <2>4. d'.op = "create" /\ d'.id = id
    BY <1>1, <2>2
  <2>5. Control'
    BY <1>1, <2>1, <2>2, <2>4 DEF Control, Handler
  <2>6. QED
    BY <2>3, <2>5 DEF Inv
<1>4. FreshIds \subseteq Ids
  BY DEF FreshIds
<1>5. QED
  BY <1>1, <1>2, <1>3, <1>4 DEF Create, CreateReads

\* The handler goes on to a place of the same operation.
LEMMA GoKeeps ==
  ASSUME Inv, Kept, pc \in Handler, NEW where, Goto(where), UNCHANGED d,
         \/ pc = "update" /\ where = "read"
         \/ pc \in {"delete", "poll"} /\ where = "poll" /\ Polled
         \/ pc \in {"delete", "poll"} /\ where = "gone" /\ items'[d.id].status = "deleted"
  PROVE  Inv'
<1>1. /\ UNCHANGED <<kind, cfg, tf, late, expired, calm, lost, unsure, d>> /\ pc' = where
      /\ late \in BOOLEAN /\ expired \in BOOLEAN /\ lost \subseteq Ids /\ unsure \subseteq Ids
  BY TypesAre DEF Goto, Inv, Typed
<1>2. Typed'
  BY <1>1, TypedKept DEF Handler
<1>3. Control'
  BY <1>1 DEF Inv, Control, Handler, Polled
<1>4. QED
  BY <1>2, <1>3 DEF Inv

LEMMA ReadKeeps == Inv /\ Kept /\ Read => Inv'
<1> SUFFICES ASSUME Inv, Kept, Read PROVE Inv'
  OBVIOUS
<1>1. /\ d.op \in {"create", "update"} /\ d.id \in Ids /\ Exists(d.id) /\ IsAttrs(d.new, Keys)
      /\ lost' \subseteq Ids /\ unsure' \subseteq Ids
  BY TypesAre, ConfigsAre DEF Read, Inv, Typed, Control, Handler, IsData
<1>2. CASE End("idle", StateRead(d.id, d.new, FALSE))
  BY <1>1, <1>2, StateReadTyped, EndKeeps
<1>3. QED
  BY <1>1, <1>2, FailKeeps DEF Read

LEMMA UpdateKeeps == Inv /\ Kept /\ Update => Inv'
<1> SUFFICES ASSUME Inv, Kept, Update PROVE Inv'
  OBVIOUS
<1>1. /\ pc = "update" /\ pc \in Handler /\ d.op = "update" /\ d.id \in Ids
      /\ lost' \subseteq Ids /\ unsure \subseteq Ids
  BY TypesAre DEF Update, Inv, Typed, Control, Handler, IsData
<1>2. CASE Goto("read") /\ UNCHANGED d
  BY <1>1, <1>2, GoKeeps
<1>3. CASE Fail /\ unsure' \subseteq Ids
  BY <1>1, <1>3, FailKeeps
<1>4. QED
  BY <1>1, <1>2, <1>3 DEF Update

LEMMA DeleteKeeps == Inv /\ Kept /\ Delete => Inv'
<1> SUFFICES ASSUME Inv, Kept, Delete PROVE Inv'
  OBVIOUS
<1>1. /\ pc = "delete" /\ pc \in Handler /\ d.op = "delete" /\ d.id \in Ids /\ DOMAIN items = Ids
      /\ lost' \subseteq Ids /\ unsure' \subseteq Ids
  BY TypesAre DEF Delete, Inv, Typed, Control, Handler, IsData
<1>2. CASE Fail
  BY <1>1, <1>2, FailKeeps
<1>3. CASE Polled /\ Goto("poll") /\ UNCHANGED d
  BY <1>1, <1>3, GoKeeps
<1>4. CASE ~Polled /\ Doom(d.id) /\ Goto("gone") /\ UNCHANGED d
  <2>1. items'[d.id].status = "deleted"
    BY <1>1, <1>4, NullRecords DEF Doom
  <2>2. QED
    BY <1>1, <1>4, <2>1, GoKeeps
<1>5. QED
  BY <1>2, <1>3, <1>4 DEF Delete

LEMMA PollKeeps == Inv /\ Kept /\ (Poll \/ DeleteReturns) => Inv'
<1> SUFFICES ASSUME Inv, Kept, Poll \/ DeleteReturns PROVE Inv'
  OBVIOUS
<1>1. /\ pc \in {"poll", "gone"} /\ pc \in Handler /\ d.op = "delete" /\ UNCHANGED items
      /\ lost' \subseteq Ids /\ unsure' \subseteq Ids
  BY TypesAre DEF Poll, DeleteReturns, Inv, Typed, Control, Handler
<1>2. CASE Fail
  BY <1>1, <1>2, FailKeeps
<1>3. CASE pc = "poll" /\ items[d.id].status = "deleted" /\ Goto("gone") /\ UNCHANGED d
  BY <1>1, <1>3, GoKeeps
<1>4. CASE End("plan", NoState)
  BY <1>1, <1>4, NullRecords, EndKeeps
<1>5. QED
  BY <1>2, <1>3, <1>4 DEF Poll, DeleteReturns

LEMMA CrashKeeps == Inv /\ Kept /\ Crash => Inv'
<1> SUFFICES ASSUME Inv, Kept, Crash PROVE Inv'
  OBVIOUS
<1>1. /\ End("idle", tf) /\ lost' \subseteq Ids /\ unsure' \subseteq Ids /\ IsState(tf)
      /\ tf.id # None => IsAttrs(tf.attrs, Keys) /\ ExistsNext(tf.id)
  <2>1. IsState(tf) /\ IsData(d) /\ lost \subseteq Ids /\ unsure \subseteq Ids
    BY TypesAre DEF Inv, Typed
  <2>2. d.op = "update" => d.id \in Ids
    BY <2>1 DEF Crash, Inv, Control, Handler, IsData
  <2>3. tf.id # None => tf.id \in Ids
    BY <2>1 DEF IsState
  <2>4. QED
    BY <2>1, <2>2, <2>3 DEF Crash, Inv, Typed, Kept, IsData
<1>2. QED
  BY <1>1, EndKeeps

\* A step that changes neither the place of the handler nor its data.
LEMMA ElsewhereKeeps ==
  ASSUME Inv, Kept, UNCHANGED <<tf, pc, d, lost, unsure>>,
         late' \in BOOLEAN, expired' \in BOOLEAN, calm' \in BOOLEAN,
          cfg' \in Configs[kind] \union {Absent}
  PROVE  Inv'
<1>1. TypeOK'
  BY TypesAre, TypesAreNext DEF Inv, Typed, Kept
<1>2. (tf.id # None => tf.id \in Ids) /\ (d.id # None => d.id \in Ids)
  BY TypesAre DEF Inv, Typed, IsState, IsData
<1>3. Typed'
  BY <1>1, <1>2, TypedNext DEF Inv, Typed, Kept
<1>4. Control'
  BY <1>2 DEF Inv, Control, Handler, Kept, Polled
<1>5. QED
  BY <1>3, <1>4 DEF Inv

LEMMA NextInv == Inv /\ [Next]_vars => Inv'
<1> SUFFICES ASSUME Inv, [Next]_vars PROVE Inv'
  OBVIOUS
<1>1. Kept
  BY NextKept
<1>2. /\ late \in BOOLEAN /\ expired \in BOOLEAN /\ calm \in BOOLEAN
      /\ cfg \in Configs[kind] \union {Absent}
  BY TypesAre DEF Inv, Typed
<1>3. CASE UNCHANGED vars \/ Edit \/ Late \/ Expire \/ Calm
  BY <1>1, <1>2, <1>3, ElsewhereKeeps DEF vars, Edit, Late, Expire, Calm
<1>4. ASSUME NEW id \in Ids, Api(id) PROVE Inv'
  BY <1>1, <1>2, <1>4, ApiOnly, ElsewhereKeeps
<1>5. CASE Step
  BY <1>1, <1>5, CreateKeeps, ReadKeeps, UpdateKeeps, DeleteKeeps, PollKeeps DEF Step
<1>6. QED
  BY <1>1, <1>3, <1>4, <1>5, RefreshKeeps, ImportKeeps, PlanKeeps, CrashKeeps DEF Next, Api

\* The inductive invariant.
THEOREM Invariance == Spec => []Inv
  BY InitInv, NextInv, PTL DEF Spec

\* Type correctness: the handler of each kind of resource sends, saves and stores attributes of the
\* right spelling, and no masked secret.
THEOREM TypeCorrect == Spec => []TypeOK
<1>1. Inv => TypeOK
  BY DEF Inv, Typed
<1>2. QED
  BY <1>1, Invariance, PTL

-----------------------------------------------------------------------------
(***************************************************************************)
(* No item is forgotten.                                                   *)
(***************************************************************************)
\* Only a create makes an item active.
LEMMA NoNewItems ==
  ASSUME Inv, [Next]_vars, ~Create, NEW i \in Ids, items'[i].status = "active"
  PROVE  items[i].status = "active"
<1>1. DOMAIN items = Ids /\ IsItem(items[i]) /\ DOMAIN items[i] = {"status", "doomed", "attrs"}
  BY TypesAre DEF Inv, Typed, IsItem
<1>2. CASE Update
  BY <1>1, <1>2 DEF Update, Put, AcceptsUpdate
<1>3. CASE Delete
  BY <1>1, <1>3, NullRecords DEF Delete, Doom
<1>4. ASSUME NEW id \in Ids, Api(id) PROVE items[i].status = "active"
  BY <1>1, <1>4, ApiOnly, NullRecords
<1>5. CASE UNCHANGED items
  BY <1>5
<1>6. QED
  BY <1>2, <1>3, <1>4, <1>5 DEF Next, Step, Api, vars, Edit, Refresh, Plan, Read, Poll,
     DeleteReturns, Late, Expire, Calm, Crash, Import

\* A step that makes none and hands on what it knew.
LEMMA KeepsKnown ==
  ASSUME Inv, NothingForgotten, [Next]_vars, ~Create,
         \A i \in Ids : items[i].status = "active" /\ items'[i].status = "active"
                          /\ i \in {tf.id, d.id} \union lost => i \in {tf'.id, d'.id} \union lost'
  PROVE  NothingForgotten'
  BY NoNewItems DEF NothingForgotten

\* A failed operation leaves the id in the state.
LEMMA FailKnows ==
  ASSUME Inv, Kept, d.op # "none", Fail
  PROVE  \A i \in Ids \intersect {tf.id, d.id} : i = tf'.id
<1>1. tf' = StateAfterError
  BY DEF Fail, End
<1>2. QED
  BY <1>1, ErrorStateTyped, NoneIsNoId

LEMMA CreateForgetsNone == Inv /\ Kept /\ NothingForgotten /\ Create => NothingForgotten'
<1> SUFFICES ASSUME Inv, Kept, NothingForgotten, Create PROVE NothingForgotten'
  OBVIOUS
<1>1. d.op = "create" /\ DOMAIN d = {"op", "id", "new"} /\ DOMAIN items = Ids
  BY TypesAre DEF Create, Inv, Control, Typed, IsData
<1>2. Fail => \A i \in Ids \intersect {tf.id, d.id} : i = tf'.id
  BY <1>1, FailKnows
<1>3. ASSUME NEW id \in FreshIds, Provision(id),
             \/ CreateReads(id)
             \/ Fail /\ lost' = lost \union {id}
      PROVE  NothingForgotten'
  <2>1. \A i \in Ids \ {id} : items'[i] = items[i]
    BY <1>1, <1>3 DEF Provision
  <2>2. CASE CreateReads(id)
    <3>1. d'.id = id /\ tf' = tf /\ lost' = lost \ {id} /\ d.id = None
      BY <1>1, <2>2 DEF CreateReads, Create, Inv, Control, Handler
    <3>2. QED
      BY <2>1, <3>1, NoneIsNoId DEF NothingForgotten
  <2>3. CASE Fail /\ lost' = lost \union {id}
    BY <1>2, <2>1, <2>3 DEF NothingForgotten
  <2>4. QED
    BY <1>3, <2>2, <2>3
<1>4. CASE Fail /\ UNCHANGED <<items, lost>>
  BY <1>2, <1>4 DEF NothingForgotten
<1>5. QED
  BY <1>3, <1>4 DEF Create, CreateReads

\* No item is forgotten: one that is not deleted is in the state, in the hands of the handler, or
\* was cut off before its id was saved.
THEOREM NeverForgotten == Spec => []NothingForgotten
<1>1. Init => NothingForgotten
  BY NullRecords DEF Init, NothingForgotten
<1>2. Inv /\ NothingForgotten /\ [Next]_vars => NothingForgotten'
  <2> SUFFICES ASSUME Inv, NothingForgotten, [Next]_vars, ~Create PROVE NothingForgotten'
    BY NextKept, CreateForgetsNone
  <2>1. Kept
    BY NextKept
  <2>2. CASE UNCHANGED <<tf, d, lost>>
    BY <2>2, KeepsKnown
  <2>3. CASE Fail /\ d.op # "none" /\ lost' = lost
    BY <2>1, <2>3, FailKnows, KeepsKnown
  <2>4. CASE Read
    <3>1. /\ d.op \in {"create", "update"} /\ d.id \in Ids /\ Exists(d.id) /\ IsAttrs(d.new, Keys)
          /\ tf.id \in {None, d.id} /\ lost' = lost /\ UNCHANGED items
      BY <2>4, TypesAre, ConfigsAre DEF Read, Inv, Typed, Control, Handler, IsData
    <3>2. CASE End("idle", StateRead(d.id, d.new, FALSE))
      <4>1. items[d.id].status = "active" => tf'.id = d.id
        BY <2>1, <3>1, <3>2, StateReadTyped DEF End
      <4>2. QED
        BY <3>1, <4>1, NoneIsNoId, KeepsKnown
    <3>3. QED
      BY <2>3, <2>4, <3>1, <3>2 DEF Read
  <2>5. CASE Update \/ Delete \/ Poll
    <3>1. d.op # "none" /\ lost' = lost
      BY <2>5 DEF Update, Delete, Poll, Inv, Control, Goto
    <3>2. QED
      BY <2>2, <2>3, <2>5, <3>1 DEF Update, Delete, Poll, Goto
  <2>6. CASE DeleteReturns
    <3>1. tf.id = d.id /\ items[d.id].status = "deleted" /\ lost' = lost
      BY <2>6 DEF DeleteReturns, Inv, Control
    <3>2. QED
      BY <3>1, KeepsKnown
  <2>7. CASE Crash
    <3>1. /\ tf' = tf /\ lost \subseteq lost'
          /\ d.op = "create" /\ d.id # None => d.id \in lost'
          /\ d.op # "create" => d.id = tf.id
      <4>1. d.op \in {"create", "update", "delete"}
        BY <2>7 DEF Crash, Inv, Control, Handler
      <4>2. QED
        BY <2>7, <4>1 DEF Crash, End, Inv, Control
    <3>2. QED
      BY <3>1, NoneIsNoId, KeepsKnown
  <2>8. CASE Refresh
    <3>1. /\ d' = d /\ lost' = lost /\ UNCHANGED items
          /\ tf.id # None => tf.id \in Ids /\ Exists(tf.id) /\ IsAttrs(tf.attrs, Keys)
          /\ tf.tainted \in BOOLEAN
          /\ tf' = tf \/ (tf' = StateRead(tf.id, tf.attrs, tf.tainted) /\ tf.id # None)
      <4>1. IsState(tf)
        BY TypesAre DEF Inv, Typed
      <4>2. tf' = tf \/ (tf' = StateRead(tf.id, tf.attrs, tf.tainted) /\ tf.id # None)
        BY <2>8 DEF Refresh
      <4>3. QED
        BY <2>8, <4>1, <4>2 DEF Refresh, Inv, Typed, IsState
    <3>2. tf.id # None /\ items[tf.id].status = "active" => tf'.id = tf.id
      BY <2>1, <3>1, StateReadTyped
    <3>3. QED
      BY <3>1, <3>2, NoneIsNoId, KeepsKnown
  <2>9. CASE Plan
    <3>1. tf' = tf /\ lost' = lost /\ d.id = None
      BY <2>9 DEF Plan, Inv, Control
    <3>2. QED
      BY <3>1, NoneIsNoId, KeepsKnown
  <2>10. ASSUME NEW id \in Ids, Import(id) PROVE NothingForgotten'
    <3>1. /\ d' = d /\ lost' = lost \ {id} /\ tf.id = None /\ Exists(id)
          /\ items[id].status = "active" /\ tf' = StateRead(id, <<>>, FALSE)
      BY <2>10 DEF Import, Exists
    <3>2. tf'.id = id
      BY <2>1, <3>1, NoAttrs, StateReadTyped
    <3>3. QED
      BY <3>1, <3>2, NoneIsNoId, KeepsKnown
  <2>11. ASSUME NEW id \in Ids, Api(id) PROVE NothingForgotten'
    BY <2>2, <2>11, ApiOnly
  <2>12. QED
    BY <2>2, <2>4, <2>5, <2>6, <2>7, <2>8, <2>9, <2>10, <2>11
       DEF Next, Step, Api, vars, Edit, Late, Expire, Calm
<1>3. QED
  BY <1>1, <1>2, Invariance, PTL DEF Spec

-----------------------------------------------------------------------------
(***************************************************************************)
(* What was written is read back.  The invariant: when a plan is made, the *)
(* state is what was read last, and no request has changed the item since. *)
(***************************************************************************)
Seen(what, f) ==
  Without(IF what \in {"integration", "cloudwatch"} THEN ToTf(Shown(f)) ELSE f,
    Secrets \union {"token"})

Fresh ==
  pc = "plan" /\ tf.id # None /\ items[tf.id].status = "active"
    => Without(tf.attrs, Secrets \union {"token"}) = Seen(kind, items[tf.id].attrs)

LEMMA ViewSeen ==
  ASSUME kind \in AllKinds, NEW f, NEW kept
  PROVE  Without(View(f, kept), Secrets \union {"token"}) = Seen(kind, f)
<1>1. CASE kind = "integration"
  BY <1>1, Views DEF Seen
<1>2. CASE kind = "cloudwatch"
  <2> DEFINE r == ToTf(Shown(f))
  <2>1. View(f, kept) = Over(Only(kept, Secrets), r)
    BY <1>2, Views
  <2>2. Seen(kind, f) = Without(r, Secrets \union {"token"})
    BY <1>2 DEF Seen
  <2> HIDE DEF r
  <2>3. Without(Over(Only(kept, Secrets), r), Secrets \union {"token"})
          = Without(r, Secrets \union {"token"})
    BY DEF Without, Over, Only
  <2>4. QED
    BY <2>1, <2>2, <2>3
<1>3. CASE kind \notin {"integration", "cloudwatch"}
  BY <1>3, Views DEF Seen
<1>4. QED
  BY <1>1, <1>2, <1>3

LEMMA RefreshFresh == Inv /\ Refresh => Fresh'
<1> SUFFICES ASSUME Inv, Refresh, pc' = "plan", tf'.id # None, items'[tf'.id].status = "active"
             PROVE  Without(tf'.attrs, Secrets \union {"token"}) = Seen(kind, items'[tf'.id].attrs)
  BY DEF Refresh, Fresh
<1>1. /\ pc = "idle" /\ UNCHANGED items /\ kind \in AllKinds
      /\ tf' = IF tf.id = None THEN tf ELSE StateRead(tf.id, tf.attrs, tf.tainted)
  BY TypesAre, ConfigsAre DEF Refresh, Inv, Typed
<1>2. tf.id # None /\ tf' = StateRead(tf.id, tf.attrs, tf.tainted)
  BY <1>1
<1>3. tf' = [id |-> tf.id, attrs |-> View(items[tf.id].attrs, tf.attrs), tainted |-> tf.tainted]
  BY <1>2, NullRecords DEF StateRead
<1>4. QED
  BY <1>1, <1>3, ViewSeen

LEMMA ApiFresh == ASSUME Inv, Fresh, NEW id \in Ids, Api(id) PROVE Fresh'
<1>1. /\ UNCHANGED <<kind, pc, tf>> /\ DOMAIN items = Ids
      /\ \/ items' = [items EXCEPT ![id] = Gone]
         \/ items' = [items EXCEPT ![id] = [items[id] EXCEPT !.doomed = FALSE]]
      /\ tf.id # None => tf.id \in Ids
      /\ items[id].status = "active" /\ DOMAIN items[id] = {"status", "doomed", "attrs"}
  BY ApiOnly, TypesAre DEF Inv, Typed, IsState, IsItem
<1>2. tf.id # None /\ items'[tf.id].status = "active" =>
        items[tf.id].status = "active" /\ items'[tf.id].attrs = items[tf.id].attrs
  BY <1>1, NullRecords
<1>3. QED
  BY <1>1, <1>2 DEF Fresh

\* An item that is as the user wants it is read back as the user wrote it, but for the secrets; a
\* list whose blocks lack a comment is not written so (Canonical).
THEOREM ReadAsWritten == Spec => []ReadsBack
<1>1. Init => Fresh
  BY DEF Init, Fresh
<1>2. Inv /\ Fresh /\ [Next]_vars => Fresh'
  <2> SUFFICES ASSUME Inv, Fresh, [Next]_vars PROVE Fresh'
    OBVIOUS
  <2>1. CASE UNCHANGED <<kind, pc, tf, items>>
    BY <2>1 DEF Fresh
  <2>2. CASE pc' # "plan" \/ tf'.id = None
    BY <2>2 DEF Fresh
  <2>3. CASE Plan
    BY <2>2, <2>3 DEF Plan
  <2>4. CASE Step
    <3>1. pc' # "plan" \/ tf'.id = None
      BY <2>4, NullRecords DEF Step, Create, Read, Update, Delete, Poll, DeleteReturns, Goto, Fail,
         End
    <3>2. QED
      BY <2>2, <3>1
  <2>5. CASE Crash
    BY <2>2, <2>5 DEF Crash, End
  <2>6. ASSUME NEW id \in Ids, Import(id) PROVE Fresh'
    BY <2>2, <2>6 DEF Import
  <2>7. QED
    BY <2>1, <2>3, <2>4, <2>5, <2>6, RefreshFresh, ApiFresh DEF Next, Api, vars, Edit, Late, Expire,
       Calm
<1>3. Inv /\ Fresh => ReadsBack
  <2> SUFFICES ASSUME Inv, Fresh, pc = "plan", AsWanted
               PROVE  Without(tf.attrs, Secrets \union {"token"})
                        = Without(cfg, Secrets \union {"token"})
    BY DEF ReadsBack
  <2>1. kind \in AllKinds /\ IsAttrs(cfg, Keys) /\ Canonical(cfg)
    BY TypesAre, ConfigsAre DEF Inv, Typed, AsWanted
  <2>2. Without(tf.attrs, Secrets \union {"token"}) = Seen(kind, Request(cfg))
    BY DEF Fresh, AsWanted
  <2>3. Seen(kind, Request(cfg)) = Without(cfg, Secrets \union {"token"})
    BY <2>1, ViewSeen, WrittenIsRead
  <2>4. QED
    BY <2>2, <2>3
<1>4. QED
  BY <1>1, <1>2, <1>3, Invariance, PTL DEF Spec

-----------------------------------------------------------------------------
(***************************************************************************)
(* The keys of CloudWatch.  The invariant: the keys that the state has, or *)
(* that an update has sent, are those that the API stores, unless an       *)
(* update was cut short.                                                   *)
(***************************************************************************)
Holds(attrs, stored) ==
  \A k \in DOMAIN attrs \intersect Secrets : attrs[k] # Empty =>
    Spellings[k] \in DOMAIN stored /\ stored[Spellings[k]] = attrs[k]

SecretInv ==
  kind = "cloudwatch" =>
    /\ pc # "read" /\ tf.id # None /\ tf.id \notin unsure /\ items[tf.id].status = "active"
         => Holds(tf.attrs, items[tf.id].attrs)
    /\ pc = "read" /\ d.id \notin unsure /\ items[d.id].status = "active"
         => Holds(d.new, items[d.id].attrs)

\* The keys in the API's spelling.
LEMMA SecretKeys ==
  \A k \in Secrets : k \in TfSpelled /\ k # "group_name" /\ Spellings[k] \in Hidden
    /\ Spellings[k] # "name"
  BY DEF Secrets, TfSpelled, Spellings, Hidden

\* A create sends all of them.
LEMMA RequestHolds == ASSUME kind = "cloudwatch", NEW c PROVE Holds(c, Request(c))
<1> DEFINE f == ToApi(c)
<1>1. /\ DOMAIN f = (DOMAIN c \ TfSpelled) \union NewNames(c, Spellings)
      /\ \A k \in TfSpelled \intersect DOMAIN c : f[Spellings[k]] = c[k]
  BY NamesOneToOne, RenamedParts, SpelledKeys DEF ToApi
<1>2. Request(c) = f
  BY DEF Request
<1> HIDE DEF f
<1>3. \A k \in TfSpelled \intersect DOMAIN c : Spellings[k] \in DOMAIN f
  BY <1>1, SpelledKeys DEF NewNames
<1>4. QED
  BY <1>1, <1>2, <1>3, SecretKeys DEF Holds

\* A read sees none of them and keeps those of the state.
LEMMA ViewHolds ==
  ASSUME kind = "cloudwatch", NEW f, DOMAIN f \subseteq ApiKeys, NEW kept, Holds(kept, f)
  PROVE  Holds(View(f, kept), f)
<1> DEFINE r == ToTf(Shown(f))
<1>1. DOMAIN r = (DOMAIN f \intersect Plain) \union NewNames(f, Back)
  BY ReadBack
<1>2. View(f, kept) = Over(Only(kept, Secrets), r)
  BY Views
<1> HIDE DEF r
<1>3. DOMAIN r \intersect Secrets = {}
  BY <1>1, SpelledKeys DEF NewNames, ImageOf, Plain, Secrets
<1>4. \A k \in DOMAIN View(f, kept) \intersect Secrets :
        k \in DOMAIN kept \intersect Secrets /\ View(f, kept)[k] = kept[k]
  BY <1>2, <1>3 DEF Over, Only
<1>5. QED
  BY <1>4 DEF Holds

\* An update sends those that differ from the state's, and the API keeps the others.
LEMMA SentHolds ==
  ASSUME kind = "cloudwatch", NEW old, NEW new, NEW stored, Holds(old, stored)
  PROVE  Holds(new, Over(Sent(old, new), stored))
<1> DEFINE keys == NonEmpty(Changed(Only(old, Secrets), Only(new, Secrets)))
           data == Over(Only(new, {"group_name"}), keys)
           f == ToApi(data)
           names == NonEmpty(Only(new, {"name"}))
           body == Over(names, f)
<1>1. /\ DOMAIN keys = {k \in DOMAIN new \intersect Secrets :
                          (k \notin DOMAIN old \/ old[k] # new[k]) /\ new[k] # Empty}
      /\ \A k \in DOMAIN keys : keys[k] = new[k]
  BY DEF NonEmpty, Changed, Only
<1>2. DOMAIN names \subseteq {"name"}
  BY DEF NonEmpty, Only
<1> HIDE DEF keys, names
<1>3. /\ \A k \in Secrets : k \in DOMAIN data <=> k \in DOMAIN keys
      /\ \A k \in DOMAIN keys : data[k] = keys[k]
  BY <1>1, SecretKeys DEF Over, Only
<1>4. DOMAIN data \subseteq TfSpelled
  BY <1>1, SecretKeys DEF Over, Only, TfSpelled
<1> HIDE DEF data
<1>5. /\ DOMAIN f = (DOMAIN data \ TfSpelled) \union NewNames(data, Spellings)
      /\ \A k \in TfSpelled \intersect DOMAIN data : f[Spellings[k]] = data[k]
  BY NamesOneToOne, RenamedParts, SpelledKeys DEF ToApi
<1> HIDE DEF f
<1>6. \A k \in Secrets : Spellings[k] \in DOMAIN f <=> k \in DOMAIN data
  BY <1>4, <1>5, NamesOneToOne, SpelledKeys, SecretKeys DEF NewNames, OneToOne
<1>7. Sent(old, new) = body
  BY Bodies DEF CloudWatchBody, names, f, data, keys
<1>8. \A k \in Secrets :
        /\ Spellings[k] \in DOMAIN body <=> k \in DOMAIN keys
        /\ k \in DOMAIN keys => body[Spellings[k]] = new[k]
  BY <1>1, <1>2, <1>3, <1>4, <1>5, <1>6, SecretKeys DEF Over
<1> HIDE DEF body
<1> SUFFICES ASSUME NEW k \in DOMAIN new \intersect Secrets, new[k] # Empty
             PROVE  /\ Spellings[k] \in DOMAIN Over(body, stored)
                    /\ Over(body, stored)[Spellings[k]] = new[k]
  BY <1>7 DEF Holds
<1>9. CASE k \in DOMAIN keys
  BY <1>8, <1>9 DEF Over
<1>10. CASE k \notin DOMAIN keys
  <2>1. k \in DOMAIN old /\ old[k] = new[k]
    BY <1>1, <1>10
  <2>2. Spellings[k] \in DOMAIN stored /\ stored[Spellings[k]] = new[k]
    BY <2>1 DEF Holds
  <2>3. QED
    BY <1>8, <1>10, <2>2 DEF Over
<1>11. QED
  BY <1>9, <1>10

\* Where the state holds what the API stores, an operation that ends there keeps the invariant.
LEMMA EndSecrets ==
  ASSUME NEW where \in {"idle", "plan"}, NEW state, End(where, state),
         kind = "cloudwatch" /\ state.id # None /\ state.id \notin unsure'
           /\ items'[state.id].status = "active"
           => Holds(state.attrs, items'[state.id].attrs)
  PROVE  SecretInv'
  BY DEF End, SecretInv

LEMMA CreateSecrets == Inv /\ Create => SecretInv'
<1> SUFFICES ASSUME Inv, Create, kind = "cloudwatch" PROVE SecretInv'
  BY DEF Create, Fail, End, Goto, SecretInv
<1>1. d.op = "create" /\ d.id = None /\ DOMAIN d = {"op", "id", "new"} /\ DOMAIN items = Ids
  BY TypesAre DEF Create, Inv, Control, Typed, Handler, IsData
<1>2. CASE Fail
  BY <1>1, <1>2, ErrorStates, NullRecords, EndSecrets DEF Fail
<1>3. ASSUME NEW id \in FreshIds, Provision(id), CreateReads(id)
      PROVE  SecretInv'
  <2>1. id \in Ids /\ d'.id = id /\ d'.new = d.new /\ pc' = "read" /\ UNCHANGED <<kind, tf>>
    BY <1>1, <1>3 DEF CreateReads, FreshIds
  <2>2. items'[id].attrs = Request(d.new)
    BY <1>1, <1>3, <2>1 DEF Provision
  <2>3. QED
    BY <2>1, <2>2, RequestHolds DEF SecretInv
<1>4. QED
  BY <1>2, <1>3 DEF Create, CreateReads

LEMMA ReadSecrets == Inv /\ SecretInv /\ Read => SecretInv'
<1> SUFFICES ASSUME Inv, SecretInv, Read, kind = "cloudwatch" PROVE SecretInv'
  BY DEF Read, Fail, End, SecretInv
<1>1. /\ d.op \in {"create", "update"} /\ d.id \in Ids /\ d.id # None /\ UNCHANGED <<items, unsure>>
      /\ pc = "read"
  BY TypesAre, NoneIsNoId DEF Read, Inv, Control, Typed, Handler, IsData
<1>2. items[d.id].status = "active" /\ d.id \notin unsure => Holds(d.new, items[d.id].attrs)
  BY <1>1 DEF SecretInv
<1>3. CASE Fail
  <2>1. StateAfterError.id = d.id /\ StateAfterError.attrs = d.new
    BY <1>1, ErrorStates
  <2>2. QED
    BY <1>1, <1>2, <1>3, <2>1, EndSecrets DEF Fail
<1>4. CASE End("idle", StateRead(d.id, d.new, FALSE))
  <2>1. CASE items[d.id].status = "active"
    <3>1. StateRead(d.id, d.new, FALSE)
            = [id |-> d.id, attrs |-> View(items[d.id].attrs, d.new), tainted |-> FALSE]
      BY <2>1 DEF StateRead
    <3>2. DOMAIN items[d.id].attrs \subseteq ApiKeys
      BY <1>1, <2>1 DEF Inv, Typed, IsAttrs
    <3>3. d.id \notin unsure => Holds(View(items[d.id].attrs, d.new), items[d.id].attrs)
      BY <1>2, <2>1, <3>2, ViewHolds
    <3>4. QED
      BY <1>1, <1>4, <3>1, <3>3, EndSecrets
  <2>2. CASE items[d.id].status # "active"
    <3>1. items[d.id].status = "deleted"
      BY <1>1, <2>2, TypesAre DEF Inv, Typed, Exists, IsItem
    <3>2. StateRead(d.id, d.new, FALSE) = NoState
      BY <3>1 DEF StateRead
    <3>3. QED
      BY <1>4, <3>2, NullRecords, EndSecrets
  <2>3. QED
    BY <2>1, <2>2
<1>5. QED
  BY <1>3, <1>4 DEF Read

LEMMA UpdateSecrets == Inv /\ SecretInv /\ Update => SecretInv'
<1> SUFFICES ASSUME Inv, SecretInv, Update, kind = "cloudwatch" PROVE SecretInv'
  BY DEF Update, Fail, End, Goto, SecretInv
<1>1. /\ d.op = "update" /\ d.id \in Ids /\ d.id # None /\ tf.id = d.id /\ pc = "update"
      /\ DOMAIN items = Ids /\ DOMAIN items[d.id] = {"status", "doomed", "attrs"}
  BY TypesAre, NoneIsNoId DEF Update, Inv, Control, Typed, Handler, IsData, IsItem
<1>2. StateAfterError.id = d.id /\ StateAfterError.attrs = d.new
  BY <1>1, ErrorStates
<1>3. CASE Fail /\ unsure' = unsure \union {d.id}
  BY <1>2, <1>3, EndSecrets DEF Fail
<1>4. ASSUME AcceptsUpdate(d.id), Put(d.id), d.id \notin unsure
      PROVE  Holds(d.new, items'[d.id].attrs)
  <2>1. Holds(tf.attrs, items[d.id].attrs)
    BY <1>1, <1>4 DEF SecretInv, AcceptsUpdate
  <2>2. items'[d.id].attrs = Over(Sent(tf.attrs, d.new), items[d.id].attrs)
    BY <1>1, <1>4 DEF Put
  <2>3. QED
    BY <2>1, <2>2, SentHolds
<1>5. CASE AcceptsUpdate(d.id) /\ Put(d.id) /\ Fail /\ UNCHANGED unsure
  BY <1>2, <1>4, <1>5, EndSecrets DEF Fail
<1>6. CASE AcceptsUpdate(d.id) /\ Put(d.id) /\ Goto("read") /\ UNCHANGED d
  BY <1>4, <1>6 DEF SecretInv, Goto
<1>7. QED
  BY <1>3, <1>5, <1>6 DEF Update

\* A step that changes no item's attributes, nor what is known of them.
LEMMA ElsewhereSecrets ==
  ASSUME Inv, SecretInv, UNCHANGED <<kind, tf, d>>, unsure' = unsure, pc = "read" <=> pc' = "read",
         \A i \in Ids : items'[i].status = "active" =>
           items[i].status = "active" /\ items'[i].attrs = items[i].attrs
  PROVE  SecretInv'
<1>1. (tf.id # None => tf.id \in Ids) /\ (pc = "read" => d.id \in Ids)
  BY TypesAre DEF Inv, Control, Typed, Handler, IsState, IsData
<1>2. QED
  BY <1>1 DEF SecretInv

\* A request to delete leaves the attributes, and so do the steps of the API.
LEMMA DoomSame ==
  ASSUME Inv, NEW id \in Ids, (items[id].status = "active" /\ Doom(id)) \/ Api(id)
  PROVE  \A i \in Ids : items'[i].status = "active" =>
           items[i].status = "active" /\ items'[i].attrs = items[i].attrs
<1>1. DOMAIN items = Ids /\ DOMAIN items[id] = {"status", "doomed", "attrs"}
        /\ items[id].status = "active"
  BY ApiOnly, TypesAre DEF Inv, Typed, IsItem
<1>2. CASE Doom(id)
  BY <1>1, <1>2, NullRecords DEF Doom
<1>3. CASE Api(id)
  BY <1>1, <1>3, ApiOnly, NullRecords
<1>4. QED
  BY <1>2, <1>3

LEMMA DeleteSecrets == Inv /\ SecretInv /\ (Delete \/ Poll \/ DeleteReturns) => SecretInv'
<1> SUFFICES ASSUME Inv, SecretInv, Delete \/ Poll \/ DeleteReturns PROVE SecretInv'
  OBVIOUS
<1>1. /\ d.op = "delete" /\ pc # "read" /\ unsure' = unsure /\ d.id \in Ids
      /\ tf.id # None => tf.id \in Ids
  BY TypesAre DEF Delete, Poll, DeleteReturns, Inv, Control, Typed, Handler, IsData, IsState
<1>2. \A i \in Ids : items'[i].status = "active" =>
        items[i].status = "active" /\ items'[i].attrs = items[i].attrs
  BY <1>1, DoomSame DEF Delete, Poll, DeleteReturns
<1>3. CASE Fail
  <2>1. StateAfterError = tf
    BY <1>1, ErrorStates
  <2>2. End("idle", tf)
    BY <1>3, <2>1 DEF Fail
  <2>3. QED
    BY <1>1, <1>2, <2>2, EndSecrets DEF SecretInv
<1>4. CASE UNCHANGED d /\ (Goto("poll") \/ Goto("gone"))
  <2>1. UNCHANGED <<kind, tf>> /\ pc' # "read"
    BY <1>4 DEF Goto
  <2>2. QED
    BY <1>1, <1>2, <1>4, <2>1, ElsewhereSecrets
<1>5. CASE End("plan", NoState)
  BY <1>5, NullRecords, EndSecrets
<1>6. QED
  BY <1>3, <1>4, <1>5 DEF Delete, Poll, DeleteReturns

LEMMA CrashSecrets == Inv /\ SecretInv /\ Crash => SecretInv'
<1> SUFFICES ASSUME Inv, SecretInv, Crash PROVE SecretInv'
  OBVIOUS
<1>1. End("idle", tf) /\ UNCHANGED items /\ unsure \subseteq unsure' /\ kind' = kind
  BY DEF Crash, End
<1>2. CASE pc = "read"
  <2>1. d.op \in {"create", "update"} /\ (d.op = "create" => tf.id = None)
        /\ (d.op = "update" => tf.id \in unsure')
    BY <1>2 DEF Crash, Inv, Control
  <2>2. QED
    BY <1>1, <2>1, EndSecrets
<1>3. CASE pc # "read"
  BY <1>1, <1>3, EndSecrets DEF SecretInv
<1>4. QED
  BY <1>2, <1>3

\* A refresh keeps the secrets of the state, an import finds none.
LEMMA RefreshSecrets ==
  ASSUME Inv, SecretInv, Refresh \/ \E id \in Ids : Import(id)
  PROVE  SecretInv'
<1>1. /\ UNCHANGED <<kind, items, unsure>> /\ pc = "idle" /\ pc' \in {"idle", "plan"} /\ IsState(tf)
      /\ tf.id # None => tf.id \in Ids /\ Exists(tf.id)
  BY TypesAre DEF Refresh, Import, Inv, Typed, IsState
<1>2. CASE tf' = tf
  BY <1>1, <1>2 DEF SecretInv
<1>3. ASSUME NEW id \in Ids, Exists(id), NEW kept, NEW tainted,
             kind = "cloudwatch" /\ id \notin unsure /\ items[id].status = "active"
               => Holds(kept, items[id].attrs),
             tf' = StateRead(id, kept, tainted)
      PROVE  SecretInv'
  <2>1. CASE items[id].status = "active"
    <3>1. tf'.id = id /\ tf'.attrs = View(items[id].attrs, kept)
      BY <1>3, <2>1 DEF StateRead
    <3>2. DOMAIN items[id].attrs \subseteq ApiKeys
      BY <2>1 DEF Inv, Typed, IsAttrs
    <3>3. kind = "cloudwatch" /\ id \notin unsure => Holds(tf'.attrs, items[id].attrs)
      BY <1>3, <2>1, <3>1, <3>2, ViewHolds
    <3>4. QED
      BY <1>1, <3>1, <3>3 DEF SecretInv
  <2>2. CASE items[id].status # "active"
    <3>1. tf'.id = None
      BY <1>3, <2>2, TypesAre, NullRecords DEF Inv, Typed, Exists, IsItem, StateRead
    <3>2. QED
      BY <1>1, <3>1 DEF SecretInv
  <2>3. QED
    BY <2>1, <2>2
<1>4. CASE tf.id # None /\ tf' = StateRead(tf.id, tf.attrs, tf.tainted)
  BY <1>1, <1>3, <1>4 DEF SecretInv
<1>5. ASSUME NEW id \in Ids, Import(id) PROVE SecretInv'
  <2>1. \A stored : Holds(<<>>, stored)
    BY DEF Holds
  <2>2. QED
    BY <1>3, <1>5, <2>1 DEF Import, Exists
<1>6. QED
  BY <1>2, <1>4, <1>5 DEF Refresh

\* The keys of CloudWatch that the state has are those in force, unless an update was cut short.
THEOREM SecretsAreInForce == Spec => []SecretInForce
<1>1. Init => SecretInv
  BY NullRecords DEF Init, SecretInv
<1>2. Inv /\ SecretInv /\ [Next]_vars => SecretInv'
  <2> SUFFICES ASSUME Inv, SecretInv, [Next]_vars PROVE SecretInv'
    OBVIOUS
  <2>1. CASE UNCHANGED vars \/ Edit \/ Late \/ Expire \/ Calm
    BY <2>1, ElsewhereSecrets DEF vars, Edit, Late, Expire, Calm
  <2>2. CASE Plan
    <3>1. UNCHANGED <<kind, tf, items, unsure>> /\ pc = "plan" /\ pc' # "read"
      BY <2>2 DEF Plan
    <3>2. QED
      BY <3>1 DEF SecretInv
  <2>3. ASSUME NEW id \in Ids, Api(id) PROVE SecretInv'
    BY <2>3, ApiOnly, DoomSame, ElsewhereSecrets
  <2>4. QED
    BY <2>1, <2>2, <2>3, CreateSecrets, ReadSecrets, UpdateSecrets, DeleteSecrets, CrashSecrets,
       RefreshSecrets DEF Next, Step, Api
<1>3. SecretInv => SecretInForce
  BY DEF SecretInv, SecretInForce, Holds, NonEmpty, Only
<1>4. QED
  BY <1>1, <1>2, <1>3, Invariance, PTL DEF Spec

-----------------------------------------------------------------------------
(***************************************************************************)
(* The loop of Delete implements Polling.                                  *)
(***************************************************************************)
PollStep == [Loops!Next]_<<LoopPhase, LoopGoal>>

\* Outside the loop nothing changes for it.
LEMMA PhaseKept ==
  ASSUME kind' = kind, pc = "poll" <=> pc' = "poll", pc = "gone" <=> pc' = "gone"
  PROVE  PollStep
  BY DEF PollStep, LoopPhase, LoopGoal, Polled

\* The end of a handler leaves a loop that succeeded, or gives one up with a reason.
LEMMA EndPolls ==
  ASSUME Inv, kind' = kind, pc' \notin {"poll", "gone"}, pc = "poll" => late \/ expired \/ ~calm
  PROVE  PollStep
<1>1. LoopPhase' = "idle" /\ LoopGoal' = "none"
  BY DEF LoopPhase, LoopGoal, Polled
<1>2. CASE pc = "poll"
  <2>1. LoopPhase = "waiting"
    BY <1>2 DEF LoopPhase
  <2>2. QED
    BY <1>1, <1>2, <2>1 DEF PollStep, Loops!Next, Loops!GiveUp
<1>3. CASE pc # "poll"
  <2>1. LoopPhase \in {"idle", "reached"}
    BY <1>3 DEF LoopPhase
  <2>2. QED
    BY <1>1, <2>1 DEF PollStep, Loops!Next, Loops!Leave, LoopGoal
<1>4. QED
  BY <1>2, <1>3

\* A delete of a resource that is polled begins a loop, of another one it is over.
LEMMA DeletePolls == Inv /\ Delete => PollStep
<1> SUFFICES ASSUME Inv, Delete PROVE PollStep
  OBVIOUS
<1>1. CASE Fail
  BY <1>1, EndPolls DEF Delete, Fail, End
<1>2. CASE Polled /\ Goto("poll")
  <2>1. LoopPhase = "idle" /\ LoopPhase' = "waiting" /\ LoopGoal' # "none"
    BY <1>2 DEF Delete, Goto, LoopPhase, LoopGoal
  <2>2. QED
    BY <2>1 DEF PollStep, Loops!Next, Loops!Begin
<1>3. CASE ~Polled /\ Goto("gone")
  <2>1. LoopPhase = "idle" /\ LoopPhase' = "idle" /\ LoopGoal = "none" /\ LoopGoal' = "none"
    BY <1>3 DEF Delete, Goto, LoopPhase, LoopGoal, Polled
  <2>2. QED
    BY <2>1 DEF PollStep
<1>4. QED
  BY <1>1, <1>2, <1>3 DEF Delete

\* A round of the loop sees the deletion, or gives up with a reason.
LEMMA RoundPolls == Inv /\ Poll => PollStep
<1> SUFFICES ASSUME Inv, Poll PROVE PollStep
  OBVIOUS
<1>1. pc = "poll" /\ Polled /\ d.id # None /\ LoopPhase = "waiting" /\ LoopGoal = "deleted"
  BY DEF Poll, Inv, Control, Handler, LoopPhase, LoopGoal
<1>2. CASE items[d.id].status = "deleted" /\ Goto("gone")
  <2>1. LoopPhase' = "reached" /\ LoopGoal' = "deleted"
    BY <1>1, <1>2 DEF Goto, LoopPhase, LoopGoal, Polled
  <2>2. QED
    BY <1>1, <1>2, <2>1 DEF PollStep, Loops!Next, Loops!Reach
<1>3. CASE (MayFail \/ late) /\ Fail
  BY <1>3, EndPolls DEF MayFail, Fail, End
<1>4. QED
  BY <1>2, <1>3 DEF Poll

\* The loop succeeds only when the deletion is shown, and is given up only on an error or after
\* its 30 seconds.
THEOREM LoopsArePolls == Spec => Polls
<1>1. Init => Loops!Init
  BY DEF Init, Loops!Init, LoopPhase, LoopGoal
<1>2. Inv /\ [Next]_vars => [Loops!Next]_<<LoopPhase, LoopGoal>>
  <2> SUFFICES ASSUME Inv, [Next]_vars PROVE PollStep
    BY DEF PollStep
  <2>1. CASE UNCHANGED vars \/ Edit \/ Refresh \/ Plan \/ Late \/ Expire \/ Calm
               \/ \E id \in Ids : Import(id)
    BY <2>1, PhaseKept DEF vars, Edit, Refresh, Plan, Late, Expire, Calm, Import
  <2>2. CASE Create \/ Update
    BY <2>2, PhaseKept DEF Create, Update, Goto, Fail, End
  <2>3. CASE Read \/ DeleteReturns
    BY <2>3, EndPolls DEF Read, DeleteReturns, Fail, End
  <2>4. CASE Crash
    BY <2>4, EndPolls DEF Crash, End
  <2>5. ASSUME NEW id \in Ids, Api(id) PROVE PollStep
    BY <2>5, ApiOnly, PhaseKept
  <2>6. QED
    BY <2>1, <2>2, <2>3, <2>4, <2>5, DeletePolls, RoundPolls DEF Next, Step, Api
<1>3. QED
  BY <1>1, <1>2, Invariance, PTL DEF Spec, Polls, Loops!Spec
=============================================================================
