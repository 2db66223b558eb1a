------------------------ MODULE AdminResources_proofs ------------------------
(* Proofs about AdminResources, for any number of clients, resources and    *)
(* attempts, and for every request that the operations can build.           *)
EXTENDS AdminResources, TLAPS

-----------------------------------------------------------------------------
(* The options that callers pass. *)

OptionValues(c) == {c, Undefined, Void, Null, Empty, Invalid}

WriteOps == {"create", "update", "claims"}

(* Options give the fields of the kind their values, or leave them out.     *)
OptionsFormed(c, k, op, o) ==
    /\ o \in [Fields(k) -> OptionValues(c)]
    /\ \A f \in Fields(k) : o[f] = Void => f \in ToldApart(k)
    /\ op # "claims" => \A f \in Fields(k) \ Editable(k) : o[f] = Undefined
    /\ op = "claims" => \A f \in Fields(k) \ {"customClaims"} : o[f] = Undefined
    /\ k = "app" => \A f \in Fields(k) : o[f] # Invalid

LEMMA NamingFormed ==
    ASSUME NEW c \in Clients, NEW k \in Kinds, NEW n, NEW o \in Naming(n, c, k)
    PROVE  OptionsFormed(c, k, "update", o)
  <1> DEFINE ValuesOf(f) == {c, Null} \cup (IF f \in Collections THEN {Empty} ELSE {})
                                     \cup (IF f \in ToldApart(k) THEN {Void} ELSE {})
  <1>0. PICK names \in SUBSET Editable(k) :
           \E v \in {w \in [names -> {c, Void, Null, Empty}] :
                       \A f \in names : w[f] \in ValuesOf(f)} :
               o = [f \in Fields(k) |-> IF f \in DOMAIN v THEN v[f] ELSE Undefined]
    BY DEF Naming
  <1>1. PICK v \in [names -> {c, Void, Null, Empty}] :
           /\ \A f \in names : v[f] \in ValuesOf(f)
           /\ o = [f \in Fields(k) |-> IF f \in DOMAIN v THEN v[f] ELSE Undefined]
    BY <1>0
  <1>2. Void \notin {c, Null, Empty, Undefined}
    BY MarksAssumption
  <1>3. ASSUME NEW f \in Fields(k)
        PROVE  /\ o[f] \in {c, Void, Null, Empty, Undefined}
               /\ f \notin Editable(k) => o[f] = Undefined
               /\ o[f] = Void => f \in ToldApart(k)
    BY <1>1, <1>2
  <1>4. Invalid \notin {c, Void, Null, Empty, Undefined}
    BY MarksAssumption
  <1>5. o \in [Fields(k) -> OptionValues(c)]
    BY <1>1, <1>3 DEF OptionValues
  <1> QED
    BY <1>3, <1>4, <1>5 DEF OptionsFormed

LEMMA OptionsAreFormed ==
    ASSUME NEW c \in Clients, NEW k \in Kinds, NEW op \in WriteOps, op \in OpsOf(k),
           NEW o \in Options(c, k, op)
    PROVE  OptionsFormed(c, k, op, o)
  <1> USE DEF Nameless, OptionValues
  <1>1. CASE op = "create"
    <2> DEFINE all == [f \in Fields(k) |-> IF f \in Editable(k) THEN c ELSE Undefined]
    <2>1. k # "app"
      BY <1>1 DEF OpsOf
    <2>2. \/ o = all
          \/ \E f \in Editable(k), v \in {Undefined, Null, Invalid} : o = [all EXCEPT ![f] = v]
          \/ \E f \in ToldApart(k) : o = [all EXCEPT ![f] = Void]
      BY <1>1 DEF Options, CreateOptions
    <2>3. ToldApart(k) \subseteq Editable(k)
      BY DEF ToldApart, Editable, Fields, User!UserFields, Provider!TenantFields
    <2>4. Void \notin {c, Undefined, Null, Invalid}
      BY MarksAssumption
    <2>5. /\ o \in [Fields(k) -> OptionValues(c)]
          /\ \A f \in Fields(k) \ Editable(k) : o[f] = Undefined
          /\ \A f \in Fields(k) : o[f] = Void => f \in ToldApart(k)
      BY <2>2, <2>3, <2>4 DEF Editable
    <2> QED
      BY <1>1, <2>1, <2>5 DEF OptionsFormed
  <1>2. CASE op = "update"
    <2>1. o \in UpdateOptions(c, k)
      BY <1>2 DEF Options
    <2>2. CASE o \in Naming(MaxNamed, c, k)
      BY <1>2, <2>2, NamingFormed
    <2>3. ASSUME k # "app", NEW f \in Editable(k), o = [Nameless(k) EXCEPT ![f] = Invalid]
          PROVE  OptionsFormed(c, k, op, o)
      BY <1>2, <2>3, MarksAssumption DEF OptionsFormed, Editable
    <2>4. ASSUME NEW f \in Editable(k), o = [Nameless(k) EXCEPT ![f] = c]
          PROVE  OptionsFormed(c, k, op, o)
      BY <1>2, <2>4, MarksAssumption DEF OptionsFormed, Editable
    <2> QED
      BY <2>1, <2>2, <2>3, <2>4 DEF UpdateOptions
  <1>3. CASE op = "claims"
    <2>1. k = "user" /\ "customClaims" \in Fields(k)
      BY <1>3 DEF OpsOf, Kinds, Fields, User!UserFields
    <2>2. PICK v \in {c, Null, Invalid} : o = [Nameless(k) EXCEPT !["customClaims"] = v]
      BY <1>3, <2>1 DEF Options, ClaimsOptions
    <2> QED
      BY <1>3, <2>1, <2>2, MarksAssumption DEF OptionsFormed
  <1> QED
    BY <1>1, <1>2, <1>3 DEF WriteOps

-----------------------------------------------------------------------------
(* What the requests hold.  A request is exact when it holds of every field *)
(* that it touches what the options mean (those that the options name, and   *)
(* what Unasked lists), and nothing of the others.                          *)

Leaves(request, p) == p \notin request.clear \cup DOMAIN request.set

Holds(request, p, v) ==
    \/ p \in request.clear /\ v = Undefined
    \/ p \notin request.clear /\ p \in DOMAIN request.set /\ request.set[p] = v

(* What a creation leaves out is undefined.                                 *)
Writes(op, request, p, v) ==
    \/ Holds(request, p, v)
    \/ op = "create" /\ v = Undefined /\ Leaves(request, p)

ExactField(c, op, o, request, f) ==
    IF Touched(o, f)
    THEN /\ Intended(f, o[f]) \in {c, Undefined, Void, Empty}
         /\ Writes(op, request, PathOf(kind, f), Intended(f, o[f]))
    ELSE Leaves(request, PathOf(kind, f))

Exact(c, op, o, request) == \A f \in Fields(kind) : ExactField(c, op, o, request, f)

(* Except for tenants and for apps without a name, what is touched is what  *)
(* is given a value.                                                        *)
LEMMA TouchedIsNamed ==
    ASSUME kind \in {"user", "saml", "oidc"}, NEW o, NEW f
    PROVE  Touched(o, f) <=> o[f] \notin {Undefined, Void} /\ ~Dropped(o, f)
  BY DEF Touched, Named, Unasked

(* No two fields of a kind have the same path.                              *)
LEMMA PathsDiffer ==
    ASSUME NEW k \in Kinds, NEW f \in Fields(k), NEW g \in Fields(k),
           PathOf(k, f) = PathOf(k, g)
    PROVE  f = g
  <1>1. CASE k = "user"
    BY <1>1 DEF PathOf, Fields, User!UserFields, User!UserPathOf
  <1>2. CASE k = "saml"
    BY <1>2 DEF PathOf, Fields, Provider!SamlFields, Provider!SamlPath
  <1>3. CASE k = "tenant"
    BY <1>3 DEF PathOf, Fields, Provider!TenantFields, Provider!TenantPath,
       Provider!EmailSignInPath, Provider!MultiFactorPath
  <1>4. CASE k \in {"oidc", "app"}
    BY <1>4 DEF PathOf
  <1> QED
    BY <1>1, <1>2, <1>3, <1>4 DEF Kinds

(* createUser().                                                            *)
LEMMA CreateUserExact ==
    ASSUME kind = "user", NEW c \in Clients, NEW o, OptionsFormed(c, kind, "create", o),
           User!CreateNewAccount(o).valid
    PROVE  Exact(c, "create", o, User!CreateNewAccount(o))
  <1> DEFINE plain == {f \in {"displayName", "photoURL", "phoneNumber", "disabled"} :
                           o[f] # Undefined}
             set == [p \in {User!RenamePhoto(f) : f \in plain} \cup User!NewFactors(o) |->
                       IF p = "mfaInfo" THEN o["multiFactor"]
                       ELSE o[CHOOSE f \in plain : User!RenamePhoto(f) = p]]
  <1>1. /\ User!CreateNewAccount(o) = [set |-> set, clear |-> {}, valid |-> TRUE]
        /\ \A p \in DOMAIN set : set[p] \notin {Null, Invalid}
    BY DEF User!CreateNewAccount, User!Refused, User!ValidateSignUp,
       User!ValidateCreateEditRequest
  <1>6. ASSUME NEW f \in Fields(kind)
        PROVE  /\ o[f] \in OptionValues(c) /\ (o[f] = Void => f = "multiFactor")
               /\ Touched(o, f) <=> o[f] \notin {Undefined, Void}
    BY TouchedIsNamed DEF OptionsFormed, ToldApart, Dropped
  <1>2. ASSUME NEW f \in plain
        PROVE  /\ User!RenamePhoto(f) = PathOf(kind, f)
               /\ PathOf(kind, f) \in DOMAIN set /\ set[PathOf(kind, f)] = o[f]
    <2>1. User!RenamePhoto(f) = PathOf(kind, f) /\ PathOf(kind, f) # "mfaInfo"
      BY DEF User!RenamePhoto, PathOf, User!UserPathOf
    <2>2. \A g \in plain : User!RenamePhoto(g) = PathOf(kind, f) => g = f
      BY <2>1 DEF User!RenamePhoto
    <2>3. (CHOOSE g \in plain : User!RenamePhoto(g) = PathOf(kind, f)) = f
      BY <2>1, <2>2
    <2> QED
      BY <2>1, <2>3
  <1>3. /\ "mfaInfo" \in DOMAIN set <=> o["multiFactor"] \notin {Undefined, Void, Null, Empty}
        /\ "mfaInfo" \in DOMAIN set => set["mfaInfo"] = o["multiFactor"]
    BY DEF User!NewFactors, User!RenamePhoto
  <1>4. \A p \in DOMAIN set : p = "mfaInfo" \/ \E f \in plain : p = PathOf(kind, f)
    BY <1>2 DEF User!NewFactors
  <1> HIDE DEF set
  <1>5. ASSUME NEW f \in Fields(kind)
        PROVE  ExactField(c, "create", o, User!CreateNewAccount(o), f)
    <2> USE DEF ExactField
    <2>1. /\ o[f] \in OptionValues(c) /\ (o[f] = Void => f = "multiFactor")
          /\ Touched(o, f) <=> o[f] \notin {Undefined, Void}
      BY <1>6
    <2>2. CASE f \in plain
      <3>1. o[f] \in {c, Empty} /\ Touched(o, f)
        BY <1>1, <1>2, <2>1, <2>2 DEF OptionValues
      <3>2. Intended(f, o[f]) = o[f]
        BY <2>2, <3>1, MarksAssumption DEF Intended
      <3> QED
        BY <1>1, <1>2, <2>2, <3>1, <3>2 DEF Writes, Holds
    <2>3. CASE f = "multiFactor"
      <3>1. PathOf(kind, f) = "mfaInfo"
        BY <2>3 DEF PathOf, User!UserPathOf
      <3>2. CASE o[f] \in {Undefined, Void}
        BY <1>1, <1>3, <2>1, <2>3, <3>1, <3>2 DEF Leaves
      <3>3. CASE o[f] \in {Null, Empty}
        <4>1. Touched(o, f) /\ Intended(f, o[f]) = Undefined
          BY <2>1, <2>3, <3>3, MarksAssumption DEF Intended
        <4> QED
          BY <1>1, <1>3, <2>3, <3>1, <3>3, <4>1 DEF Leaves, Writes
      <3>4. CASE o[f] = c
        <4>1. Intended(f, o[f]) = c /\ c \notin {Undefined, Void, Null, Empty}
          BY <2>3, <3>4, MarksAssumption DEF Intended
        <4> QED
          BY <1>1, <1>3, <2>1, <2>3, <3>1, <3>4, <4>1 DEF Writes, Holds
      <3>5. CASE o[f] = Invalid
        BY <1>1, <1>3, <2>3, <3>5, MarksAssumption
      <3> QED
        BY <2>1, <3>2, <3>3, <3>4, <3>5 DEF OptionValues
    <2>4. CASE f \notin plain /\ f # "multiFactor"
      <3>1. o[f] = Undefined
        BY <2>4 DEF OptionsFormed, Editable, Fields, User!UserFields
      <3>2. PathOf(kind, f) \notin DOMAIN set
        <4>1. PathOf(kind, f) # "mfaInfo"
          BY <2>4 DEF PathOf, User!UserPathOf, Fields, User!UserFields
        <4>2. \A g \in plain : g \in Fields(kind) /\ g # f
          BY <2>4 DEF Fields, User!UserFields
        <4>3. \A g \in plain : PathOf(kind, g) # PathOf(kind, f)
          BY <4>2, PathsDiffer DEF Kinds
        <4> QED
          BY <1>4, <4>1, <4>3
      <3> QED
        BY <1>1, <2>1, <3>1, <3>2 DEF Leaves
    <2> QED
      BY <2>2, <2>3, <2>4
  <1> QED
    BY <1>5 DEF Exact

(* updateUser().                                                            *)
LEMMA UpdateUserExact ==
    ASSUME kind = "user", NEW c \in Clients, NEW o, OptionsFormed(c, kind, "update", o),
           User!UpdateExistingAccount(o).valid
    PROVE  Exact(c, "update", o, User!UpdateExistingAccount(o))
  <1> DEFINE cleared == User!DeleteAttribute(o) \cup User!DeleteProvider(o)
                          \cup User!DeleteFactors(o)
             named == {f \in User!UserFields \ {"customClaims"} :
                          o[f] \notin {Undefined, Void}} \ cleared
             set == [p \in {User!UserPathOf(f) : f \in named} |->
                        o[CHOOSE f \in named : User!UserPathOf(f) = p]]
             r == User!UpdateExistingAccount(o)
  <1>1. /\ r = [set |-> set, clear |-> {User!UserPathOf(f) : f \in cleared}, valid |-> TRUE]
        /\ \A p \in DOMAIN set : set[p] \notin {Null, Invalid}
    BY DEF User!UpdateExistingAccount, User!Refused, User!ValidateCreateEditRequest
  <1>2. /\ \A f \in Fields(kind) : PathOf(kind, f) = User!UserPathOf(f)
        /\ named \subseteq Fields(kind) /\ cleared \subseteq Fields(kind)
    BY DEF PathOf, Fields, User!DeleteAttribute, User!DeletableParams, User!DeleteProvider,
       User!DeleteFactors, User!UserFields
  <1>3. \A f \in cleared : o[f] = Null \/ (f = "multiFactor" /\ o[f] = Empty)
    BY DEF User!DeleteAttribute, User!DeletableParams, User!DeleteProvider,
       User!DeleteFactors
  <1>4. \A f \in Fields(kind) : f \notin cleared /\ f \notin named => o[f] \in {Undefined, Void}
    BY DEF OptionsFormed, Editable, Fields
  <1>5. \A f \in named : o[f] \notin {Undefined, Void} /\ (f = "multiFactor" => o[f] # Empty)
    BY DEF User!DeleteFactors
  <1>6. \A f, g \in Fields(kind) : PathOf(kind, f) = PathOf(kind, g) => f = g
    BY PathsDiffer DEF Kinds
  <1> HIDE DEF named, cleared
  <1>7. ASSUME NEW f \in named
        PROVE  PathOf(kind, f) \in DOMAIN set /\ set[PathOf(kind, f)] = o[f]
    <2>1. (CHOOSE g \in named : User!UserPathOf(g) = PathOf(kind, f)) = f
      BY <1>2, <1>6
    <2> QED
      BY <1>2, <2>1
  <1>8. \A p \in DOMAIN set : \E f \in named : p = PathOf(kind, f)
    BY <1>2
  <1> HIDE DEF set, r
  <1>9. ASSUME NEW f \in Fields(kind)
        PROVE  ExactField(c, "update", o, r, f)
    <2> USE DEF ExactField
    <2>1. /\ o[f] \in OptionValues(c)
          /\ Touched(o, f) <=> o[f] \notin {Undefined, Void}
      BY TouchedIsNamed DEF OptionsFormed, Dropped
    <2>2. CASE f \in cleared
      <3>1. o[f] \notin {Undefined, Void} /\ Intended(f, o[f]) = Undefined
        BY <1>3, <2>2, MarksAssumption DEF Intended
      <3> QED
        BY <1>1, <1>2, <2>1, <2>2, <3>1 DEF Writes, Holds
    <2>3. CASE f \in named /\ f \notin cleared
      <3>1. o[f] \in {c, Empty}
        BY <1>1, <1>5, <1>7, <2>1, <2>3 DEF OptionValues
      <3>2. Intended(f, o[f]) = o[f]
        BY <1>5, <2>3, <3>1, MarksAssumption DEF Intended
      <3>3. PathOf(kind, f) \notin {User!UserPathOf(g) : g \in cleared}
        BY <1>2, <1>6, <2>3
      <3> QED
        BY <1>1, <1>5, <1>7, <2>1, <2>3, <3>1, <3>2, <3>3 DEF Writes, Holds
    <2>4. CASE f \notin named /\ f \notin cleared
      <3>1. o[f] \in {Undefined, Void}
        BY <1>4, <2>4
      <3>2. /\ PathOf(kind, f) \notin {User!UserPathOf(g) : g \in cleared}
            /\ PathOf(kind, f) \notin DOMAIN set
        BY <1>2, <1>6, <1>8, <2>4
      <3> QED
        BY <1>1, <2>1, <3>1, <3>2 DEF Leaves
    <2> QED
      BY <2>2, <2>3, <2>4
  <1> QED
    BY <1>9 DEF Exact, r

(* setCustomUserClaims().                                                   *)
LEMMA ClaimsExact ==
    ASSUME kind = "user", NEW c \in Clients, NEW o, OptionsFormed(c, kind, "claims", o),
           User!SetCustomUserClaims(o).valid
    PROVE  Exact(c, "claims", o, User!SetCustomUserClaims(o))
  <1> DEFINE r == User!SetCustomUserClaims(o)
             v == o["customClaims"]
  <1>1. "customClaims" \in Fields(kind) /\ PathOf(kind, "customClaims") = "customAttributes"
    BY DEF Fields, User!UserFields, PathOf, User!UserPathOf
  <1>2. v \in {c, Null, Empty}
    BY <1>1 DEF OptionsFormed, OptionValues, ToldApart, User!SetCustomUserClaims, User!Refused
  <1>3. /\ v = Null => r = [set |-> [p \in {} |-> Undefined], clear |-> {"customAttributes"},
                            valid |-> TRUE]
        /\ v # Null => r = [set |-> [p \in {"customAttributes"} |-> v], clear |-> {},
                            valid |-> TRUE]
    BY <1>2, MarksAssumption DEF User!SetCustomUserClaims
  <1>4. /\ v \notin {Undefined, Void}
        /\ Intended("customClaims", v) = IF v = Null THEN Undefined ELSE v
    BY <1>2, MarksAssumption DEF Intended
  <1>6. \A f : Touched(o, f) <=> o[f] \notin {Undefined, Void}
    BY TouchedIsNamed DEF Dropped
  <1> HIDE DEF r
  <1>5. ASSUME NEW f \in Fields(kind)
        PROVE  ExactField(c, "claims", o, r, f)
    <2>1. CASE f = "customClaims"
      BY <1>1, <1>2, <1>3, <1>4, <1>6, <2>1 DEF ExactField, Writes, Holds
    <2>2. CASE f # "customClaims"
      <3>1. o[f] = Undefined /\ PathOf(kind, f) # "customAttributes"
        BY <1>1, <2>2, PathsDiffer DEF OptionsFormed, Kinds
      <3> QED
        BY <1>3, <1>6, <3>1 DEF ExactField, Leaves
    <2> QED
      BY <2>1, <2>2
  <1> QED
    BY <1>5 DEF Exact, r

(* A body, of which the paths of the mask are written.                      *)
LEMMA MaskedBody ==
    ASSUME NEW b, NEW valid, Masked(Provider!Body(b, valid)).valid
    PROVE  LET r == Masked(Provider!Body(b, valid))
           IN  /\ valid
               /\ "mfaConfig" \notin DOMAIN b => r.clear = {}
               /\ "mfaConfig" \in DOMAIN b /\ b["mfaConfig"] # Undefined =>
                      r.clear = {"mfaConfig.state", "mfaConfig.enabledProviders"}
               /\ \A p : /\ p \in DOMAIN r.set <=> p \in DOMAIN b /\ b[p] # Undefined
                         /\ p \in DOMAIN r.set => r.set[p] = b[p]
  <1> DEFINE r == Masked(Provider!Body(b, valid))
  <1> DEFINE mask == Provider!GenerateUpdateMask(IF valid THEN b ELSE Provider!NoBody)
  <1>1. r = [set |-> [p \in mask |-> (IF valid THEN b ELSE Provider!NoBody)[p]],
             clear |-> UNION {Provider!PathsUnder(p) : p \in mask}, valid |-> valid]
    BY DEF Masked, Provider!Body
  <1>2. valid
    BY <1>1
  <1>3. /\ mask = {p \in DOMAIN b : b[p] # Undefined}
        /\ r.set = [p \in mask |-> b[p]]
        /\ r.clear = UNION {Provider!PathsUnder(p) : p \in mask}
    BY <1>1, <1>2 DEF Provider!GenerateUpdateMask
  <1> HIDE DEF mask, r
  <1>4. \A p : Provider!PathsUnder(p) = IF p = "mfaConfig"
                                        THEN {"mfaConfig.state", "mfaConfig.enabledProviders"}
                                        ELSE {}
    BY DEF Provider!PathsUnder
  <1>5. "mfaConfig" \notin DOMAIN b => r.clear = {}
    BY <1>3, <1>4
  <1>6. "mfaConfig" \in DOMAIN b /\ b["mfaConfig"] # Undefined =>
            r.clear = {"mfaConfig.state", "mfaConfig.enabledProviders"}
    BY <1>3, <1>4
  <1> QED
    BY <1>2, <1>3, <1>5, <1>6 DEF r

(* A body that holds what the options name is an exact request.             *)
LEMMA BodyExact ==
    ASSUME kind \in Kinds, NEW c \in Clients, NEW op, NEW o, NEW b, NEW valid,
           Masked(Provider!Body(b, valid)).valid, "mfaConfig" \notin DOMAIN b,
           \A f \in Fields(kind) :
               IF Touched(o, f)
               THEN /\ Intended(f, o[f]) \in {c, Void, Empty}
                    /\ PathOf(kind, f) \in DOMAIN b
                    /\ b[PathOf(kind, f)] = Intended(f, o[f])
               ELSE PathOf(kind, f) \in DOMAIN b => b[PathOf(kind, f)] = Undefined
    PROVE  Exact(c, op, o, Masked(Provider!Body(b, valid)))
  <1> DEFINE r == Masked(Provider!Body(b, valid))
  <1>1. /\ r.clear = {}
        /\ \A p : /\ p \in DOMAIN r.set <=> p \in DOMAIN b /\ b[p] # Undefined
                  /\ p \in DOMAIN r.set => r.set[p] = b[p]
    BY MaskedBody
  <1> HIDE DEF r
  <1>2. ASSUME NEW f \in Fields(kind) PROVE ExactField(c, op, o, r, f)
    <2>1. CASE Touched(o, f)
      <3>1. Intended(f, o[f]) \in {c, Void, Empty} /\ Undefined \notin {c, Void, Empty}
        BY <2>1, MarksAssumption
      <3> QED
        BY <1>1, <2>1, <3>1 DEF ExactField, Writes, Holds
    <2>2. CASE ~Touched(o, f)
      BY <1>1, <2>2 DEF ExactField, Leaves
    <2> QED
      BY <2>1, <2>2
  <1> QED
    BY <1>2 DEF Exact, r

(* createInboundSamlConfig(), updateInboundSamlConfig().                    *)
LEMMA SamlExact ==
    ASSUME kind = "saml", NEW c \in Clients, NEW op, NEW o, OptionsFormed(c, kind, op, o),
           SamlRequest(op, o).valid
    PROVE  Exact(c, op, o, SamlRequest(op, o))
  <1> DEFINE ignore == (op = "update")
             paths == {"enabled", "displayName"} \cup Provider!IdpConfig(o)
                        \cup Provider!SpConfig(o)
             b == [p \in paths |->
                      o[CHOOSE f \in Provider!SamlFields : Provider!SamlPath(f) = p]]
             valid == Provider!SamlValidate(o, ignore)
  <1>1. SamlRequest(op, o) = Masked(Provider!Body(b, valid))
    BY DEF SamlRequest, Provider!SamlBuildServerRequest
  <1>2. valid
    BY <1>1, MaskedBody
  <1>3. Fields(kind) = Provider!SamlFields
        /\ \A f \in Fields(kind) : PathOf(kind, f) = Provider!SamlPath(f)
    BY DEF Fields, PathOf
  <1>4. ASSUME NEW f \in Fields(kind)
        PROVE  b[PathOf(kind, f)] = o[f] \/ PathOf(kind, f) \notin paths
    <2>1. \A g \in Provider!SamlFields : Provider!SamlPath(g) = PathOf(kind, f) => g = f
      BY <1>3, PathsDiffer DEF Kinds
    <2>2. (CHOOSE g \in Provider!SamlFields : Provider!SamlPath(g) = PathOf(kind, f)) = f
      BY <1>3, <2>1
    <2> QED
      BY <2>2
  <1>5. DOMAIN b = paths /\ "mfaConfig" \notin paths
    BY DEF Provider!IdpConfig, Provider!SpConfig
  <1> HIDE DEF b
  <1>6. ASSUME NEW f \in Fields(kind) PROVE o[f] \in {c, Undefined, Empty}
    <2>1. o[f] \in OptionValues(c) /\ o[f] # Void
      BY DEF OptionsFormed, ToldApart
    <2>2. o[f] \notin {Null, Invalid}
      BY <1>2, <1>3, MarksAssumption DEF Provider!SamlValidate, Provider!SamlFields
    <2> QED
      BY <2>1, <2>2 DEF OptionValues
  <1>7. ASSUME NEW f \in Fields(kind) PROVE Provider!Truthy(o[f]) <=> o[f] # Undefined
    BY <1>6, MarksAssumption DEF Provider!Truthy
  <1>12. ASSUME NEW f \in Fields(kind)
         PROVE  Touched(o, f) <=> o[f] # Undefined /\ ~Dropped(o, f)
    BY <1>6, TouchedIsNamed, MarksAssumption
  <1>8. ASSUME NEW f \in Fields(kind), Touched(o, f) PROVE PathOf(kind, f) \in paths
    <2> DEFINE three == {"idpEntityId", "ssoURL", "x509Certificates"}
    <2>1. three \subseteq Fields(kind) /\ {"rpEntityId", "callbackURL"} \subseteq Fields(kind)
      BY <1>3 DEF Provider!SamlFields
    <2>2. CASE f \in {"enabled", "displayName"}
      BY <1>3, <2>2 DEF Provider!SamlPath
    <2>3. CASE f \in three \cup {"enableRequestSigning"}
      <3>1. \E g \in three : Provider!Truthy(o[g])
        BY <1>7, <1>8, <1>12, <2>1, <2>3 DEF Dropped
      <3> QED
        BY <1>3, <2>3, <3>1 DEF Provider!IdpConfig, Provider!SamlPath
    <2>4. CASE f \in {"rpEntityId", "callbackURL"}
      <3>1. Provider!Truthy(o[f])
        BY <1>7, <1>8, <1>12
      <3> QED
        BY <1>3, <2>4, <3>1 DEF Provider!SpConfig, Provider!SamlPath
    <2> QED
      BY <1>3, <2>2, <2>3, <2>4 DEF Provider!SamlFields
  <1>9. ASSUME NEW f \in Fields(kind), ~Touched(o, f), PathOf(kind, f) \in paths
        PROVE  o[f] = Undefined
    <2> SUFFICES ASSUME Dropped(o, f) PROVE FALSE
      BY <1>9, <1>12
    <2>1. Provider!IdpConfig(o) = {}
      BY MarksAssumption DEF Dropped, Provider!IdpConfig, Provider!Truthy
    <2>2. PathOf(kind, f) = "idpConfig.signRequest"
      BY <1>3 DEF Dropped, Provider!SamlPath
    <2> QED
      BY <1>9, <2>1, <2>2 DEF Provider!SpConfig
  <1>10. ASSUME NEW f \in Fields(kind), Touched(o, f)
         PROVE  Intended(f, o[f]) = o[f] /\ o[f] \in {c, Empty}
    BY <1>6, <1>10, <1>12 DEF Intended
  <1>14. "mfaConfig" \notin DOMAIN b
    BY <1>5
  <1> HIDE DEF paths, valid
  <1>11. ASSUME NEW f \in Fields(kind)
         PROVE  IF Touched(o, f)
                THEN /\ Intended(f, o[f]) \in {c, Void, Empty}
                     /\ PathOf(kind, f) \in DOMAIN b
                     /\ b[PathOf(kind, f)] = Intended(f, o[f])
                ELSE PathOf(kind, f) \in DOMAIN b => b[PathOf(kind, f)] = Undefined
    BY <1>4, <1>5, <1>8, <1>9, <1>10
  <1>13. Masked(Provider!Body(b, valid)).valid /\ kind \in Kinds /\ "mfaConfig" \notin DOMAIN b
    BY <1>1, <1>14 DEF Kinds
  <1>15. Exact(c, op, o, Masked(Provider!Body(b, valid)))
    BY <1>11, <1>13, BodyExact
  <1> QED
    BY <1>1, <1>15

(* createOAuthIdpConfig(), updateOAuthIdpConfig().                          *)
LEMMA OidcExact ==
    ASSUME kind = "oidc", NEW c \in Clients, NEW op, NEW o, OptionsFormed(c, kind, op, o),
           OidcRequest(op, o).valid
    PROVE  Exact(c, op, o, OidcRequest(op, o))
  <1> DEFINE b == [p \in Provider!OidcFields |-> o[p]]
             valid == Provider!OidcValidate(o, op = "update")
  <1>1. OidcRequest(op, o) = Masked(Provider!Body(b, valid))
    BY DEF OidcRequest, Provider!OidcBuildServerRequest
  <1>2. valid
    BY <1>1, MaskedBody
  <1>3. Fields(kind) = Provider!OidcFields /\ \A f \in Fields(kind) : PathOf(kind, f) = f
    BY DEF Fields, PathOf
  <1>4. ASSUME NEW f \in Fields(kind)
        PROVE  IF Touched(o, f)
               THEN /\ Intended(f, o[f]) \in {c, Void, Empty}
                    /\ PathOf(kind, f) \in DOMAIN b
                    /\ b[PathOf(kind, f)] = Intended(f, o[f])
               ELSE PathOf(kind, f) \in DOMAIN b => b[PathOf(kind, f)] = Undefined
    <2>1. o[f] \in OptionValues(c) /\ o[f] # Void
      BY DEF OptionsFormed, ToldApart
    <2>2. o[f] \notin {Null, Invalid}
      BY <1>2, <1>3, MarksAssumption DEF Provider!OidcValidate, Provider!OidcFields
    <2>3. Intended(f, o[f]) = o[f] /\ (Touched(o, f) <=> o[f] # Undefined)
      BY <2>1, TouchedIsNamed DEF Intended, Dropped
    <2>4. PathOf(kind, f) \in DOMAIN b /\ b[PathOf(kind, f)] = o[f]
      BY <1>3
    <2> QED
      BY <2>1, <2>2, <2>3, <2>4 DEF OptionValues
  <1>7. "mfaConfig" \notin DOMAIN b
    BY DEF Provider!OidcFields
  <1> HIDE DEF b, valid
  <1>5. Masked(Provider!Body(b, valid)).valid /\ kind \in Kinds /\ "mfaConfig" \notin DOMAIN b
    BY <1>1, <1>7 DEF Kinds
  <1>6. Exact(c, op, o, Masked(Provider!Body(b, valid)))
    BY <1>4, <1>5, BodyExact
  <1> QED
    BY <1>1, <1>6

(* createTenant(), updateTenant().                                          *)
LEMMA TenantExact ==
    ASSUME kind = "tenant", NEW c \in Clients, NEW op, NEW o,
           OptionsFormed(c, kind, op, o), TenantRequest(op, o).valid
    PROVE  Exact(c, op, o, TenantRequest(op, o))
  <1> DEFINE named == Provider!Given(o)
             valueOf(f) == IF o[f] = Null THEN Empty ELSE o[f]
             mfaConfig == IF Provider!WithoutFactors(o) THEN {"mfaConfig"} ELSE {}
             b == [p \in {Provider!TenantPath(f) : f \in named} \cup mfaConfig |->
                      IF p = "mfaConfig" THEN Empty
                      ELSE valueOf(CHOOSE f \in named : Provider!TenantPath(f) = p)]
             valid == Provider!TenantValidate(o, op = "create")
             r == TenantRequest(op, o)
             factors == Provider!MultiFactorFields
  <1>1. r = Masked(Provider!Body(b, valid))
    BY DEF TenantRequest, Provider!TenantBuildServerRequest
  <1>2. valid
    BY <1>1, MaskedBody
  <1>3. /\ Fields(kind) = Provider!TenantFields
        /\ \A f \in Fields(kind) : /\ PathOf(kind, f) = Provider!TenantPath(f)
                                   /\ PathOf(kind, f) # "mfaConfig"
    BY DEF Fields, PathOf, Provider!TenantFields, Provider!TenantPath,
       Provider!EmailSignInPath, Provider!MultiFactorPath
  <1>4. \A f, g \in Fields(kind) : PathOf(kind, f) = PathOf(kind, g) => f = g
    BY PathsDiffer DEF Kinds
  <1>5. named \subseteq Fields(kind)
    BY <1>3 DEF Provider!Given
  <1>6. ASSUME NEW f \in named
        PROVE  PathOf(kind, f) \in DOMAIN b /\ b[PathOf(kind, f)] = valueOf(f)
    <2>1. (CHOOSE g \in named : Provider!TenantPath(g) = PathOf(kind, f)) = f
      BY <1>3, <1>4, <1>5
    <2> QED
      BY <1>3, <1>5, <2>1
  <1>7. /\ \A p \in DOMAIN b \ {"mfaConfig"} : \E g \in named : p = PathOf(kind, g)
        /\ "mfaConfig" \in DOMAIN b <=> Provider!WithoutFactors(o)
        /\ "mfaConfig" \in DOMAIN b => b["mfaConfig"] = Empty
    BY <1>3, <1>5
  <1>8. /\ Provider!WithoutFactors(o) =>
               r.clear = {"mfaConfig.state", "mfaConfig.enabledProviders"}
        /\ ~Provider!WithoutFactors(o) => r.clear = {}
        /\ \A p : /\ p \in DOMAIN r.set <=> p \in DOMAIN b /\ b[p] # Undefined
                  /\ p \in DOMAIN r.set => r.set[p] = b[p]
    <2> HIDE DEF b, valid
    <2>1. Empty # Undefined
      BY MarksAssumption
    <2> QED
      BY <1>1, <1>7, <2>1, MaskedBody
  <1> HIDE DEF b, r
  <1>9. ASSUME NEW f \in Fields(kind)
        PROVE  ExactField(c, op, o, r, f)
    <2>1. /\ o[f] \in {c, Undefined, Void, Null, Empty}
          /\ o[f] = Void => f \in ToldApart(kind)
      BY <1>2, <1>3 DEF OptionsFormed, OptionValues, Provider!TenantValidate,
         Provider!EmailSignInValidate, Provider!MultiFactorAuthValidate,
         Provider!ValidateTestPhoneNumbers, Provider!TenantFields
    <2>2. f \in named <=> \/ o[f] \notin {Undefined, Void}
                          \/ f = "passwordRequired" /\ o[f] = Void
      BY <1>3 DEF Provider!Given
    <2>3. /\ f \in factors => PathOf(kind, f) \in {"mfaConfig.state", "mfaConfig.enabledProviders"}
          /\ f \notin factors => PathOf(kind, f) \notin {"mfaConfig.state",
                                                         "mfaConfig.enabledProviders"}
      BY <1>3 DEF PathOf, Provider!MultiFactorFields, Provider!TenantFields,
         Provider!TenantPath, Provider!EmailSignInPath, Provider!MultiFactorPath
    <2>4. "passwordRequired" \notin factors
      BY DEF Provider!MultiFactorFields
    <2>5. Touched(o, f) <=> \/ f \in named
                            \/ f \in factors /\ Provider!WithoutFactors(o)
      BY <2>2, <2>4 DEF Touched, Named, Unasked, Dropped
    <2>6. CASE f \in named
      <3>1. Intended(f, o[f]) = valueOf(f) /\ valueOf(f) \in {c, Void, Empty}
        BY <2>1, <2>2, <2>4, <2>6, MarksAssumption DEF Intended
      <3>2. f \in factors => ~Provider!WithoutFactors(o)
        BY <2>2, <2>4, <2>6 DEF Provider!WithoutFactors
      <3>3. PathOf(kind, f) \notin r.clear
        BY <1>8, <2>3, <3>2
      <3>4. valueOf(f) # Undefined
        BY <3>1, MarksAssumption
      <3>5. PathOf(kind, f) \in DOMAIN r.set /\ r.set[PathOf(kind, f)] = valueOf(f)
        BY <1>6, <1>8, <2>6, <3>4
      <3> HIDE DEF valueOf
      <3> QED
        BY <2>5, <2>6, <3>1, <3>3, <3>5 DEF ExactField, Writes, Holds
    <2>7. CASE f \notin named
      <3>1. PathOf(kind, f) \notin DOMAIN r.set
        BY <1>3, <1>4, <1>5, <1>7, <1>8, <2>7
      <3>2. CASE f \in factors /\ Provider!WithoutFactors(o)
        <4>1. PathOf(kind, f) \in r.clear
          BY <1>8, <2>3, <3>2
        <4>2. Intended(f, o[f]) = Undefined
          BY <3>2, MarksAssumption DEF Intended, Provider!WithoutFactors
        <4> QED
          BY <2>5, <3>2, <4>1, <4>2 DEF ExactField, Writes, Holds
      <3>3. CASE ~(f \in factors /\ Provider!WithoutFactors(o))
        <4>1. PathOf(kind, f) \notin r.clear
          BY <1>8, <2>3, <3>3
        <4> QED
          BY <2>5, <2>7, <3>1, <3>3, <4>1 DEF ExactField, Leaves
      <3> QED
        BY <3>2, <3>3
    <2> QED
      BY <2>6, <2>7
  <1> QED
    BY <1>9 DEF Exact, r

(* setDisplayName() of an app.                                              *)
LEMMA AppExact ==
    ASSUME kind = "app", NEW c \in Clients, NEW op, NEW o,
           OptionsFormed(c, kind, op, o), AppRequest(o).valid
    PROVE  Exact(c, op, o, AppRequest(o))
  <1> DEFINE v == o["displayName"]
             b == [p \in Provider!AppFields |-> o[p]]
  <1>1. Fields(kind) = {"displayName"} /\ PathOf(kind, "displayName") = "displayName"
    BY DEF Fields, Provider!AppFields, PathOf
  <1>2. v \in {c, Undefined, Null, Empty}
    BY <1>1 DEF OptionsFormed, OptionValues, ToldApart
  <1>3. ASSUME NEW f \in Fields(kind)
        PROVE  /\ f = "displayName"
               /\ Touched(o, f)
               /\ Intended(f, o[f]) = IF o[f] = Null THEN Undefined ELSE o[f]
    <2>1. f = "displayName" /\ ~Dropped(o, f)
      BY <1>1 DEF Dropped
    <2>2. o[f] # Undefined => o[f] \notin {Undefined, Void}
      BY <1>2, <2>1, MarksAssumption
    <2> QED
      BY <2>1, <2>2 DEF Touched, Named, Unasked, Intended
  <1>4. CASE v \in {Undefined, Null}
    <2>1. AppRequest(o) = [set |-> [p \in {} |-> Undefined], clear |-> {"displayName"},
                           valid |-> TRUE]
      BY <1>4 DEF AppRequest, NoChange, User!Refused
    <2> QED
      BY <1>1, <1>3, <1>4, <2>1, MarksAssumption DEF Exact, ExactField, Writes, Holds
  <1>5. CASE v \notin {Undefined, Null}
    <2>1. AppRequest(o) = Masked(Provider!Body(b, TRUE))
      BY <1>5 DEF AppRequest, Provider!SetDisplayName
    <2>2. DOMAIN b = {"displayName"} /\ b["displayName"] = v
      BY DEF Provider!AppFields
    <2> HIDE DEF b
    <2>3. ASSUME NEW f \in Fields(kind)
          PROVE  IF Touched(o, f)
                 THEN /\ Intended(f, o[f]) \in {c, Void, Empty}
                      /\ PathOf(kind, f) \in DOMAIN b
                      /\ b[PathOf(kind, f)] = Intended(f, o[f])
                 ELSE PathOf(kind, f) \in DOMAIN b => b[PathOf(kind, f)] = Undefined
      BY <1>1, <1>2, <1>3, <1>5, <2>2
    <2>4. Masked(Provider!Body(b, TRUE)).valid /\ kind \in Kinds /\ "mfaConfig" \notin DOMAIN b
      BY <2>1, <2>2 DEF Kinds
    <2>5. Exact(c, op, o, Masked(Provider!Body(b, TRUE)))
      BY <2>3, <2>4, BodyExact
    <2> QED
      BY <2>1, <2>5
  <1> QED
    BY <1>4, <1>5

(* Every request that is sent is exact, whatever the options: it writes     *)
(* what they name, what Unasked lists, and nothing else.                    *)
THEOREM RequestsExact ==
    ASSUME kind \in Kinds, NEW c \in Clients, NEW op \in WriteOps, op \in OpsOf(kind),
           NEW o \in Options(c, kind, op), RequestOf(kind, op, o).valid
    PROVE  Exact(c, op, o, RequestOf(kind, op, o))
  <1>1. OptionsFormed(c, kind, op, o) /\ IsWrite(op)
    BY OptionsAreFormed DEF WriteOps, IsWrite
  <1>2. CASE kind = "user"
    <2>1. RequestOf(kind, op, o) = UserRequest(op, o)
      BY <1>1, <1>2 DEF RequestOf
    <2>2. CASE op = "create"
      BY <1>1, <1>2, <2>1, <2>2, CreateUserExact DEF UserRequest
    <2>3. CASE op = "update"
      BY <1>1, <1>2, <2>1, <2>3, UpdateUserExact DEF UserRequest
    <2>4. CASE op = "claims"
      BY <1>1, <1>2, <2>1, <2>4, ClaimsExact DEF UserRequest
    <2> QED
      BY <2>2, <2>3, <2>4 DEF WriteOps
  <1>3. CASE kind = "saml"
    <2>1. RequestOf(kind, op, o) = SamlRequest(op, o)
      BY <1>1, <1>3 DEF RequestOf
    <2> QED
      BY <1>1, <1>3, <2>1, SamlExact
  <1>4. CASE kind = "oidc"
    <2>1. RequestOf(kind, op, o) = OidcRequest(op, o)
      BY <1>1, <1>4 DEF RequestOf
    <2> QED
      BY <1>1, <1>4, <2>1, OidcExact
  <1>5. CASE kind = "tenant"
    <2>1. RequestOf(kind, op, o) = TenantRequest(op, o)
      BY <1>1, <1>5 DEF RequestOf
    <2> QED
      BY <1>1, <1>5, <2>1, TenantExact
  <1>6. CASE kind = "app"
    <2>1. RequestOf(kind, op, o) = AppRequest(o)
      BY <1>1, <1>6 DEF RequestOf
    <2> QED
      BY <1>1, <1>6, <2>1, AppExact
  <1> QED
    BY <1>2, <1>3, <1>4, <1>5, <1>6 DEF Kinds

-----------------------------------------------------------------------------
(* What is known of a call k of the client c, of what has been seen since   *)
(* it began (s), and of what the server holds (st).                         *)

Content == [Paths(kind) -> StoredValues]

CallFields == {"op", "id", "options", "phase", "st", "attempts", "answer", "result",
               "error", "visited", "listed"}
SeenFields == {"id", "wrote", "versions", "steady"}

Formed(k, s) ==
    /\ DOMAIN k = CallFields /\ DOMAIN s = SeenFields
    /\ k.phase \in {"idle", "write", "read", "list", "ok", "failed"}
    /\ k.attempts \in 0..MaxAttempts
    /\ s.id \in Resources \cup {Undefined} /\ s.wrote \subseteq Resources
    /\ s.versions \subseteq Content \cup {Absent} /\ s.steady \subseteq Resources

(* Where the call stands.                                                   *)
Stands(k, s) ==
    /\ k.phase \in {"idle", "ok", "failed"} => k.st = "none"
    /\ k.phase # "ok" => k.result = Absent
    /\ k.phase # "failed" => k.error = "none"
    /\ k.phase = "write" => k.op \in WriteOps \cup {"delete"}
    /\ k.phase = "read" => \/ k.op = "get"
                           \/ kind = "user" /\ k.op \in {"create", "update"}
    /\ k.phase = "list" => k.op = "list"
    /\ k.op = "list" => k.phase \in {"list", "ok", "failed"}
    /\ k.phase = "idle" \/ k.error = "invalid" => s.wrote = {}
    /\ k.id \in {Undefined, s.id}
    /\ k.phase = "read" \/ (k.phase = "write" /\ k.op # "create") => k.id \in Resources

(* What was sent is a valid request, and a write that has been answered has *)
(* been carried out.                                                        *)
Requested(c, k, s) ==
    k.op \in WriteOps =>
        /\ k.phase = "write" \/ s.wrote # {} =>
               /\ k.op \in OpsOf(kind) /\ k.options \in Options(c, kind, k.op)
               /\ RequestOf(kind, k.op, k.options).valid
        /\ \/ k.phase \in {"read", "ok"}
           \/ k.phase = "write" /\ k.st = "answered" /\ k.answer.error = "none"
           => s.id \in s.wrote

(* An answer tells of a version since the call, or since its own write; and *)
(* what was not found was not there.                                        *)
AnswerTells(k, s) ==
    k.st = "answered" /\ k.phase \in {"write", "read"} =>
        IF k.answer.error = "none"
        THEN /\ k.answer.id = s.id /\ s.id \in Resources
             /\ k.op = "delete" \/ k.answer.resource \in s.versions \ {Absent}
        ELSE /\ k.answer.error \in {NotFound(kind), Exists(kind)}
             /\ k.answer.error = NotFound(kind) =>
                    Absent \in s.versions /\ (k.op = "create" => k.phase = "read")

ResultTells(k, s) ==
    k.result # Absent => k.result \in {Parse(kind, r) : r \in s.versions \ {Absent}}

FailureTells(k, s) ==
    k.phase = "failed" /\ k.error = NotFound(kind) => k.op # "create" /\ Absent \in s.versions

(* Who lists has met what was there all the time, as far as it has come.    *)
ListTells(k, s) ==
    k.op = "list" =>
        /\ s.steady \cap k.visited \subseteq k.listed
        /\ k.st = "answered" =>
               /\ k.answer.error = "none"
               /\ s.steady \cap k.answer.window \subseteq k.answer.page
               /\ k.answer.nextPageToken \in BOOLEAN
               /\ ~k.answer.nextPageToken => Resources = k.visited \cup k.answer.window
               /\ kind # "user" /\ k.answer.nextPageToken => k.answer.page # {}
        /\ k.phase = "ok" => s.steady \subseteq k.listed

(* What the server holds is the newest version that was seen.               *)
StoreTells(k, s, st) ==
    /\ s.id \in Resources => st[s.id] \in s.versions
    /\ k.op = "list" => \A i \in s.steady : st[i] # Absent

Tells(c, k, s, st) ==
    /\ Formed(k, s) /\ Stands(k, s) /\ Requested(c, k, s)
    /\ AnswerTells(k, s) /\ ResultTells(k, s) /\ FailureTells(k, s) /\ ListTells(k, s)
    /\ StoreTells(k, s, st)

StoreOK == DOMAIN store = Resources /\ \A id \in Resources : store[id] \in Content \cup {Absent}

CallsOK ==
    /\ DOMAIN call = Clients /\ DOMAIN seen = Clients
    /\ \A c \in Clients : Tells(c, call[c], seen[c], store)

TellsInv == kind \in Kinds /\ StoreOK /\ CallsOK

-----------------------------------------------------------------------------
(* What a request makes of a resource, and what clients make of it.         *)

(* An exact request gives the fields that it touches what the options mean, *)
(* and changes no other.                                                    *)
THEOREM AppliedExact ==
    ASSUME kind \in Kinds, NEW c \in Clients, NEW op, NEW o, NEW request,
           Exact(c, op, o, request), NEW r \in Content,
           op = "create" => \A p \in Paths(kind) : r[p] = Undefined
    PROVE  /\ Applied(r, request) \in Content \ {Absent}
           /\ \A f \in Fields(kind) :
                 Applied(r, request)[PathOf(kind, f)] =
                     IF Touched(o, f) THEN Intended(f, o[f]) ELSE r[PathOf(kind, f)]
  <1> DEFINE new == Applied(r, request)
  <1>1. DOMAIN r = Paths(kind) /\ \A p \in Paths(kind) : r[p] \in StoredValues
    BY DEF Content
  <1>2. /\ new = [p \in Paths(kind) |-> new[p]]
        /\ \A p \in Paths(kind) : new[p] = IF p \in request.clear THEN Undefined
                                           ELSE IF p \in DOMAIN request.set
                                                THEN request.set[p] ELSE r[p]
    BY <1>1 DEF Applied
  <1> HIDE DEF new
  <1>3. ASSUME NEW f \in Fields(kind)
        PROVE  /\ new[PathOf(kind, f)] =
                     IF Touched(o, f) THEN Intended(f, o[f]) ELSE r[PathOf(kind, f)]
               /\ new[PathOf(kind, f)] \in StoredValues
    <2>1. PathOf(kind, f) \in Paths(kind)
      BY DEF Paths
    <2>2. ExactField(c, op, o, request, f)
      BY DEF Exact
    <2>3. CASE Touched(o, f)
      <3>1. /\ Intended(f, o[f]) \in {c, Undefined, Void, Empty}
            /\ Writes(op, request, PathOf(kind, f), Intended(f, o[f]))
        BY <2>2, <2>3 DEF ExactField
      <3>2. new[PathOf(kind, f)] = Intended(f, o[f])
        BY <1>1, <1>2, <2>1, <3>1 DEF Writes, Holds, Leaves
      <3> QED
        BY <2>3, <3>1, <3>2 DEF StoredValues
    <2>4. CASE ~Touched(o, f)
      <3>1. Leaves(request, PathOf(kind, f))
        BY <2>2, <2>4 DEF ExactField
      <3> QED
        BY <1>1, <1>2, <2>1, <2>4, <3>1 DEF Leaves
    <2> QED
      BY <2>3, <2>4
  <1>4. \A p \in Paths(kind) : new[p] \in StoredValues
    BY <1>3 DEF Paths
  <1>5. new \in Content
    BY <1>2, <1>4 DEF Content
  <1>6. new # Absent
    BY <1>5, AbsentAssumption DEF Content
  <1> QED
    BY <1>3, <1>5, <1>6 DEF new

(* A resource is read as the fields that callers know.                      *)
LEMMA ParsedForm ==
    ASSUME kind \in Kinds, NEW r \in Content
    PROVE  /\ Parse(kind, r) \in [Fields(kind) -> StoredValues]
           /\ \A f \in Fields(kind) : Parse(kind, r)[f] = r[PathOf(kind, f)]
  <1>1. Parse(kind, r) = [f \in Fields(kind) |-> r[PathOf(kind, f)]]
    BY DEF Kinds, Parse, Fields, PathOf, User!UserRecord, Provider!SamlConfig,
       Provider!OidcConfig, Provider!TenantOf, Provider!AppMetadata
  <1>2. \A f \in Fields(kind) : PathOf(kind, f) \in Paths(kind)
    BY DEF Paths
  <1>3. \A p \in Paths(kind) : r[p] \in StoredValues
    BY DEF Content
  <1> QED
    BY <1>1, <1>2, <1>3

(* The errors of the server, as clients know them.                          *)
LEMMA ClientErrors ==
    ASSUME kind \in Kinds
    PROVE  /\ ClientError(NotFound(kind)) = NotFound(kind)
           /\ ClientError(Exists(kind)) \in {"UID_ALREADY_EXISTS", "CONFIGURATION_EXISTS"}
           /\ NotFound(kind) \notin {"none", "invalid", "network", "INTERNAL_ERROR",
                                     "UID_ALREADY_EXISTS", "CONFIGURATION_EXISTS"}
           /\ Exists(kind) \notin {"none", NotFound(kind)}
  <1>1. \A e \in {"USER_NOT_FOUND", "TENANT_NOT_FOUND", "CONFIGURATION_NOT_FOUND",
                  "CONFIGURATION_EXISTS"} :
            e \in Errors!AuthKept /\ e \notin DOMAIN Errors!AuthTranslated
    BY DEF Errors!AuthKept, Errors!AuthClientErrorCode, Errors!AuthTranslated
  <1>2. \A e \in {"USER_NOT_FOUND", "TENANT_NOT_FOUND", "CONFIGURATION_NOT_FOUND",
                  "CONFIGURATION_EXISTS"} : Errors!AuthError(e) = e
    BY <1>1 DEF Errors!AuthError, Errors!Lookup, Errors!AuthServerToClientCode,
       Errors!AuthClientErrorCode
  <1>3. Errors!AuthError("DUPLICATE_LOCAL_ID") = "UID_ALREADY_EXISTS"
    <2>1. /\ "DUPLICATE_LOCAL_ID" \in DOMAIN Errors!AuthTranslated
          /\ Errors!AuthTranslated["DUPLICATE_LOCAL_ID"] = "UID_ALREADY_EXISTS"
      BY DEF Errors!AuthTranslated
    <2> QED
      BY <2>1 DEF Errors!AuthError, Errors!Lookup, Errors!AuthServerToClientCode,
         Errors!AuthClientErrorCode
  <1> QED
    BY <1>2, <1>3 DEF ClientError, NotFound, Exists, Kinds

-----------------------------------------------------------------------------
(* The steps. *)

(* What a call tells depends on no variable but the kind, which is fixed.   *)
LEMMA TellsPrimed ==
    ASSUME kind' = kind, NEW c, NEW k, NEW s, NEW st, Tells(c, k, s, st)
    PROVE  Tells(c, k, s, st)'
  BY DEF Tells, Formed, Stands, Requested, AnswerTells, ResultTells, FailureTells,
     ListTells, StoreTells, Content

LEMMA StepTells ==
    ASSUME TellsInv, kind' = kind, DOMAIN store' = Resources,
           \A id \in Resources : store'[id] \in Content \cup {Absent},
           DOMAIN call' = Clients, DOMAIN seen' = Clients,
           \A d \in Clients : Tells(d, call'[d], seen'[d], store')
    PROVE  TellsInv'
  <1>1. StoreOK'
    BY DEF StoreOK, Content
  <1>2. CallsOK'
    BY TellsPrimed DEF CallsOK
  <1> QED
    BY <1>1, <1>2 DEF TellsInv

LEMMA OneCall ==
    ASSUME TellsInv, NEW c \in Clients, NEW k, Tells(c, k, seen[c], store),
           call' = [call EXCEPT ![c] = k], UNCHANGED <<kind, store, seen>>
    PROVE  TellsInv'
  <1>1. DOMAIN call' = Clients /\ \A d \in Clients : Tells(d, call'[d], seen'[d], store')
    BY DEF TellsInv, CallsOK
  <1> QED
    BY <1>1, StepTells DEF TellsInv, StoreOK, CallsOK

(* What is being waited for can be lost or fail at any time.                *)
LEMMA LostTells ==
    ASSUME TellsInv, NEW c \in Clients, AnswerLost(c)
    PROVE  TellsInv'
  <1> DEFINE r == call[c]
             k == Sent([r EXCEPT !.answer = Absent])
  <1>1. Tells(c, r, seen[c], store) /\ r.st \in {"sent", "answered"} /\ r.attempts < MaxAttempts
    BY DEF TellsInv, CallsOK, AnswerLost
  <1>2. /\ DOMAIN k = CallFields /\ k.st = "sent" /\ k.attempts = r.attempts + 1
        /\ \A f \in CallFields \ {"st", "attempts", "answer"} : k[f] = r[f]
    BY <1>1 DEF Tells, Formed, CallFields, Sent
  <1>3. k.attempts \in 0..MaxAttempts
    BY <1>1, <1>2, BoundsAssumption DEF Tells, Formed
  <1>4. r.phase \in {"write", "read", "list"}
    BY <1>1 DEF Tells, Formed, Stands
  <1> HIDE DEF k
  <1>5. Tells(c, k, seen[c], store)
    BY <1>1, <1>2, <1>3, <1>4 DEF CallFields, Tells, Formed, Stands, Requested, AnswerTells,
       ResultTells, FailureTells, ListTells, StoreTells
  <1> QED
    BY <1>5, OneCall DEF AnswerLost, k

(* A call that settles with an error.                                       *)
LEMMA FailedTells ==
    ASSUME NEW c, NEW r, NEW s, NEW st, Tells(c, r, s, st), r.st # "none", NEW e,
           e # "invalid", e # "none",
           e = NotFound(kind) => r.op # "create" /\ Absent \in s.versions
    PROVE  Tells(c, SettleError(r, e), s, st)
  <1> DEFINE k == SettleError(r, e)
  <1>1. /\ DOMAIN k = CallFields /\ k.st = "none" /\ k.phase = "failed" /\ k.error = e
        /\ \A f \in CallFields \ {"st", "phase", "answer", "error"} : k[f] = r[f]
    BY DEF Tells, Formed, CallFields, SettleError
  <1> HIDE DEF k
  <1>2. Tells(c, k, s, st)
    BY <1>1 DEF CallFields, Tells, Formed, Stands, Requested, AnswerTells,
       ResultTells, FailureTells, ListTells, StoreTells
  <1> QED
    BY <1>2 DEF k

LEMMA FailsTells ==
    ASSUME TellsInv, NEW c \in Clients, RequestFails(c)
    PROVE  TellsInv'
  <1>1. Tells(c, call[c], seen[c], store) /\ call[c].st # "none" /\ kind \in Kinds
    BY DEF TellsInv, CallsOK, RequestFails
  <1>2. Tells(c, SettleError(call[c], "network"), seen[c], store)
    BY <1>1, FailedTells, ClientErrors
  <1> QED
    BY <1>2, OneCall DEF RequestFails

(* A read finds the newest version.                                         *)
LEMMA ReadsTells ==
    ASSUME TellsInv, NEW c \in Clients, ServerReads(c)
    PROVE  TellsInv'
  <1> DEFINE r == call[c]
             a == [error |-> IF store[r.id] = Absent THEN NotFound(kind) ELSE "none",
                   id |-> r.id, resource |-> store[r.id]]
             k == [r EXCEPT !.st = "answered", !.answer = a]
  <1>1. Tells(c, r, seen[c], store) /\ r.phase = "read" /\ kind \in Kinds
    BY DEF TellsInv, CallsOK, ServerReads
  <1>2. /\ DOMAIN k = CallFields /\ k.st = "answered" /\ k.answer = a
        /\ \A f \in CallFields \ {"st", "answer"} : k[f] = r[f]
    BY <1>1 DEF Tells, Formed, CallFields
  <1>3. call' = [call EXCEPT ![c] = k] /\ UNCHANGED <<kind, store, seen>>
    BY DEF ServerReads
  <1>4. r.id \in Resources /\ r.id = seen[c].id /\ store[r.id] \in seen[c].versions
    BY <1>1, MarksAssumption DEF Tells, Stands, StoreTells, Resources
  <1>5. AnswerTells(k, seen[c])
    BY <1>1, <1>2, <1>4, ClientErrors DEF CallFields, AnswerTells
  <1> HIDE DEF k
  <1>6. Tells(c, k, seen[c], store)
    BY <1>1, <1>2, <1>5 DEF CallFields, Tells, Formed, Stands, Requested, ResultTells,
       FailureTells, ListTells, StoreTells
  <1> QED
    BY <1>3, <1>6, OneCall

(* A page holds what exists of the window, which all of the steady ones do. *)
LEMMA ListsTells ==
    ASSUME TellsInv, NEW c \in Clients, ServerLists(c)
    PROVE  TellsInv'
  <1> DEFINE r == call[c]
  <1>1. PICK window \in SUBSET (Resources \ r.visited) :
           LET page == {id \in window : store[id] # Absent}
               more == Resources # r.visited \cup window
           IN  /\ kind # "user" /\ more => page # {}
               /\ call' = [call EXCEPT ![c].st = "answered",
                             ![c].answer = [error |-> "none", window |-> window,
                                            page |-> page, nextPageToken |-> more]]
    BY DEF ServerLists
  <1> DEFINE a == [error |-> "none", window |-> window,
                   page |-> {id \in window : store[id] # Absent},
                   nextPageToken |-> Resources # r.visited \cup window]
             k == [r EXCEPT !.st = "answered", !.answer = a]
  <1>2. Tells(c, r, seen[c], store) /\ r.phase = "list"
    BY DEF TellsInv, CallsOK, ServerLists
  <1>3. call' = [call EXCEPT ![c] = k] /\ UNCHANGED <<kind, store, seen>>
    BY <1>1 DEF ServerLists
  <1>4. /\ DOMAIN k = CallFields /\ k.st = "answered" /\ k.answer = a
        /\ \A f \in CallFields \ {"st", "answer"} : k[f] = r[f]
    BY <1>2 DEF Tells, Formed, CallFields
  <1>5. /\ a.error = "none"
        /\ seen[c].steady \cap a.window \subseteq a.page
        /\ a.nextPageToken \in BOOLEAN
        /\ ~a.nextPageToken => Resources = r.visited \cup a.window
        /\ kind # "user" /\ a.nextPageToken => a.page # {}
    BY <1>1, <1>2 DEF Tells, Stands, StoreTells
  <1> HIDE DEF k, a
  <1>6. Tells(c, k, seen[c], store)
    BY <1>2, <1>4, <1>5 DEF CallFields, Tells, Formed, Stands, Requested, AnswerTells,
       ResultTells, FailureTells, ListTells, StoreTells
  <1> QED
    BY <1>3, <1>6, OneCall

LEMMA InitTells == Init => TellsInv
  <1> SUFFICES ASSUME Init PROVE TellsInv
    OBVIOUS
  <1>1. kind \in Kinds
    BY DEF Init
  <1>2. store \in [Resources -> {Absent, [p \in Paths(kind) |-> Initial]}]
    BY DEF Init, Resources
  <1>3. call = [c \in Clients |-> NoCall] /\ seen = [c \in Clients |-> Nothing]
    BY DEF Init
  <1>4. [p \in Paths(kind) |-> Initial] \in Content
    BY DEF Content, StoredValues
  <1>5. ASSUME NEW c \in Clients
        PROVE  Tells(c, NoCall, Nothing, store)
    <2>1. /\ DOMAIN NoCall = CallFields /\ NoCall.phase = "idle" /\ NoCall.op = "none"
          /\ NoCall.st = "none" /\ NoCall.attempts = 0 /\ NoCall.result = Absent
          /\ NoCall.error = "none" /\ NoCall.id = Undefined
      BY DEF NoCall, CallFields
    <2>2. /\ DOMAIN Nothing = SeenFields /\ Nothing.id = Undefined /\ Nothing.wrote = {}
          /\ Nothing.versions = {} /\ Nothing.steady = {}
      BY DEF Nothing, SeenFields
    <2>3. Undefined \notin Resources
      BY MarksAssumption DEF Resources
    <2> QED
      BY <2>1, <2>2, <2>3, BoundsAssumption DEF Tells, Formed, Stands, Requested, AnswerTells,
         ResultTells, FailureTells, ListTells, StoreTells, WriteOps
  <1> QED
    BY <1>1, <1>2, <1>3, <1>4, <1>5 DEF TellsInv, StoreOK, CallsOK

(* The operations are called with options of their own, for an id that      *)
(* callers know or for none.                                                *)
LEMMA CallTells ==
    ASSUME TellsInv, NEW c \in Clients, Call(c)
    PROVE  TellsInv'
  <1>1. PICK op \in OpsOf(kind) : \E o \in Options(c, kind, op) :
          \E id \in Ids \cup {Undefined} :
            /\ IF id = Undefined
               THEN op = "list" \/ (op = "create" /\ NamedByServer(kind))
               ELSE op # "list" /\ (op = "create" => NamedByCaller(kind))
            /\ call' = [call EXCEPT ![c] = Called([NoCall EXCEPT !.op = op, !.id = id,
                                                                 !.options = o])]
            /\ seen' = [seen EXCEPT ![c] =
                  [id |-> id, wrote |-> {},
                   versions |-> IF id = Undefined THEN {} ELSE {store[id]},
                   steady |-> {i \in Resources : store[i] # Absent}]]
    BY DEF Call
  <1>2. PICK o \in Options(c, kind, op) : \E id \in Ids \cup {Undefined} :
            /\ IF id = Undefined
               THEN op = "list" \/ (op = "create" /\ NamedByServer(kind))
               ELSE op # "list" /\ (op = "create" => NamedByCaller(kind))
            /\ call' = [call EXCEPT ![c] = Called([NoCall EXCEPT !.op = op, !.id = id,
                                                                 !.options = o])]
            /\ seen' = [seen EXCEPT ![c] =
                  [id |-> id, wrote |-> {},
                   versions |-> IF id = Undefined THEN {} ELSE {store[id]},
                   steady |-> {i \in Resources : store[i] # Absent}]]
    BY <1>1
  <1>3. PICK id \in Ids \cup {Undefined} :
            /\ IF id = Undefined
               THEN op = "list" \/ (op = "create" /\ NamedByServer(kind))
               ELSE op # "list" /\ (op = "create" => NamedByCaller(kind))
            /\ call' = [call EXCEPT ![c] = Called([NoCall EXCEPT !.op = op, !.id = id,
                                                                 !.options = o])]
            /\ seen' = [seen EXCEPT ![c] =
                  [id |-> id, wrote |-> {},
                   versions |-> IF id = Undefined THEN {} ELSE {store[id]},
                   steady |-> {i \in Resources : store[i] # Absent}]]
    BY <1>2
  <1> DEFINE r == [NoCall EXCEPT !.op = op, !.id = id, !.options = o]
             k == Called(r)
             s == [id |-> id, wrote |-> {},
                   versions |-> IF id = Undefined THEN {} ELSE {store[id]},
                   steady |-> {i \in Resources : store[i] # Absent}]
  <1>4. /\ DOMAIN r = CallFields /\ r.op = op /\ r.id = id /\ r.options = o /\ r.st = "none"
        /\ r.phase = "idle" /\ r.attempts = 0 /\ r.result = Absent /\ r.error = "none"
        /\ r.visited = {} /\ r.listed = {}
    BY DEF NoCall, CallFields
  <1>5. kind \in Kinds /\ UNCHANGED <<kind, store>>
    BY DEF TellsInv, Call
  <1>6. op \in WriteOps \cup {"delete", "get", "list"}
    BY <1>5 DEF OpsOf, Kinds, WriteOps
  <1>7. Formed(k, s) /\ k.id = id /\ k.op = op /\ k.result = Absent
    <2>1. k.attempts \in 0..MaxAttempts
      BY <1>4, BoundsAssumption DEF Called, Sent, SettleError, CallFields
    <2>2. /\ DOMAIN k = CallFields /\ k.phase \in {"write", "read", "list", "failed"}
          /\ k.id = id /\ k.op = op /\ k.result = Absent
      BY <1>4 DEF Called, Sent, SettleError, CallFields
    <2>3. /\ DOMAIN s = SeenFields
          /\ s.id \in Resources \cup {Undefined} /\ s.wrote \subseteq Resources
          /\ s.versions \subseteq Content \cup {Absent} /\ s.steady \subseteq Resources
      BY DEF SeenFields, Resources, TellsInv, StoreOK
    <2> QED
      BY <2>1, <2>2, <2>3 DEF Formed
  <1>8. /\ k.phase = "read" => k.op = "get" /\ k.error = "none"
        /\ k.phase = "list" <=> k.op = "list"
        /\ k.phase = "list" => k.error = "none"
        /\ k.phase = "write" => /\ k.op \notin {"get", "list"} /\ k.options = o
                                /\ k.error = "none" /\ RequestOf(kind, op, o).valid
        /\ k.phase = "failed" => k.error = "invalid" /\ k.st = "none"
        /\ k.phase # "failed" => k.st = "sent"
        /\ k.phase \in {"write", "read", "list", "failed"}
        /\ k.visited = {} /\ k.listed = {}
    BY <1>4 DEF Called, Sent, SettleError, CallFields
  <1>9. /\ s.id = id /\ s.wrote = {} /\ s.steady = {i \in Resources : store[i] # Absent}
        /\ id # Undefined => s.versions = {store[id]}
    OBVIOUS
  <1>10. Undefined \notin Resources /\ Ids \subseteq Resources
    BY MarksAssumption DEF Resources
  <1> HIDE DEF k, s
  <1>11. Stands(k, s)
    BY <1>3, <1>6, <1>7, <1>8, <1>9, <1>10 DEF Stands
  <1>12. Requested(c, k, s)
    <2>1. op \in OpsOf(kind) /\ o \in Options(c, kind, op)
      BY <1>1, <1>2
    <2> QED
      BY <1>7, <1>8, <1>9, <2>1 DEF Requested, WriteOps
  <1>13. AnswerTells(k, s) /\ ResultTells(k, s)
    BY <1>7, <1>8 DEF AnswerTells, ResultTells
  <1>14. FailureTells(k, s)
    BY <1>5, <1>8, ClientErrors DEF FailureTells
  <1>15. ListTells(k, s)
    BY <1>7, <1>8 DEF ListTells
  <1>16. StoreTells(k, s, store)
    BY <1>9, <1>10 DEF StoreTells
  <1>17. Tells(c, k, s, store)
    BY <1>7, <1>11, <1>12, <1>13, <1>14, <1>15, <1>16 DEF Tells
  <1>18. call' = [call EXCEPT ![c] = k] /\ seen' = [seen EXCEPT ![c] = s]
    BY <1>3 DEF k, s
  <1>19. /\ DOMAIN call' = Clients /\ DOMAIN seen' = Clients
         /\ \A d \in Clients : Tells(d, call'[d], seen'[d], store')
    BY <1>5, <1>17, <1>18 DEF TellsInv, CallsOK
  <1> QED
    BY <1>5, <1>19, StepTells DEF TellsInv, StoreOK

(* The server refuses a write.                                              *)
LEMMA AnsweredTells ==
    ASSUME TellsInv, NEW c \in Clients, NEW e \in {NotFound(kind), Exists(kind)},
           call[c].phase = "write", Answered(c, e), UNCHANGED kind,
           e = NotFound(kind) => call[c].op # "create" /\ store[call[c].id] = Absent
    PROVE  TellsInv'
  <1> DEFINE r == call[c]
             a == [error |-> e, id |-> r.id, resource |-> Absent]
             k == [r EXCEPT !.st = "answered", !.answer = a]
  <1>1. Tells(c, r, seen[c], store) /\ kind \in Kinds
    BY DEF TellsInv, CallsOK
  <1>2. /\ DOMAIN k = CallFields /\ k.st = "answered" /\ k.answer = a
        /\ \A f \in CallFields \ {"st", "answer"} : k[f] = r[f]
    BY <1>1 DEF Tells, Formed, CallFields
  <1>3. call' = [call EXCEPT ![c] = k] /\ UNCHANGED <<kind, store, seen>>
    BY DEF Answered
  <1>4. e = NotFound(kind) => Absent \in seen[c].versions
    BY <1>1, MarksAssumption DEF Tells, Stands, StoreTells, Resources
  <1>5. AnswerTells(k, seen[c]) /\ a.error # "none"
    BY <1>1, <1>2, <1>4, ClientErrors DEF CallFields, AnswerTells
  <1> HIDE DEF k
  <1>6. Tells(c, k, seen[c], store)
    BY <1>1, <1>2, <1>5 DEF CallFields, Tells, Formed, Stands, Requested, ResultTells,
       FailureTells, ListTells, StoreTells
  <1> QED
    BY <1>3, <1>6, OneCall

(* What others write is one more version, and takes what it deletes from    *)
(* what has been there all the time.                                        *)
LEMMA OthersTell ==
    ASSUME NEW d, NEW k, NEW s, NEW st, Tells(d, k, s, st), DOMAIN st = Resources,
           NEW id \in Resources, NEW new \in Content \cup {Absent}
    PROVE  Tells(d, k, [s EXCEPT !.versions = IF s.id = id THEN @ \cup {new} ELSE @,
                                 !.steady = IF new = Absent THEN @ \ {id} ELSE @],
                 [st EXCEPT ![id] = new])
  <1> DEFINE t == [s EXCEPT !.versions = IF s.id = id THEN @ \cup {new} ELSE @,
                            !.steady = IF new = Absent THEN @ \ {id} ELSE @]
             after == [st EXCEPT ![id] = new]
  <1>1. /\ DOMAIN t = SeenFields /\ t.id = s.id /\ t.wrote = s.wrote
        /\ s.versions \subseteq t.versions /\ t.versions \subseteq s.versions \cup {new}
        /\ s.id = id => new \in t.versions
        /\ t.steady = IF new = Absent THEN s.steady \ {id} ELSE s.steady
    BY DEF Tells, Formed, SeenFields
  <1>2. DOMAIN after = Resources /\ \A i \in Resources : after[i] = IF i = id THEN new ELSE st[i]
    OBVIOUS
  <1> HIDE DEF t, after
  <1>3. Formed(k, t) /\ Stands(k, t) /\ Requested(d, k, t)
    BY <1>1 DEF Tells, Formed, Stands, Requested
  <1>4. AnswerTells(k, t) /\ FailureTells(k, t)
    BY <1>1 DEF Tells, AnswerTells, FailureTells
  <1>5. ResultTells(k, t)
    BY <1>1 DEF Tells, ResultTells
  <1>6. ListTells(k, t)
    BY <1>1 DEF Tells, ListTells
  <1>7. StoreTells(k, t, after)
    BY <1>1, <1>2 DEF Tells, Formed, StoreTells
  <1>8. Tells(d, k, t, after)
    BY <1>3, <1>4, <1>5, <1>6, <1>7 DEF Tells
  <1> QED
    BY <1>8 DEF t, after

(* The server carries out a write.                                          *)
LEMMA WrittenTells ==
    ASSUME TellsInv, NEW c \in Clients, NEW id \in Resources, NEW new \in Content \cup {Absent},
           call[c].phase = "write", Written(c, id, new), UNCHANGED kind,
           call[c].id \in {Undefined, id}, call[c].op # "create" => call[c].id = id,
           new = Absent => call[c].op = "delete"
    PROVE  TellsInv'
  <1> DEFINE r == call[c]
             a == [error |-> "none", id |-> id, resource |-> new]
             k == [r EXCEPT !.st = "answered", !.answer = a]
             t == [seen[c] EXCEPT !.id = id, !.wrote = @ \cup {id}, !.versions = {new}]
  <1>1. Tells(c, r, seen[c], store) /\ kind \in Kinds /\ DOMAIN store = Resources
    BY DEF TellsInv, CallsOK, StoreOK
  <1>2. /\ DOMAIN k = CallFields /\ k.st = "answered" /\ k.answer = a
        /\ \A f \in CallFields \ {"st", "answer"} : k[f] = r[f]
    BY <1>1 DEF Tells, Formed, CallFields
  <1>3. /\ DOMAIN t = SeenFields /\ t.id = id /\ t.wrote = seen[c].wrote \cup {id}
        /\ t.versions = {new} /\ t.steady = seen[c].steady
    BY <1>1 DEF Tells, Formed, SeenFields
  <1>4. r.op \in WriteOps \cup {"delete"} /\ r.phase = "write"
    BY <1>1 DEF Tells, Stands
  <1>5. store' = [store EXCEPT ![id] = new] /\ store'[id] = new
    BY <1>1 DEF Written
  <1> HIDE DEF k, t
  <1>6. Formed(k, t)
    BY <1>1, <1>2, <1>3 DEF CallFields, Tells, Formed
  <1>7. Stands(k, t)
    BY <1>1, <1>2, <1>3, <1>4 DEF CallFields, Tells, Stands
  <1>8. Requested(c, k, t)
    BY <1>1, <1>2, <1>3, <1>4 DEF CallFields, Tells, Requested
  <1>9. AnswerTells(k, t)
    BY <1>2, <1>3 DEF CallFields, AnswerTells
  <1>10. ResultTells(k, t) /\ FailureTells(k, t) /\ ListTells(k, t)
    BY <1>1, <1>2, <1>4 DEF CallFields, Tells, Stands, ResultTells, FailureTells, ListTells,
       WriteOps
  <1>11. StoreTells(k, t, store')
    BY <1>2, <1>3, <1>4, <1>5 DEF CallFields, StoreTells, WriteOps
  <1>12. Tells(c, k, t, store')
    BY <1>6, <1>7, <1>8, <1>9, <1>10, <1>11 DEF Tells
  <1>13. call' = [call EXCEPT ![c] = k] /\ seen'[c] = t
    BY DEF Written, k, t
  <1>14. ASSUME NEW d \in Clients, d # c
         PROVE  Tells(d, call'[d], seen'[d], store')
    <2>1. call'[d] = call[d]
      BY <1>13, <1>14 DEF TellsInv, CallsOK
    <2>2. seen'[d] = [seen[d] EXCEPT !.versions = IF seen[d].id = id THEN @ \cup {new} ELSE @,
                                     !.steady = IF new = Absent THEN @ \ {id} ELSE @]
      BY <1>14 DEF Written
    <2>3. Tells(d, call[d], seen[d], store)
      BY DEF TellsInv, CallsOK
    <2>4. Tells(d, call[d],
                [seen[d] EXCEPT !.versions = IF seen[d].id = id THEN @ \cup {new} ELSE @,
                                !.steady = IF new = Absent THEN @ \ {id} ELSE @],
                [store EXCEPT ![id] = new])
      BY <1>1, <2>3, OthersTell
    <2> QED
      BY <1>5, <2>1, <2>2, <2>4
  <1>15. /\ DOMAIN call' = Clients /\ DOMAIN seen' = Clients
         /\ \A d \in Clients : Tells(d, call'[d], seen'[d], store')
    BY <1>12, <1>13, <1>14 DEF TellsInv, CallsOK, Written
  <1>16. /\ DOMAIN store' = Resources
         /\ \A i \in Resources : store'[i] \in Content \cup {Absent}
    BY <1>5 DEF TellsInv, StoreOK
  <1> QED
    BY <1>15, <1>16, StepTells

(* What is sent is exact.                                                   *)
LEMMA SentExact ==
    ASSUME TellsInv, NEW c \in Clients, call[c].phase = "write", call[c].op \in WriteOps
    PROVE  Exact(c, call[c].op, call[c].options,
                 RequestOf(kind, call[c].op, call[c].options))
  BY RequestsExact DEF TellsInv, CallsOK, Tells, Requested

(* A creation or an update of c, by which id becomes new.                   *)
WritesNew(c, id, new) ==
    /\ call[c].op \in WriteOps
    /\ call[c].op # "create" => store[id] # Absent
    /\ \A f \in Fields(kind) :
          new[PathOf(kind, f)] =
              IF Touched(call[c].options, f) THEN Intended(f, call[c].options[f])
              ELSE IF call[c].op = "create" THEN Undefined ELSE store[id][PathOf(kind, f)]

(* The server refuses, deletes, or writes exactly what was asked for.       *)
LEMMA WriteCases ==
    ASSUME TellsInv, NEW c \in Clients, ServerWrites(c)
    PROVE  \/ \E e \in {NotFound(kind), Exists(kind)} :
                /\ Answered(c, e)
                /\ e = NotFound(kind) => call[c].op # "create" /\ store[call[c].id] = Absent
           \/ \E id \in Resources :
                /\ call[c].id \in {Undefined, id} /\ (call[c].op # "create" => call[c].id = id)
                /\ \/ call[c].op = "delete" /\ Written(c, id, Absent)
                   \/ \E new \in Content \ {Absent} :
                         Written(c, id, new) /\ WritesNew(c, id, new)
  <1> DEFINE r == call[c]
             request == RequestOf(kind, r.op, r.options)
  <1>1. kind \in Kinds /\ Tells(c, r, seen[c], store) /\ r.phase = "write"
    BY DEF TellsInv, CallsOK, ServerWrites
  <1>2. \A id \in Resources : store[id] # Absent => store[id] \in Content
    BY DEF TellsInv, StoreOK
  <1>3. r.op \in WriteOps => Exact(c, r.op, r.options, request)
    BY <1>1, SentExact
  <1> HIDE DEF request
  <1>4. /\ Undefined \notin Resources /\ r.id \in {Undefined, seen[c].id}
        /\ seen[c].id \in Resources \cup {Undefined} /\ (r.op # "create" => r.id \in Resources)
    BY <1>1, MarksAssumption DEF Tells, Stands, Formed, Resources
  <1>5. CASE ServerCreates(c)
    <2> DEFINE before == [p \in Paths(kind) |-> Undefined]
               new == Applied(before, request)
    <2>1. r.op = "create" /\ r.op \in WriteOps
      BY <1>5 DEF ServerCreates, WriteOps
    <2>2. before \in Content /\ \A p \in Paths(kind) : before[p] = Undefined
      BY DEF Content, StoredValues
    <2>3. /\ new \in Content \ {Absent}
          /\ \A f \in Fields(kind) :
                new[PathOf(kind, f)] = IF Touched(r.options, f) THEN Intended(f, r.options[f])
                                       ELSE before[PathOf(kind, f)]
      <3> HIDE DEF before
      <3> QED
        BY <1>1, <1>3, <2>1, <2>2, AppliedExact
    <2>4. \/ \E id \in IF r.id = Undefined THEN Spares ELSE {r.id} : Written(c, id, new)
          \/ Answered(c, Exists(kind))
      BY <1>5, <2>1 DEF ServerCreates, request
    <2>5. \A f \in Fields(kind) : before[PathOf(kind, f)] = Undefined
      BY DEF Paths
    <2> HIDE DEF new, before
    <2>6. CASE Answered(c, Exists(kind))
      BY <1>1, <2>6, ClientErrors
    <2>7. ASSUME NEW id \in IF r.id = Undefined THEN Spares ELSE {r.id}, Written(c, id, new)
          PROVE  /\ id \in Resources /\ r.id \in {Undefined, id}
                 /\ Written(c, id, new) /\ WritesNew(c, id, new)
      <3>1. id \in Resources /\ r.id \in {Undefined, id}
        BY <1>4, <2>7 DEF Resources
      <3> QED
        BY <2>1, <2>3, <2>5, <2>7, <3>1 DEF WritesNew
    <2> QED
      BY <2>1, <2>3, <2>4, <2>6, <2>7
  <1>6. CASE ServerUpdates(c)
    <2> DEFINE new == Applied(store[r.id], request)
    <2>1. r.op \in {"update", "claims"} /\ r.op \in WriteOps
      BY <1>6 DEF ServerUpdates, WriteOps
    <2>2. CASE store[r.id] = Absent
      <3>1. Answered(c, NotFound(kind))
        BY <1>6, <2>2 DEF ServerUpdates
      <3> QED
        BY <2>1, <2>2, <3>1
    <2>3. CASE store[r.id] # Absent
      <3>1. r.id \in Resources /\ store[r.id] \in Content
        BY <1>2, <1>4, <2>1, <2>3
      <3>2. Written(c, r.id, new)
        BY <1>6, <2>3 DEF ServerUpdates, request
      <3>3. /\ new \in Content \ {Absent}
            /\ \A f \in Fields(kind) :
                 new[PathOf(kind, f)] = IF Touched(r.options, f) THEN Intended(f, r.options[f])
                                        ELSE store[r.id][PathOf(kind, f)]
        BY <1>1, <1>3, <2>1, <3>1, AppliedExact
      <3> HIDE DEF new
      <3>4. WritesNew(c, r.id, new)
        BY <2>1, <2>3, <3>3 DEF WritesNew
      <3> QED
        BY <3>1, <3>2, <3>3, <3>4
    <2> QED
      BY <2>2, <2>3
  <1>7. CASE ServerDeletes(c)
    <2>1. r.op = "delete" /\ r.id \in Resources
      BY <1>4, <1>7 DEF ServerDeletes
    <2> QED
      BY <1>7, <2>1 DEF ServerDeletes
  <1> QED
    BY <1>5, <1>6, <1>7 DEF ServerWrites

LEMMA WritesTells ==
    ASSUME TellsInv, NEW c \in Clients, ServerWrites(c)
    PROVE  TellsInv'
  <1>1. call[c].phase = "write" /\ UNCHANGED kind
    BY DEF ServerWrites
  <1>2. ASSUME NEW e \in {NotFound(kind), Exists(kind)}, Answered(c, e),
               e = NotFound(kind) => call[c].op # "create" /\ store[call[c].id] = Absent
        PROVE  TellsInv'
    BY <1>1, <1>2, AnsweredTells
  <1>3. ASSUME NEW id \in Resources, NEW new \in Content \cup {Absent},
               call[c].id \in {Undefined, id}, call[c].op # "create" => call[c].id = id,
               Written(c, id, new), new = Absent => call[c].op = "delete"
        PROVE  TellsInv'
    BY <1>1, <1>3, WrittenTells
  <1> QED
    BY <1>2, <1>3, WriteCases

(* A call that settles with a result, or with none.                         *)
LEMMA SettledTells ==
    ASSUME NEW c, NEW r, NEW s, NEW st, Tells(c, r, s, st), r.st = "answered",
           r.answer.error = "none", r.phase \in {"write", "read"}, NEW result,
           result = Absent \/ result \in {Parse(kind, v) : v \in s.versions \ {Absent}}
    PROVE  Tells(c, SettleOk(r, result), s, st)
  <1> DEFINE k == SettleOk(r, result)
  <1>1. /\ DOMAIN k = CallFields /\ k.st = "none" /\ k.phase = "ok" /\ k.result = result
        /\ \A f \in CallFields \ {"st", "phase", "answer", "result"} : k[f] = r[f]
    BY DEF Tells, Formed, CallFields, SettleOk
  <1>2. r.op # "list"
    BY DEF Tells, Stands
  <1> HIDE DEF k
  <1>3. Formed(k, s) /\ Stands(k, s)
    BY <1>1, <1>2 DEF CallFields, Tells, Formed, Stands
  <1>4. Requested(c, k, s)
    BY <1>1 DEF CallFields, Tells, Requested
  <1>5. /\ AnswerTells(k, s) /\ ResultTells(k, s) /\ FailureTells(k, s) /\ ListTells(k, s)
        /\ StoreTells(k, s, st)
    BY <1>1, <1>2 DEF CallFields, Tells, AnswerTells, ResultTells, FailureTells, ListTells,
       StoreTells
  <1>6. Tells(c, k, s, st)
    BY <1>3, <1>4, <1>5 DEF Tells
  <1> QED
    BY <1>6 DEF k

(* A user that was written is read.                                         *)
LEMMA GetUserTells ==
    ASSUME BoundsAssumption, NEW c, NEW r, NEW s, NEW st, Tells(c, r, s, st), r.st = "answered",
           r.answer.error = "none", ReadsBack(r)
    PROVE  Tells(c, GetUser(r), s, st)
  <1> DEFINE k == GetUser(r)
  <1>1. /\ DOMAIN k = CallFields /\ k.st = "sent" /\ k.phase = "read" /\ k.attempts = 1
        /\ k.id = r.answer.id
        /\ \A f \in CallFields \ {"st", "phase", "answer", "attempts", "id"} : k[f] = r[f]
    <2> DEFINE m == [r EXCEPT !.phase = "read", !.id = r.answer.id, !.answer = Absent,
                              !.attempts = 0]
    <2>1. /\ DOMAIN m = CallFields /\ m.phase = "read" /\ m.id = r.answer.id /\ m.attempts = 0
          /\ \A f \in CallFields \ {"phase", "id", "answer", "attempts"} : m[f] = r[f]
      BY DEF Tells, Formed, CallFields
    <2>2. k = [m EXCEPT !.st = "sent", !.attempts = @ + 1]
      BY DEF GetUser, Sent
    <2> HIDE DEF m, k
    <2>3. {"st", "attempts"} \subseteq CallFields
      BY DEF CallFields
    <2>4. DOMAIN k = CallFields /\ k.st = "sent" /\ k.attempts = 1
      BY <2>1, <2>2, <2>3
    <2>5. \A f \in CallFields \ {"st", "attempts"} : k[f] = m[f]
      BY <2>1, <2>2
    <2>6. "phase" \in CallFields /\ "id" \in CallFields
      BY DEF CallFields
    <2> QED
      BY <2>1, <2>4, <2>5, <2>6
  <1>2. /\ kind = "user" /\ r.phase = "write" /\ r.op \in {"create", "update"}
        /\ r.answer.id = s.id /\ s.id \in Resources
    BY DEF Tells, ReadsBack, AnswerTells
  <1> HIDE DEF k
  <1>3. Formed(k, s) /\ Stands(k, s)
    BY <1>1, <1>2, BoundsAssumption DEF CallFields, Tells, Formed, Stands
  <1>4. Requested(c, k, s)
    BY <1>1, <1>2 DEF CallFields, Tells, Requested, WriteOps
  <1>5. /\ AnswerTells(k, s) /\ ResultTells(k, s) /\ FailureTells(k, s) /\ ListTells(k, s)
        /\ StoreTells(k, s, st)
    BY <1>1, <1>2 DEF CallFields, Tells, Stands, AnswerTells, ResultTells, FailureTells,
       ListTells, StoreTells
  <1>6. Tells(c, k, s, st)
    BY <1>3, <1>4, <1>5 DEF Tells
  <1> QED
    BY <1>6 DEF k

(* A page is taken over, and the next one listed or none.                   *)
LEMMA NextPageTells ==
    ASSUME BoundsAssumption, NEW c, NEW r, NEW s, NEW st, Tells(c, r, s, st),
           r.st = "answered", r.op = "list"
    PROVE  Tells(c, NextPage(r), s, st)
  <1> DEFINE k == NextPage(r)
             last == ~NextPageToken(r.answer)
  <1>1. /\ DOMAIN k = CallFields /\ k.st # "answered"
        /\ k.phase = IF last THEN "ok" ELSE r.phase
        /\ k.attempts \in {0, 1} /\ (last => k.st = "none")
        /\ k.visited = r.visited \cup r.answer.window /\ k.listed = r.listed \cup r.answer.page
        /\ k.op = "list" /\ k.id = r.id /\ k.error = r.error
        /\ k.result = IF last THEN Absent ELSE r.result
    BY DEF Tells, Formed, CallFields, NextPage, Sent, SettleOk
  <1>2. /\ r.phase = "list" /\ s.steady \cap r.visited \subseteq r.listed
        /\ s.steady \cap r.answer.window \subseteq r.answer.page /\ s.steady \subseteq Resources
        /\ ~r.answer.nextPageToken => Resources = r.visited \cup r.answer.window
        /\ kind # "user" /\ r.answer.nextPageToken => r.answer.page # {}
    BY DEF Tells, Formed, Stands, ListTells
  <1>3. last => Resources = r.visited \cup r.answer.window
    BY <1>2 DEF NextPageToken
  <1> HIDE DEF k, last
  <1>4. Formed(k, s) /\ Stands(k, s)
    BY <1>1, <1>2, BoundsAssumption DEF CallFields, Tells, Formed, Stands
  <1>5. ListTells(k, s)
    BY <1>1, <1>2, <1>3 DEF ListTells
  <1>6. /\ Requested(c, k, s) /\ AnswerTells(k, s) /\ ResultTells(k, s) /\ FailureTells(k, s)
        /\ StoreTells(k, s, st)
    BY <1>1, <1>2 DEF Tells, Stands, Requested, WriteOps, AnswerTells, ResultTells,
       FailureTells, StoreTells
  <1>7. Tells(c, k, s, st)
    BY <1>4, <1>5, <1>6 DEF Tells
  <1> QED
    BY <1>7 DEF k

LEMMA ArrivesTells ==
    ASSUME TellsInv, NEW c \in Clients, Arrives(c)
    PROVE  TellsInv'
  <1> DEFINE r == call[c]
             k == IF r.answer.error # "none" THEN SettleError(r, ErrorOf(r))
                  ELSE IF r.op = "list" THEN NextPage(r)
                  ELSE IF ReadsBack(r) THEN GetUser(r)
                  ELSE IF ResolvesEmpty(r) THEN SettleOk(r, Absent)
                  ELSE SettleOk(r, Parse(kind, r.answer.resource))
  <1>1. /\ call' = [call EXCEPT ![c] = k] /\ UNCHANGED <<kind, store, seen>>
        /\ r.st = "answered"
    BY DEF Arrives
  <1>2. Tells(c, r, seen[c], store) /\ kind \in Kinds
    BY DEF TellsInv, CallsOK
  <1>3. r.phase \in {"write", "read", "list"} /\ (r.phase = "list" <=> r.op = "list")
    BY <1>1, <1>2 DEF Tells, Formed, Stands
  <1>4. CASE r.answer.error # "none"
    <2>1. r.phase \in {"write", "read"}
      BY <1>1, <1>2, <1>3, <1>4 DEF Tells, ListTells
    <2>2. /\ r.answer.error \in {NotFound(kind), Exists(kind)}
          /\ r.answer.error = NotFound(kind) =>
                 Absent \in seen[c].versions /\ (r.op = "create" => r.phase = "read")
      BY <1>1, <1>2, <1>4, <2>1 DEF Tells, AnswerTells
    <2>3. r.op = "create" /\ r.phase = "read" => kind = "user"
      BY <1>2 DEF Tells, Stands
    <2>4. kind = "user" => NotFound(kind) = "USER_NOT_FOUND"
      BY DEF NotFound
    <2>5. /\ ErrorOf(r) \notin {"none", "invalid"}
          /\ ErrorOf(r) = NotFound(kind) => r.op # "create" /\ Absent \in seen[c].versions
      BY <1>2, <2>2, <2>3, <2>4, ClientErrors DEF ErrorOf
    <2> QED
      BY <1>1, <1>2, <1>4, <2>5, FailedTells, OneCall
  <1>5. CASE r.answer.error = "none"
    <2>1. CASE r.op = "list"
      BY <1>1, <1>2, <1>5, <2>1, NextPageTells, OneCall, BoundsAssumption
    <2>2. CASE r.op # "list" /\ ReadsBack(r)
      BY <1>1, <1>2, <1>5, <2>2, GetUserTells, OneCall, BoundsAssumption
    <2>3. CASE r.op # "list" /\ ~ReadsBack(r)
      <3> DEFINE result == IF ResolvesEmpty(r) THEN Absent ELSE Parse(kind, r.answer.resource)
      <3>1. k = SettleOk(r, result)
        BY <1>5, <2>3
      <3>2. r.op = "delete" => ResolvesEmpty(r)
        BY DEF ResolvesEmpty
      <3>3. result = Absent \/ result \in {Parse(kind, v) : v \in seen[c].versions \ {Absent}}
        BY <1>1, <1>2, <1>3, <1>5, <2>3, <3>2 DEF Tells, AnswerTells
      <3> HIDE DEF result, k
      <3>4. Tells(c, k, seen[c], store)
        BY <1>1, <1>2, <1>3, <1>5, <2>3, <3>1, <3>3, SettledTells
      <3> QED
        BY <1>1, <3>4, OneCall
    <2> QED
      BY <2>1, <2>2, <2>3
  <1> QED
    BY <1>4, <1>5

LEMMA NextTells == TellsInv /\ [Next]_vars => TellsInv'
  <1> SUFFICES ASSUME TellsInv, [Next]_vars PROVE TellsInv'
    OBVIOUS
  <1>1. CASE UNCHANGED vars
    <2>1. UNCHANGED <<kind, store, call, seen>>
      BY <1>1 DEF vars
    <2> QED
      BY <2>1, StepTells DEF TellsInv, StoreOK, CallsOK
  <1>2. CASE Next
    BY <1>2, CallTells, WritesTells, ReadsTells, ListsTells, LostTells, FailsTells,
       ArrivesTells DEF Next
  <1> QED
    BY <1>1, <1>2

LEMMA TellsCorrect == Spec => []TellsInv
  <1>1. Init => TellsInv
    BY InitTells
  <1>2. TellsInv /\ [Next]_vars => TellsInv'
    BY NextTells
  <1> QED
    BY <1>1, <1>2, PTL DEF Spec

-----------------------------------------------------------------------------
(* A call that createUser(), updateUser() or any other operation fulfils    *)
(* returns a version at least as new as its own write.                      *)
THEOREM OwnWriteReturnedCorrect == Spec => []OwnWriteReturned
  <1>1. TellsInv => OwnWriteReturned
    BY DEF TellsInv, CallsOK, Tells, ResultTells, OwnWriteReturned
  <1> QED
    BY <1>1, TellsCorrect, PTL

(* A resource that an error says is not there was not there at some time    *)
(* since the call or its write, and no creation fails like that.            *)
THEOREM NotFoundIsTruthfulCorrect == Spec => []NotFoundIsTruthful
  <1>1. TellsInv => NotFoundIsTruthful
    BY DEF TellsInv, CallsOK, Tells, FailureTells, NotFoundIsTruthful
  <1> QED
    BY <1>1, TellsCorrect, PTL

(* A listing that has come to its end has met every resource that existed   *)
(* throughout: no page token is lost before.                                *)
THEOREM ListingCompleteCorrect == Spec => []ListingComplete
  <1>1. TellsInv => ListingComplete
    BY DEF TellsInv, CallsOK, Tells, ListTells, ListingComplete
  <1> QED
    BY <1>1, TellsCorrect, PTL

(* Resources never hold what the validators refuse, a refused call has sent *)
(* nothing, and what calls return has the form of their kind.               *)
THEOREM AdminTypeCorrect == Spec => []AdminTypeOK
  <1>1. TellsInv => AdminTypeOK
    <2> SUFFICES ASSUME TellsInv PROVE AdminTypeOK
      OBVIOUS
    <2>1. kind \in Kinds /\ \A id \in Resources : store[id] \in Content \cup {Absent}
      BY DEF TellsInv, StoreOK
    <2>2. ASSUME NEW c \in Clients, call[c].result # Absent
          PROVE  call[c].result \in [Fields(kind) -> StoredValues]
      <3>1. /\ call[c].result \in {Parse(kind, r) : r \in seen[c].versions \ {Absent}}
            /\ seen[c].versions \ {Absent} \subseteq Content
        BY <2>2 DEF TellsInv, CallsOK, Tells, Formed, ResultTells
      <3> QED
        BY <2>1, <3>1, ParsedForm
    <2>3. \A c \in Clients :
             /\ call[c].phase \in {"idle", "write", "read", "list", "ok", "failed"}
             /\ call[c].attempts \in 0..MaxAttempts
             /\ call[c].error = "invalid" => seen[c].wrote = {}
      BY DEF TellsInv, CallsOK, Tells, Formed, Stands
    <2> QED
      BY <2>1, <2>2, <2>3 DEF AdminTypeOK, Content
  <1> QED
    BY <1>1, TellsCorrect, PTL

-----------------------------------------------------------------------------
(* Where the values of a resource come from: what was there at first, what  *)
(* a call that has written the resource named, or what a creation left out. *)
Origin(id, f, v) ==
    \/ v = Initial
    \/ \E c \in Clients :
          /\ id \in seen[c].wrote
          /\ \/ Touches(c, f) /\ v = Intended(f, call[c].options[f])
             \/ call[c].op = "create" /\ v = Undefined

(* What a call has written stays until another call writes it, whether the  *)
(* call knows already that it has been carried out or not.                  *)
Stays(c, f) ==
    /\ seen[c].id \in seen[c].wrote /\ Touches(c, f) /\ ~Overwritten(c, f)
    /\ store[seen[c].id] # Absent
    => store[seen[c].id][PathOf(kind, f)] = Intended(f, call[c].options[f])

ExactInv ==
    /\ \A id \in Resources, f \in Fields(kind) :
          store[id] # Absent => Origin(id, f, store[id][PathOf(kind, f)])
    /\ \A c \in Clients, f \in Fields(kind) : Stays(c, f)

(* What a call has named depends on its operation and options.              *)
LEMMA SameTouches ==
    ASSUME kind' = kind, NEW c \in Clients, call'[c].op = call[c].op,
           call'[c].options = call[c].options, NEW f
    PROVE  /\ Touches(c, f)' <=> Touches(c, f)
           /\ Intended(f, call[c].options[f])' = Intended(f, call[c].options[f])
  BY DEF Touches, Touched, Named, Unasked, Dropped, Intended

(* A step that writes nothing, and begins no call anew that has written.    *)
LEMMA ExactKept ==
    ASSUME ExactInv, UNCHANGED <<kind, store>>,
           \A d \in Clients :
              /\ seen'[d].wrote = seen[d].wrote
              /\ seen[d].wrote # {} => /\ seen'[d].id = seen[d].id
                                       /\ call'[d].op = call[d].op
                                       /\ call'[d].options = call[d].options
    PROVE  ExactInv'
  <1>1. ASSUME NEW id, NEW f, NEW v, Origin(id, f, v)
        PROVE  Origin(id, f, v)'
    <2>1. CASE v = Initial
      BY <2>1 DEF Origin
    <2>2. ASSUME NEW c \in Clients, id \in seen[c].wrote,
                 \/ Touches(c, f) /\ v = Intended(f, call[c].options[f])
                 \/ call[c].op = "create" /\ v = Undefined
          PROVE  Origin(id, f, v)'
      <3>1. id \in seen'[c].wrote /\ call'[c].op = call[c].op
        BY <2>2
      <3>2. /\ Touches(c, f)' <=> Touches(c, f)
            /\ Intended(f, call[c].options[f])' = Intended(f, call[c].options[f])
        BY <2>2, SameTouches
      <3> QED
        BY <2>2, <3>1, <3>2 DEF Origin
    <2> QED
      BY <1>1, <2>1, <2>2 DEF Origin
  <1>2. ASSUME NEW c \in Clients, NEW f, Stays(c, f)
        PROVE  Stays(c, f)'
    <2> SUFFICES ASSUME seen[c].id' \in seen[c].wrote', Touches(c, f)', ~Overwritten(c, f)',
                        store[seen[c].id]' # Absent
                 PROVE  store[seen[c].id][PathOf(kind, f)]' = Intended(f, call[c].options[f])'
      BY DEF Stays
    <2>1. /\ seen'[c].wrote = seen[c].wrote /\ seen'[c].id = seen[c].id
          /\ call'[c].op = call[c].op /\ call'[c].options = call[c].options
      OBVIOUS
    <2>2. /\ Touches(c, f)
          /\ Intended(f, call[c].options[f])' = Intended(f, call[c].options[f])
      BY <2>1, SameTouches
    <2>3. ASSUME NEW d \in Clients \ {c}, seen[c].id \in seen[d].wrote,
                 call[d].op \in {"create", "delete"} \/ Touches(d, f)
          PROVE  FALSE
      <3>1. /\ seen'[d].wrote = seen[d].wrote
            /\ call'[d].op = call[d].op /\ call'[d].options = call[d].options
        BY <2>3
      <3>2. Touches(d, f)' <=> Touches(d, f)
        BY <3>1, SameTouches
      <3> QED
        BY <2>1, <2>3, <3>1, <3>2 DEF Overwritten
    <2>4. ~Overwritten(c, f)
      BY <2>3 DEF Overwritten
    <2> QED
      BY <1>2, <2>1, <2>2, <2>4 DEF Stays
  <1> QED
    BY <1>1, <1>2 DEF ExactInv

(* A creation, an update or a deletion is carried out.                      *)
LEMMA ExactWritten ==
    ASSUME TellsInv, ExactInv, NEW c \in Clients, NEW id \in Resources,
           NEW new \in Content \cup {Absent}, Written(c, id, new), UNCHANGED kind,
           \/ new = Absent /\ call[c].op = "delete"
           \/ new # Absent /\ WritesNew(c, id, new)
    PROVE  ExactInv'
  <1>1. /\ \A d \in Clients : /\ call'[d].op = call[d].op
                              /\ call'[d].options = call[d].options
        /\ \A d \in Clients \ {c} : seen'[d].wrote = seen[d].wrote /\ seen'[d].id = seen[d].id
        /\ seen'[c].wrote = seen[c].wrote \cup {id} /\ seen'[c].id = id
        /\ \A i \in Resources : store'[i] = IF i = id THEN new ELSE store[i]
    <2>1. \A d \in Clients : DOMAIN call[d] = CallFields /\ DOMAIN seen[d] = SeenFields
      BY DEF TellsInv, CallsOK, Tells, Formed
    <2>2. /\ DOMAIN call = Clients /\ DOMAIN seen = Clients /\ DOMAIN store = Resources
          /\ {"op", "options", "st", "answer"} \subseteq CallFields
          /\ SeenFields = {"id", "wrote", "versions", "steady"}
      BY DEF TellsInv, CallsOK, StoreOK, CallFields, SeenFields
    <2> QED
      BY <2>1, <2>2 DEF Written
  <1>2. \A d \in Clients : seen[d].wrote \subseteq seen'[d].wrote
    BY <1>1
  <1>3. ASSUME NEW d \in Clients, NEW f
        PROVE  /\ Touches(d, f)' <=> Touches(d, f)
               /\ Intended(f, call[d].options[f])' = Intended(f, call[d].options[f])
    BY <1>1, SameTouches
  <1>4. ASSUME NEW i, NEW f, NEW v, Origin(i, f, v)
        PROVE  Origin(i, f, v)'
    BY <1>1, <1>2, <1>3, <1>4 DEF Origin
  <1>5. new # Absent => /\ call[c].op \in WriteOps
                        /\ \A f \in Fields(kind) :
                              new[PathOf(kind, f)] =
                                 IF Touches(c, f) THEN Intended(f, call[c].options[f])
                                 ELSE IF call[c].op = "create" THEN Undefined
                                      ELSE store[id][PathOf(kind, f)]
                        /\ call[c].op # "create" => store[id] # Absent
    BY DEF WritesNew, WriteOps, Touches, IsWrite
  <1>6. ASSUME NEW i \in Resources, NEW f \in Fields(kind), store'[i] # Absent
        PROVE  Origin(i, f, store[i][PathOf(kind, f)])'
    <2>1. CASE i # id
      BY <1>1, <1>4, <1>6, <2>1 DEF ExactInv
    <2>2. CASE i = id /\ Touches(c, f)
      BY <1>1, <1>3, <1>5, <1>6, <2>2 DEF Origin
    <2>3. CASE i = id /\ ~Touches(c, f) /\ call[c].op = "create"
      BY <1>1, <1>5, <1>6, <2>3 DEF Origin
    <2>4. CASE i = id /\ ~Touches(c, f) /\ call[c].op # "create"
      BY <1>1, <1>4, <1>5, <1>6, <2>4 DEF ExactInv
    <2> QED
      BY <2>1, <2>2, <2>3, <2>4
  <1>7. ASSUME NEW d \in Clients, NEW f \in Fields(kind)
        PROVE  Stays(d, f)'
    <2> SUFFICES ASSUME seen'[d].id \in seen'[d].wrote, Touches(d, f)', ~Overwritten(d, f)',
                        store'[seen'[d].id] # Absent
                 PROVE  store'[seen'[d].id][PathOf(kind, f)] = Intended(f, call[d].options[f])'
      BY DEF Stays
    <2>1. CASE d = c
      BY <1>1, <1>3, <1>5, <2>1
    <2>2. CASE d # c /\ seen[d].id # id
      <3>1. ~Overwritten(d, f)
        BY <1>1, <1>2, <1>3, <2>2 DEF Overwritten
      <3>2. Stays(d, f) /\ seen[d].id \in Resources
        BY <1>1, <2>2 DEF ExactInv, TellsInv, CallsOK, Tells, Formed
      <3> QED
        BY <1>1, <1>3, <2>2, <3>1, <3>2 DEF Stays
    <2>3. CASE d # c /\ seen[d].id = id
      <3>1. ~Overwritten(d, f)
        BY <1>1, <1>2, <1>3, <2>3 DEF Overwritten
      <3>2. call[c].op # "create" /\ call[c].op # "delete" /\ ~Touches(c, f)
        BY <1>1, <1>3, <2>3 DEF Overwritten
      <3>3. Stays(d, f)
        BY DEF ExactInv
      <3> QED
        BY <1>1, <1>3, <1>5, <2>3, <3>1, <3>2, <3>3 DEF Stays
    <2> QED
      BY <2>1, <2>2, <2>3
  <1>8. /\ \A i \in Resources, f \in Fields(kind)' :
              store[i]' # Absent => Origin(i, f, store[i][PathOf(kind, f)])'
        /\ \A d \in Clients, f \in Fields(kind)' : Stays(d, f)'
    BY <1>6, <1>7
  <1> QED
    BY <1>8 DEF ExactInv

(* The other steps leave the operation and the options of a call alone, and *)
(* a call that begins has not written.                                      *)
LEMMA CallKeeps ==
    ASSUME TellsInv, ExactInv, NEW c \in Clients, Call(c)
    PROVE  ExactInv'
  <1>1. /\ seen[c].wrote = {} /\ UNCHANGED <<kind, store>>
        /\ DOMAIN seen = Clients /\ DOMAIN call = Clients
    BY DEF TellsInv, CallsOK, Tells, Stands, Call
  <1>2. /\ seen'[c].wrote = {}
        /\ \A d \in Clients \ {c} : seen'[d] = seen[d] /\ call'[d] = call[d]
    BY <1>1 DEF Call
  <1> QED
    BY <1>1, <1>2, ExactKept

LEMMA OtherStepsKeep ==
    ASSUME TellsInv, ExactInv, NEW c \in Clients, NEW k,
           call' = [call EXCEPT ![c] = k], UNCHANGED <<kind, store, seen>>,
           k.op = call[c].op, k.options = call[c].options
    PROVE  ExactInv'
  BY ExactKept DEF TellsInv, CallsOK

LEMMA StepsKeep ==
    ASSUME TellsInv, NEW c \in Clients, UNCHANGED kind,
           \/ \E e : Answered(c, e)
           \/ ServerReads(c) \/ ServerLists(c)
           \/ AnswerLost(c) \/ RequestFails(c) \/ Arrives(c)
    PROVE  /\ UNCHANGED <<store, seen>>
           /\ \E k : /\ call' = [call EXCEPT ![c] = k]
                     /\ k.op = call[c].op /\ k.options = call[c].options
  <1> DEFINE r == call[c]
  <1>1. DOMAIN r = CallFields /\ {"op", "options"} \subseteq CallFields
    BY DEF TellsInv, CallsOK, Tells, Formed, CallFields
  <1>2. ASSUME NEW a, call' = [call EXCEPT ![c].st = "answered", ![c].answer = a]
        PROVE  \E k : /\ call' = [call EXCEPT ![c] = k]
                      /\ k.op = call[c].op /\ k.options = call[c].options
    <2> DEFINE k == [r EXCEPT !.st = "answered", !.answer = a]
    <2>1. call' = [call EXCEPT ![c] = k]
      BY <1>2
    <2>2. k.op = r.op /\ k.options = r.options
      BY <1>1
    <2> QED
      BY <2>1, <2>2
  <1>3. ASSUME NEW e, Answered(c, e)
        PROVE  /\ UNCHANGED <<store, seen>>
               /\ \E k : /\ call' = [call EXCEPT ![c] = k]
                         /\ k.op = call[c].op /\ k.options = call[c].options
    BY <1>2, <1>3 DEF Answered
  <1>4. CASE ServerReads(c)
    BY <1>2, <1>4 DEF ServerReads
  <1>5. CASE ServerLists(c)
    BY <1>2, <1>5 DEF ServerLists
  <1>6. CASE AnswerLost(c)
    <2> DEFINE k == Sent([r EXCEPT !.answer = Absent])
    <2>1. k.op = r.op /\ k.options = r.options
      BY <1>1 DEF Sent
    <2> QED
      BY <1>6, <2>1 DEF AnswerLost
  <1>7. CASE RequestFails(c)
    <2> DEFINE k == SettleError(r, "network")
    <2>1. k.op = r.op /\ k.options = r.options
      BY <1>1 DEF SettleError
    <2> QED
      BY <1>7, <2>1 DEF RequestFails
  <1>8. CASE Arrives(c)
    <2> DEFINE k == IF r.answer.error # "none" THEN SettleError(r, ErrorOf(r))
                    ELSE IF r.op = "list" THEN NextPage(r)
                    ELSE IF ReadsBack(r) THEN GetUser(r)
                    ELSE IF ResolvesEmpty(r) THEN SettleOk(r, Absent)
                    ELSE SettleOk(r, Parse(kind, r.answer.resource))
    <2>1. \A e : /\ SettleError(r, e).op = r.op /\ SettleError(r, e).options = r.options
                 /\ SettleOk(r, e).op = r.op /\ SettleOk(r, e).options = r.options
      BY <1>1 DEF SettleError, SettleOk
    <2>2. NextPage(r).op = r.op /\ NextPage(r).options = r.options
      BY <1>1 DEF NextPage, Sent, SettleOk
    <2>3. GetUser(r).op = r.op /\ GetUser(r).options = r.options
      BY <1>1 DEF GetUser, Sent
    <2>4. k.op = r.op /\ k.options = r.options
      BY <2>1, <2>2, <2>3
    <2>5. call' = [call EXCEPT ![c] = k] /\ UNCHANGED <<store, seen>>
      BY <1>8 DEF Arrives
    <2> QED
      BY <2>4, <2>5
  <1> QED
    BY <1>3, <1>4, <1>5, <1>6, <1>7, <1>8

LEMMA NextExact == TellsInv /\ ExactInv /\ [Next]_vars => ExactInv'
  <1> SUFFICES ASSUME TellsInv, ExactInv, [Next]_vars PROVE ExactInv'
    OBVIOUS
  <1>1. CASE UNCHANGED vars
    BY <1>1, ExactKept DEF vars
  <1>2. ASSUME NEW c \in Clients, Call(c)
        PROVE  ExactInv'
    BY <1>2, CallKeeps
  <1>3. ASSUME NEW c \in Clients, UNCHANGED kind,
               \/ \E e : Answered(c, e)
               \/ ServerReads(c) \/ ServerLists(c)
               \/ AnswerLost(c) \/ RequestFails(c) \/ Arrives(c)
        PROVE  ExactInv'
    BY <1>3, StepsKeep, OtherStepsKeep
  <1>4. ASSUME NEW c \in Clients, ServerWrites(c)
        PROVE  ExactInv'
    <2>1. UNCHANGED kind
      BY <1>4 DEF ServerWrites
    <2>2. ASSUME NEW id \in Resources, NEW new \in Content \cup {Absent}, Written(c, id, new),
                 \/ new = Absent /\ call[c].op = "delete"
                 \/ new # Absent /\ WritesNew(c, id, new)
          PROVE  ExactInv'
      BY <2>1, <2>2, ExactWritten
    <2> QED
      BY <1>3, <1>4, <2>1, <2>2, WriteCases
  <1>5. ASSUME NEW c \in Clients,
               ServerReads(c) \/ ServerLists(c) \/ AnswerLost(c) \/ RequestFails(c) \/ Arrives(c)
        PROVE  UNCHANGED kind
    BY <1>5 DEF ServerReads, ServerLists, AnswerLost, RequestFails, Arrives
  <1> QED
    BY <1>1, <1>2, <1>3, <1>4, <1>5 DEF Next

LEMMA InitExact == Init => ExactInv
  <1> SUFFICES ASSUME Init PROVE ExactInv
    OBVIOUS
  <1>1. store \in [Resources -> {Absent, [p \in Paths(kind) |-> Initial]}]
    BY DEF Init, Resources
  <1>2. \A c \in Clients : seen[c].wrote = {}
    BY DEF Init, Nothing
  <1>3. \A id \in Resources, f \in Fields(kind) :
           store[id] # Absent => store[id][PathOf(kind, f)] = Initial
    BY <1>1 DEF Paths
  <1> QED
    BY <1>2, <1>3 DEF ExactInv, Origin, Stays

(* Every value of a resource was there at first or was touched by a call    *)
(* that wrote it (or left out by a creation), and what a fulfilled call     *)
(* touched is there unless another call wrote it: but for what Unasked      *)
(* lists, update masks, deletions and retries touch no field that the       *)
(* options do not name, for all options and all interleavings.              *)
THEOREM UpdatesAreExactCorrect == Spec => []UpdatesAreExact
  <1>1. Init => ExactInv
    BY InitExact
  <1>2. TellsInv /\ ExactInv /\ [Next]_vars => ExactInv'
    BY NextExact
  <1>3. TellsInv /\ ExactInv => UpdatesAreExact
    <2> SUFFICES ASSUME TellsInv, ExactInv PROVE UpdatesAreExact
      OBVIOUS
    <2>1. ASSUME NEW c \in Clients, NEW f, call[c].phase = "ok", Touches(c, f)
          PROVE  seen[c].id \in seen[c].wrote
      BY <2>1 DEF TellsInv, CallsOK, Tells, Requested, Touches, IsWrite, WriteOps
    <2> QED
      BY <2>1 DEF ExactInv, Origin, Stays, UpdatesAreExact
  <1> QED
    BY <1>1, <1>2, <1>3, TellsCorrect, PTL DEF Spec
=============================================================================
