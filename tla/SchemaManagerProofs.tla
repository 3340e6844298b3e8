--------------------------- MODULE SchemaManagerProofs ---------------------------
(***************************************************************************)
(* Which resolvers a server ends up with, for every schema and all         *)
(* resolver maps: those of a type before those of its interfaces before    *)
(* the default, all of them within the error handler.                      *)
(***************************************************************************)
EXTENDS SchemaManager, WellFoundedInduction, TLAPS

map == mergeResolvers

FieldTypes == OfKind(Schema, {"object", "interface"})

Length(t) == Len(Interfaces(Schema, t))

Phases == {"default", "inherit", "explicit", "handle", "sdl", "done", "failed"}

SetTyped == DOMAIN set = Places /\ phase \in Phases

(* The types that are left, and the last interfaces of the type under way.       *)
RestIsLeft ==
  /\ rest \in Seq(Names(Schema))
  /\ phase \in {"inherit", "explicit"} => todo \subseteq DOMAIN map
  /\ rest # <<>> =>
       /\ phase \in {"inherit", "failed"}
       /\ current \in FieldTypes \cap DOMAIN map
       /\ current \notin todo
       /\ Len(rest) <= Length(current)
       /\ \A k \in 1..Len(rest) :
            rest[k] = Interfaces(Schema, current)[Length(current) - Len(rest) + k]

--------------------------------------------------------------------------------
(* Where the resolver of a field comes from *)

\* From the first n interfaces, or the default
Before(t, f, n) == {k \in Givers(t, f) : k <= n}

Inherited(t, f, n) ==
  IF Before(t, f, n) = {} THEN Default(t)
  ELSE map[Interfaces(Schema, t)[Max(Before(t, f, n))]].of[f]

\* The interfaces that a type, begun with, has gone through
Passed(t) == IF rest # <<>> /\ t = current THEN Length(t) - Len(rest) ELSE Length(t)

InheritedAll(t, f) == IF t \in DOMAIN map THEN Inherited(t, f, Length(t)) ELSE Default(t)

Own(t, f) ==
  IF t \in DOMAIN map /\ f \in DOMAIN map[t].of THEN map[t].of[f] ELSE InheritedAll(t, f)

Unset(t) == IF t \in Schema.hidden /\ Slot(t) = "resolve" THEN "graphql" ELSE Undefined

\* What is set for a field, by phase
FieldIsSet(t, f, fn) ==
  /\ phase = "default" => fn = Unset(t)
  /\ phase = "inherit" =>
       fn = IF t \in DOMAIN map \ todo THEN Inherited(t, f, Passed(t)) ELSE Default(t)
  /\ phase = "explicit" =>
       fn = IF t \in DOMAIN map \ todo THEN Own(t, f) ELSE InheritedAll(t, f)
  /\ phase \in {"handle", "sdl"} => fn = Own(t, f)
  /\ phase = "done" => fn = IF OfSdl(t, f) THEN "sdl" ELSE Own(t, f)

FieldsAreSet ==
  \A t \in FieldTypes : \A f \in FieldNames(Schema, t) : FieldIsSet(t, f, set[<<t, f, Slot(t)>>])

(* Precedence only speaks of the end: on the way, each phase has its own share.  *)
IInv == SetTyped /\ RestIsLeft /\ FieldsAreSet

--------------------------------------------------------------------------------
(* The merged map depends on the input alone.                                    *)
LEMMA MapStays == ASSUME UNCHANGED options PROVE map' = map
BY DEF options, map, mergeResolvers, mergedResolvers

(* So does what a field is to get.                                               *)
LEMMA SharesStay ==
  ASSUME UNCHANGED options
  PROVE  \A t, f, n : /\ Inherited(t, f, n)' = Inherited(t, f, n)
                      /\ InheritedAll(t, f)' = InheritedAll(t, f)
                      /\ Own(t, f)' = Own(t, f)
                      /\ Default(t)' = Default(t)
                      /\ OfSdl(t, f)' = OfSdl(t, f)
<1>1. map' = map
  BY MapStays
<1>2. \A t, f : Givers(t, f)' = Givers(t, f)
  BY <1>1 DEF Givers, HasEntry, map
<1>3. \A t, f : Default(t)' = Default(t) /\ OfSdl(t, f)' = OfSdl(t, f)
  BY DEF Default, OfSdl, options
<1>4. \A t, f, n : Before(t, f, n)' = Before(t, f, n)
  BY <1>2 DEF Before
<1>5. \A t, f, n : Inherited(t, f, n)' = Inherited(t, f, n)
  BY <1>1, <1>3, <1>4 DEF Inherited
<1>6. \A t, f : InheritedAll(t, f)' = InheritedAll(t, f)
  BY <1>1, <1>3, <1>5 DEF InheritedAll, Length
<1>7. \A t, f : Own(t, f)' = Own(t, f)
  BY <1>1, <1>6 DEF Own
<1> QED BY <1>3, <1>5, <1>6, <1>7

(* Types with fields are the objects and interfaces.                             *)
LEMMA FieldTypesFacts ==
  \A t : t \in FieldTypes <=> t \in Names(Schema) /\ HasFields(Schema, t)
BY DEF FieldTypes, OfKind, HasFields

(* Their interfaces are a sequence.                                              *)
LEMMA InterfacesFacts ==
  ASSUME NEW t \in FieldTypes
  PROVE  /\ Interfaces(Schema, t) \in Seq(Names(Schema))
         /\ Length(t) \in Nat
         /\ DOMAIN Interfaces(Schema, t) = 1..Length(t)
BY SchemaAssumption DEF FieldTypes, Length

(* A function is set at the place of its type and key.                           *)
LEMMA TargetFacts == \A t, k : Target(t, k)[1] = t /\ Target(t, k)[2] = k
BY DEF Target

(* A place that is no target keeps its function.                                 *)
LEMMA AssignFacts ==
  ASSUME NEW t, NEW entry, NEW keys, Assign(t, entry, keys), NEW p \in Places
  PROVE  /\ p \notin {Target(t, k) : k \in keys} => set'[p] = set[p]
         /\ p \in {Target(t, k) : k \in keys} => set'[p] = entry.of[p[2]] /\ p[1] = t /\ p[2] \in keys
BY TargetFacts DEF Assign

(* Every step of SetResolversToType() assigns some of what the type accepts, all *)
(* of it unless it fails.                                                        *)
LEMMA SetFacts ==
  ASSUME NEW t, NEW entry, SetResolversToType(t, entry)
  PROVE  \E keys \in SUBSET Accepted(t, entry) :
           /\ Assign(t, entry, keys)
           /\ (keys = Accepted(t, entry) /\ phase' = phase) \/ phase' = "failed"
BY DEF SetResolversToType

(* A type with fields accepts whatever its fields have a function for.           *)
LEMMA AcceptedFacts ==
  ASSUME NEW t \in FieldTypes, NEW entry
  PROVE  /\ Accepted(t, entry) \subseteq DOMAIN entry.of
         /\ \A f \in FieldNames(Schema, t) : f \in Accepted(t, entry) <=> f \in DOMAIN entry.of
BY DEF Accepted, FieldTypes, OfKind

(* The places of the fields of a type, where its functions are set.              *)
LEMMA FieldPlaces ==
  ASSUME NEW t \in FieldTypes, NEW f \in FieldNames(Schema, t)
  PROVE  /\ <<t, f, Slot(t)>> \in Places
         /\ <<t, f, "resolve">> \in Places
         /\ Target(t, f) = <<t, f, Slot(t)>>
<1>1. Slot(t) \in {"resolve", "subscribe"}
  BY DEF Slot
<1>2. Target(t, f) = <<t, f, Slot(t)>>
  BY FieldTypesFacts DEF Target
<1> DEFINE places(u) == {<<u, g, slot>> : g \in FieldNames(Schema, u), slot \in {"resolve", "subscribe"}}
<1>3. \A slot \in {"resolve", "subscribe"} : <<t, f, slot>> \in places(t)
  OBVIOUS
<1>4. \A q \in places(t) : q \in Places
  <2>1. \A q \in UNION {places(u) : u \in FieldTypes} : q \in Places
    BY DEF Places, FieldTypes
  <2>2. places(t) \in {places(u) : u \in FieldTypes}
    OBVIOUS
  <2> HIDE DEF places
  <2> QED BY <2>1, <2>2
<1> QED BY <1>1, <1>2, <1>3, <1>4

(* Setting the resolvers of a type with fields gives each the function it has    *)
(* there, and leaves those of the other types alone.                             *)
LEMMA SetFields ==
  ASSUME NEW u, NEW entry, SetResolversToType(u, entry), phase' # "failed",
         NEW t \in FieldTypes, NEW f \in FieldNames(Schema, t)
  PROVE  set'[<<t, f, Slot(t)>>] =
           IF t = u /\ f \in DOMAIN entry.of THEN entry.of[f] ELSE set[<<t, f, Slot(t)>>]
<1>1. Assign(u, entry, Accepted(u, entry))
  BY SetFacts
<1> DEFINE p == <<t, f, Slot(t)>>
           targets == {Target(u, k) : k \in Accepted(u, entry)}
<1>2. p \in Places /\ p[1] = t /\ p[2] = f
  BY FieldPlaces
<1>3. CASE t = u /\ f \in DOMAIN entry.of
  <2>1. f \in Accepted(u, entry)
    BY <1>3, AcceptedFacts
  <2>2. p \in targets
    BY <1>3, <2>1, FieldPlaces
  <2> QED BY <1>1, <1>2, <1>3, <2>2, AssignFacts
<1>4. CASE ~(t = u /\ f \in DOMAIN entry.of)
  <2>1. p \notin targets
    <3>1. SUFFICES ASSUME NEW k \in Accepted(u, entry), p = Target(u, k) PROVE FALSE
      OBVIOUS
    <3>2. t = u /\ f = k
      BY <1>2, <3>1, TargetFacts
    <3> QED BY <1>4, <3>2, AcceptedFacts
  <2> QED BY <1>1, <1>2, <1>4, <2>1, AssignFacts
<1> QED BY <1>3, <1>4

--------------------------------------------------------------------------------
(* The steps *)

(* A set of numbers has its greatest element as Max().                           *)
LEMMA MaxIs ==
  ASSUME NEW S \in SUBSET Nat, NEW m \in S, \A k \in S : k <= m
  PROVE  Max(S) = m
<1>1. m >= m /\ \A k \in S : m >= k
  OBVIOUS
<1>2. \A n \in S : (\A k \in S : n >= k) => n = m
  OBVIOUS
<1> QED BY <1>1, <1>2 DEF Max

(* The next interface, if the map has it, gives the fields that it has.          *)
LEMMA InheritedNext ==
  ASSUME NEW t \in FieldTypes, NEW f, NEW n \in Nat, n < Length(t)
  PROVE  LET i == Interfaces(Schema, t)[n + 1]
         IN  Inherited(t, f, n + 1) =
               IF HasEntry(i) /\ f \in DOMAIN map[i].of THEN map[i].of[f]
               ELSE Inherited(t, f, n)
<1> DEFINE i == Interfaces(Schema, t)[n + 1]
<1>1. Givers(t, f) \subseteq 1..Length(t) /\ n + 1 \in 1..Length(t) /\ Length(t) \in Nat
  BY InterfacesFacts DEF Givers
<1>2. n + 1 \in Givers(t, f) <=> HasEntry(i) /\ f \in DOMAIN map[i].of
  BY <1>1, InterfacesFacts DEF Givers, map
<1>3. CASE n + 1 \in Givers(t, f)
  <2>1. /\ n + 1 \in Before(t, f, n + 1) /\ Before(t, f, n + 1) \in SUBSET Nat
        /\ \A k \in Before(t, f, n + 1) : k <= n + 1
    BY <1>1, <1>3 DEF Before
  <2>2. Max(Before(t, f, n + 1)) = n + 1
    BY <2>1, MaxIs
  <2> QED BY <1>2, <1>3, <2>1, <2>2 DEF Inherited
<1>4. CASE n + 1 \notin Givers(t, f)
  <2>1. Before(t, f, n + 1) = Before(t, f, n)
    BY <1>1, <1>4 DEF Before
  <2> QED BY <1>2, <1>4, <2>1 DEF Inherited
<1> QED BY <1>3, <1>4

(* No interface has given anything at first.                                     *)
LEMMA InheritedNone ==
  ASSUME NEW t \in FieldTypes, NEW f
  PROVE  Inherited(t, f, 0) = Default(t)
<1>1. Before(t, f, 0) = {}
  BY InterfacesFacts DEF Before, Givers
<1> QED BY <1>1 DEF Inherited

(* graphql-js has set the resolvers of the introspection types.                  *)
LEMMA InitInv == Init => IInv
<1> SUFFICES ASSUME Init PROVE IInv
  OBVIOUS
<1>1. SetTyped /\ RestIsLeft
  BY DEF Init, SetTyped, RestIsLeft, Phases
<1>2. ASSUME NEW t \in FieldTypes, NEW f \in FieldNames(Schema, t)
      PROVE  FieldIsSet(t, f, set[<<t, f, Slot(t)>>])
  <2>1. <<t, f, Slot(t)>> \in Places
    BY FieldPlaces
  <2> QED BY <2>1 DEF Init, FieldIsSet, Unset
<1> QED BY <1>1, <1>2 DEF IInv, FieldsAreSet

(* The default goes to what is not set yet.                                      *)
LEMMA SetDefaultsInv == ASSUME IInv, SetDefaults PROVE IInv'
<1>1. SetTyped' /\ RestIsLeft'
  <2>1. map' = map
    BY MapStays DEF SetDefaults
  <2> QED BY <2>1 DEF SetDefaults, Enter, IInv, SetTyped, RestIsLeft, Phases, map
<1>2. ASSUME NEW t \in FieldTypes, NEW f \in FieldNames(Schema, t)
      PROVE  FieldIsSet(t, f, set[<<t, f, Slot(t)>>])'
  <2> DEFINE p == <<t, f, Slot(t)>>
  <2>1. p \in Places /\ p[1] = t /\ p[3] = Slot(t)
    BY FieldPlaces
  <2>2. set[p] = Unset(t)
    BY DEF SetDefaults, IInv, FieldsAreSet, FieldIsSet
  <2>3. set'[p] = Default(t)
    <3> HIDE DEF p
    <3>1. set'[p] = IF defaults /\ p \in ResolvePlaces /\ set[p] = Undefined THEN "default" ELSE set[p]
      BY <2>1 DEF SetDefaults
    <3>2. p \in ResolvePlaces <=> Slot(t) = "resolve" /\ t \notin Schema.hidden
      BY <2>1 DEF ResolvePlaces
    <3>3. Slot(t) \in {"resolve", "subscribe"}
      BY DEF Slot
    <3> QED BY <2>2, <3>1, <3>2, <3>3 DEF Default, Unset
  <2>4. phase' = "inherit" /\ todo' = DOMAIN map
    BY DEF SetDefaults, Enter, map
  <2>5. Default(t)' = Default(t) /\ map' = map
    BY SharesStay, MapStays DEF SetDefaults
  <2> QED BY <2>3, <2>4, <2>5 DEF FieldIsSet
<1> QED BY <1>1, <1>2 DEF IInv, FieldsAreSet

(* A type of the map is begun with: nothing of it is set yet.                    *)
LEMMA BeginTypeInv == ASSUME IInv, BeginType PROVE IInv'
<1>1. map' = map /\ phase = "inherit" /\ rest = <<>> /\ set' = set
  BY MapStays DEF BeginType
<1>2. PICK t \in todo :
        \/ /\ t \in Names(Schema)
           /\ todo' = todo \ {t}
           /\ current' = t
           /\ rest' = IF HasFields(Schema, t) THEN Interfaces(Schema, t) ELSE <<>>
           /\ phase' = phase
        \/ phase' = "failed" /\ UNCHANGED <<todo, current, rest>>
  BY DEF BeginType
<1>3. t \in DOMAIN map
  BY <1>1 DEF IInv, RestIsLeft
<1>4. CASE phase' = "failed" /\ UNCHANGED <<todo, current, rest>>
  BY <1>1, <1>4 DEF IInv, SetTyped, RestIsLeft, FieldsAreSet, FieldIsSet, Phases
<1>5. CASE /\ t \in Names(Schema)
           /\ todo' = todo \ {t}
           /\ current' = t
           /\ rest' = IF HasFields(Schema, t) THEN Interfaces(Schema, t) ELSE <<>>
           /\ phase' = phase
  <2>1. SetTyped'
    BY <1>1, <1>5 DEF IInv, SetTyped
  <2>2. RestIsLeft'
    <3>1. CASE HasFields(Schema, t)
      <4>1. t \in FieldTypes
        BY <1>5, <3>1, FieldTypesFacts
      <4> QED BY <1>1, <1>3, <1>5, <3>1, <4>1, InterfacesFacts DEF IInv, RestIsLeft, Length
    <3>2. CASE ~HasFields(Schema, t)
      BY <1>1, <1>5, <3>2 DEF IInv, RestIsLeft
    <3> QED BY <3>1, <3>2
  <2>3. ASSUME NEW u \in FieldTypes, NEW f \in FieldNames(Schema, u)
        PROVE  FieldIsSet(u, f, set[<<u, f, Slot(u)>>])'
    <3> DEFINE p == <<u, f, Slot(u)>>
    <3>1. set[p] = IF u \in DOMAIN map \ todo THEN Inherited(u, f, Length(u)) ELSE Default(u)
      BY <1>1 DEF IInv, FieldsAreSet, FieldIsSet, Passed
    <3>2. /\ Default(u)' = Default(u)
          /\ \A n : Inherited(u, f, n)' = Inherited(u, f, n)
      BY SharesStay DEF BeginType
    <3>3. set'[p] = IF u \in DOMAIN map \ todo' THEN Inherited(u, f, Passed(u)') ELSE Default(u)
      <4>1. CASE u = t
        <5>1. rest' = Interfaces(Schema, t) /\ Length(t) \in Nat /\ Len(rest') = Length(t)
          BY <1>5, <4>1, FieldTypesFacts, InterfacesFacts DEF Length
        <5>2. Passed(u)' = 0
          <6>1. CASE rest' = <<>>
            BY <4>1, <5>1, <6>1 DEF Passed, Length
          <6>2. CASE rest' # <<>>
            BY <1>5, <4>1, <5>1, <6>2 DEF Passed, Length
          <6> QED BY <6>1, <6>2
        <5>3. u \notin DOMAIN map \ todo
          BY <4>1
        <5>4. Inherited(u, f, 0) = Default(u)
          BY InheritedNone
        <5> QED BY <1>1, <3>1, <5>2, <5>3, <5>4
      <4>2. CASE u # t
        <5>1. Passed(u)' = Length(u)
          BY <1>5, <4>2 DEF Passed, Length
        <5> QED BY <1>1, <1>5, <3>1, <4>2, <5>1
      <4> QED BY <4>1, <4>2
    <3>4. phase' = "inherit"
      BY <1>1, <1>5
    <3>5. (Inherited(u, f, Passed(u)))' = Inherited(u, f, Passed(u)')
      <4>1. Before(u, f, Passed(u))' = Before(u, f, Passed(u)')
        BY <1>1 DEF Before, Givers, HasEntry, map
      <4> QED BY <1>1, <3>2, <4>1 DEF Inherited
    <3> QED BY <1>1, <3>2, <3>3, <3>4, <3>5 DEF FieldIsSet
  <2> QED BY <2>1, <2>2, <2>3 DEF IInv, FieldsAreSet
<1> QED BY <1>2, <1>4, <1>5

(* An interface of the type under way gives what it has, over those before it.   *)
LEMMA InheritFromInv == ASSUME IInv, InheritFrom PROVE IInv'
<1> DEFINE i == Head(rest)
           is == Interfaces(Schema, current)
           n == Length(current) - Len(rest)
<1>1. map' = map /\ phase = "inherit" /\ rest # <<>> /\ rest' = Tail(rest) /\ UNCHANGED <<options, todo, current>>
  BY MapStays DEF InheritFrom
<1>2. /\ rest \in Seq(Names(Schema)) /\ current \in FieldTypes \cap DOMAIN map
      /\ current \notin todo /\ Len(rest) <= Length(current) /\ todo \subseteq DOMAIN map
      /\ \A k \in 1..Len(rest) : rest[k] = is[n + k]
  BY <1>1 DEF IInv, RestIsLeft
<1>3. Length(current) \in Nat /\ n \in Nat /\ Len(rest) \in Nat /\ Len(rest) > 0 /\ n < Length(current)
  BY <1>1, <1>2, InterfacesFacts
<1>4. /\ Tail(rest) \in Seq(Names(Schema)) /\ Len(Tail(rest)) = Len(rest) - 1
      /\ \A k \in 1..Len(Tail(rest)) : Tail(rest)[k] = rest[k + 1]
      /\ i = is[n + 1]
  <2>1. Head(rest) = rest[1]
    BY <1>1, <1>2
  <2> QED BY <1>1, <1>2, <1>3, <2>1
<1>5. \/ HasEntry(i) /\ SetResolversToType(current, map[i])
      \/ ~HasEntry(i) /\ UNCHANGED <<set, phase>>
  BY DEF InheritFrom, map
<1>6. SetTyped'
  <2>1. DOMAIN set' = Places
    <3>1. CASE UNCHANGED set
      BY <3>1 DEF IInv, SetTyped
    <3>2. CASE HasEntry(i) /\ SetResolversToType(current, map[i])
      BY <3>2, SetFacts DEF Assign
    <3> QED BY <1>5, <3>1, <3>2
  <2>2. phase' \in {phase, "failed"}
    BY <1>5, SetFacts
  <2> QED BY <2>1, <2>2 DEF IInv, SetTyped, Phases
<1>7. RestIsLeft'
  <2>1. phase' \in {"inherit", "failed"}
    BY <1>1, <1>5, SetFacts
  <2>2. Len(rest') <= Length(current)
    BY <1>1, <1>2, <1>3, <1>4
  <2>3. ASSUME NEW k \in 1..Len(rest')
        PROVE  rest'[k] = is[Length(current) - Len(rest') + k]
    <3>1. k + 1 \in 1..Len(rest) /\ Len(rest') = Len(rest) - 1 /\ rest'[k] = rest[k + 1]
      BY <1>1, <1>3, <1>4
    <3>2. rest[k + 1] = is[n + (k + 1)]
      BY <1>2, <3>1
    <3>3. n + (k + 1) = Length(current) - Len(rest') + k
      BY <1>3, <3>1
    <3> QED BY <3>1, <3>2, <3>3
  <2> QED BY <1>1, <1>2, <1>4, <2>1, <2>2, <2>3 DEF RestIsLeft
<1>8. ASSUME NEW t \in FieldTypes, NEW f \in FieldNames(Schema, t)
      PROVE  FieldIsSet(t, f, set[<<t, f, Slot(t)>>])'
  <2> DEFINE p == <<t, f, Slot(t)>>
  <2>1. CASE phase' = "failed"
    BY <2>1 DEF FieldIsSet
  <2>2. CASE phase' # "failed"
    <3>1. phase' = "inherit"
      BY <1>1, <1>5, <2>2, SetFacts
    <3>2. set'[p] = IF t = current /\ HasEntry(i) /\ f \in DOMAIN map[i].of
                    THEN map[i].of[f] ELSE set[p]
      <4>1. CASE HasEntry(i) /\ SetResolversToType(current, map[i])
        BY <2>2, <4>1, SetFields
      <4>2. CASE ~HasEntry(i) /\ UNCHANGED <<set, phase>>
        BY <4>2
      <4> QED BY <1>5, <4>1, <4>2
    <3>3. set[p] = IF t \in DOMAIN map \ todo THEN Inherited(t, f, Passed(t)) ELSE Default(t)
      BY <1>1 DEF IInv, FieldsAreSet, FieldIsSet
    <3>4. Default(t)' = Default(t) /\ \A m : Inherited(t, f, m)' = Inherited(t, f, m)
      BY <1>1, SharesStay
    <3>5. (Inherited(t, f, Passed(t)))' = Inherited(t, f, Passed(t)')
      <4>1. Before(t, f, Passed(t))' = Before(t, f, Passed(t)')
        BY <1>1 DEF Before, Givers, HasEntry, map
      <4> QED BY <1>1, <3>4, <4>1 DEF Inherited
    <3>6. set'[p] = IF t \in DOMAIN map \ todo THEN Inherited(t, f, Passed(t)') ELSE Default(t)
      <4>1. CASE t = current
        <5>1. Passed(t) = n /\ Passed(t)' = n + 1
          <6>1. Passed(t) = n
            BY <1>1, <4>1 DEF Passed
          <6>2. Passed(t)' = IF Tail(rest) # <<>> THEN Length(t) - Len(Tail(rest)) ELSE Length(t)
            BY <1>1, <4>1 DEF Passed, Length
          <6>3. Passed(t)' = Length(t) - Len(Tail(rest))
            <7>1. CASE Tail(rest) = <<>>
              <8>1. rest' = <<>> /\ Len(rest') = 0
                BY <1>1, <1>4, <7>1
              <8>2. Passed(t)' = Length(t) /\ Length(t) \in Nat
                BY <1>3, <4>1, <6>2, <7>1
              <8>3. Length(t) - Len(rest') = Length(t)
                BY <8>1, <8>2
              <8> QED BY <1>1, <8>2, <8>3
            <7> QED BY <6>2, <7>1
          <6> QED BY <1>3, <1>4, <4>1, <6>1, <6>3
        <5>2. Inherited(t, f, n + 1) = IF HasEntry(i) /\ f \in DOMAIN map[i].of
                                       THEN map[i].of[f] ELSE Inherited(t, f, n)
          <6>1. n \in Nat /\ n < Length(t) /\ i = Interfaces(Schema, t)[n + 1]
            BY <1>3, <1>4, <4>1
          <6> HIDE DEF n, i
          <6> QED BY <6>1, InheritedNext
        <5>3. set[p] = Inherited(t, f, n)
          BY <1>2, <3>3, <4>1, <5>1
        <5> HIDE DEF i, n, p
        <5>4. set'[p] = Inherited(t, f, n + 1)
          BY <3>2, <4>1, <5>2, <5>3
        <5> QED BY <1>2, <4>1, <5>1, <5>4
      <4>2. CASE t # current
        <5>1. Passed(t) = Length(t) /\ Passed(t)' = Length(t)
          BY <1>1, <4>2 DEF Passed, Length
        <5> QED BY <3>2, <3>3, <4>2, <5>1
      <4> QED BY <4>1, <4>2
    <3> QED BY <1>1, <3>1, <3>4, <3>5, <3>6 DEF FieldIsSet
  <2> QED BY <2>1, <2>2
<1> QED BY <1>6, <1>7, <1>8 DEF IInv, FieldsAreSet

(* All types of the map have inherited.                                          *)
LEMMA EndInheritanceInv == ASSUME IInv, EndInheritance PROVE IInv'
<1>1. /\ phase = "inherit" /\ todo = {} /\ rest = <<>>
      /\ phase' = "explicit" /\ todo' = DOMAIN map /\ rest' = <<>> /\ set' = set
      /\ map' = map
  BY MapStays DEF EndInheritance, Enter, map
<1>2. SetTyped' /\ RestIsLeft'
  BY <1>1 DEF IInv, SetTyped, RestIsLeft, Phases
<1>3. ASSUME NEW t \in FieldTypes, NEW f \in FieldNames(Schema, t)
      PROVE  FieldIsSet(t, f, set[<<t, f, Slot(t)>>])'
  <2>1. set[<<t, f, Slot(t)>>] = InheritedAll(t, f)
    BY <1>1 DEF IInv, FieldsAreSet, FieldIsSet, InheritedAll, Passed
  <2>2. InheritedAll(t, f)' = InheritedAll(t, f)
    BY SharesStay DEF EndInheritance
  <2> QED BY <1>1, <2>1, <2>2 DEF FieldIsSet
<1> QED BY <1>2, <1>3 DEF IInv, FieldsAreSet

(* A type gets the functions of its own entry, over those it has inherited.      *)
LEMMA SetExplicitInv == ASSUME IInv, SetExplicit PROVE IInv'
<1>1. map' = map /\ phase = "explicit" /\ UNCHANGED <<current, rest>>
  BY MapStays DEF SetExplicit
<1>2. PICK u \in todo :
        /\ todo' = todo \ {u}
        /\ \/ SetResolversToType(u, map[u])
           \/ phase' = "failed" /\ set' = set
  BY DEF SetExplicit, map
<1>3. phase' \in {"explicit", "failed"} /\ SetTyped' /\ (phase' # "failed" => SetResolversToType(u, map[u]))
  <2>1. CASE SetResolversToType(u, map[u])
    <3>1. phase' \in {"explicit", "failed"}
      BY <1>1, <2>1, SetFacts
    <3>2. DOMAIN set' = Places
      BY <2>1, SetFacts DEF Assign
    <3> QED BY <2>1, <3>1, <3>2 DEF SetTyped, Phases
  <2>2. CASE phase' = "failed" /\ set' = set
    BY <2>2 DEF IInv, SetTyped, Phases
  <2> QED BY <1>2, <2>1, <2>2
<1>4. RestIsLeft'
  BY <1>1, <1>2, <1>3 DEF IInv, RestIsLeft
<1>5. ASSUME NEW t \in FieldTypes, NEW f \in FieldNames(Schema, t)
      PROVE  FieldIsSet(t, f, set[<<t, f, Slot(t)>>])'
  <2> DEFINE p == <<t, f, Slot(t)>>
  <2>1. CASE phase' = "failed"
    BY <2>1 DEF FieldIsSet
  <2>2. CASE phase' = "explicit"
    <3>1. set'[p] = IF t = u /\ f \in DOMAIN map[u].of THEN map[u].of[f] ELSE set[p]
      <4>1. SetResolversToType(u, map[u]) /\ phase' # "failed"
        BY <1>3, <2>2
      <4> QED BY <4>1, SetFields
    <3>2. set[p] = IF t \in DOMAIN map \ todo THEN Own(t, f) ELSE InheritedAll(t, f)
      BY <1>1 DEF IInv, FieldsAreSet, FieldIsSet
    <3>3. u \in DOMAIN map /\ todo \subseteq DOMAIN map
      BY <1>1 DEF IInv, RestIsLeft
    <3>4. InheritedAll(t, f)' = InheritedAll(t, f) /\ Own(t, f)' = Own(t, f)
      BY SharesStay DEF SetExplicit
    <3>5. set'[p] = IF t \in DOMAIN map \ todo' THEN Own(t, f) ELSE InheritedAll(t, f)
      <4> HIDE DEF p
      <4>1. CASE t = u
        <5>1. set[p] = InheritedAll(t, f)
          BY <3>2, <4>1
        <5> QED BY <1>2, <3>1, <3>3, <4>1, <5>1 DEF Own
      <4>2. CASE t # u
        BY <1>2, <3>1, <3>2, <4>2
      <4> QED BY <4>1, <4>2
    <3> QED BY <1>1, <2>2, <3>4, <3>5 DEF FieldIsSet
  <2> QED BY <1>3, <2>1, <2>2
<1> QED BY <1>3, <1>4, <1>5 DEF IInv, FieldsAreSet

(* All types of the map have their own.                                          *)
LEMMA EndExplicitInv == ASSUME IInv, EndExplicit PROVE IInv'
<1>1. /\ phase = "explicit" /\ todo = {}
      /\ phase' = "handle" /\ todo' = {} /\ rest' = <<>> /\ set' = set /\ map' = map
  BY MapStays DEF EndExplicit, Enter
<1>2. SetTyped' /\ RestIsLeft'
  BY <1>1 DEF IInv, SetTyped, RestIsLeft, Phases
<1>3. ASSUME NEW t \in FieldTypes, NEW f \in FieldNames(Schema, t)
      PROVE  FieldIsSet(t, f, set[<<t, f, Slot(t)>>])'
  <2>1. set[<<t, f, Slot(t)>>] = Own(t, f)
    BY <1>1 DEF IInv, FieldsAreSet, FieldIsSet, Own, InheritedAll
  <2>2. Own(t, f)' = Own(t, f)
    BY SharesStay DEF EndExplicit
  <2> QED BY <1>1, <2>1, <2>2 DEF FieldIsSet
<1> QED BY <1>2, <1>3 DEF IInv, FieldsAreSet

(* The error handler changes no resolver's place.                                *)
LEMMA WrapResolversInv == ASSUME IInv, WrapResolvers PROVE IInv'
<1>1. phase = "handle" /\ phase' = "sdl" /\ todo' = {} /\ rest' = <<>> /\ set' = set /\ map' = map
  BY MapStays DEF WrapResolvers, Enter
<1>2. SetTyped' /\ RestIsLeft'
  BY <1>1 DEF IInv, SetTyped, RestIsLeft, Phases
<1>3. ASSUME NEW t \in FieldTypes, NEW f \in FieldNames(Schema, t)
      PROVE  FieldIsSet(t, f, set[<<t, f, Slot(t)>>])'
  <2>1. Own(t, f)' = Own(t, f)
    BY SharesStay DEF WrapResolvers
  <2> QED BY <1>1, <2>1 DEF IInv, FieldsAreSet, FieldIsSet
<1> QED BY <1>2, <1>3 DEF IInv, FieldsAreSet

(* Query._sdl and Query._sdlVersion are set last, if at all.                     *)
LEMMA SetSdlResolversInv == ASSUME IInv, SetSdlResolvers PROVE IInv'
<1> DEFINE keys == {"_sdl", "_sdlVersion"}
<1>1. /\ phase = "sdl" /\ map' = map /\ UNCHANGED <<options, todo, current, rest>>
      /\ phase' \in {"done", "failed"} /\ DOMAIN set' = Places
  BY MapStays DEF SetSdlResolvers, Assign, IInv, SetTyped
<1>2. SetTyped' /\ RestIsLeft'
  BY <1>1 DEF IInv, SetTyped, RestIsLeft, Phases
<1>3. phase' = "done" =>
        \/ stitching /\ ~Throws("Query", SdlResolvers) /\ Assign("Query", SdlResolvers, keys)
        \/ ~stitching /\ set' = set
  BY DEF SetSdlResolvers
<1>4. ASSUME NEW t \in FieldTypes, NEW f \in FieldNames(Schema, t), phase' = "done"
      PROVE  set'[<<t, f, Slot(t)>>] = IF OfSdl(t, f) THEN "sdl" ELSE Own(t, f)
  <2> DEFINE p == <<t, f, Slot(t)>>
             targets == {Target("Query", k) : k \in keys}
  <2>1. set[p] = Own(t, f)
    BY <1>1 DEF IInv, FieldsAreSet, FieldIsSet
  <2>2. p \in Places /\ p[1] = t /\ p[2] = f /\ Target(t, f) = p
    BY FieldPlaces
  <2>3. CASE ~stitching /\ set' = set
    BY <2>1, <2>3 DEF OfSdl
  <2>4. CASE stitching /\ Assign("Query", SdlResolvers, keys)
    <3>1. p \in targets <=> OfSdl(t, f)
      <4>1. ASSUME p \in targets PROVE OfSdl(t, f)
        <5>1. PICK k \in keys : p = Target("Query", k)
          BY <4>1
        <5>2. t = "Query" /\ f = k
          BY <2>2, <5>1, TargetFacts
        <5> QED BY <2>4, <5>2 DEF OfSdl
      <4>2. ASSUME OfSdl(t, f) PROVE p \in targets
        BY <2>2, <4>2 DEF OfSdl
      <4> QED BY <4>1, <4>2
    <3>2. p \notin targets => set'[p] = set[p]
      BY <2>2, <2>4, AssignFacts
    <3>3. p \in targets => set'[p] = SdlResolvers.of[f]
      BY <2>2, <2>4, AssignFacts
    <3>4. OfSdl(t, f) => SdlResolvers.of[f] = "sdl"
      BY DEF OfSdl, SdlResolvers
    <3> HIDE DEF targets
    <3> QED BY <2>1, <3>1, <3>2, <3>3, <3>4
  <2> QED BY <1>3, <1>4, <2>3, <2>4
<1>5. ASSUME NEW t \in FieldTypes, NEW f \in FieldNames(Schema, t)
      PROVE  FieldIsSet(t, f, set[<<t, f, Slot(t)>>])'
  <2>1. Own(t, f)' = Own(t, f) /\ OfSdl(t, f)' = OfSdl(t, f)
    BY <1>1, SharesStay
  <2> QED BY <1>1, <1>4, <2>1 DEF FieldIsSet
<1> QED BY <1>2, <1>5 DEF IInv, FieldsAreSet

(* Each step of bootstrap() keeps to the shares.                                 *)
LEMMA NextInv == IInv /\ [Next]_vars => IInv'
<1> SUFFICES ASSUME IInv, [Next]_vars PROVE IInv'
  OBVIOUS
<1>1. CASE UNCHANGED vars
  <2>1. map' = map /\ UNCHANGED <<options, phase, todo, current, rest, set>>
    BY <1>1, MapStays DEF vars, options
  <2>2. SetTyped' /\ RestIsLeft'
    BY <2>1 DEF IInv, SetTyped, RestIsLeft
  <2>3. ASSUME NEW t \in FieldTypes, NEW f \in FieldNames(Schema, t)
        PROVE  FieldIsSet(t, f, set[<<t, f, Slot(t)>>])'
    <3>1. FieldIsSet(t, f, set[<<t, f, Slot(t)>>])
      BY DEF IInv, FieldsAreSet
    <3>2. /\ Own(t, f)' = Own(t, f) /\ OfSdl(t, f)' = OfSdl(t, f)
          /\ InheritedAll(t, f)' = InheritedAll(t, f) /\ Default(t)' = Default(t)
      BY <2>1, SharesStay
    <3>3. Inherited(t, f, Passed(t))' = Inherited(t, f, Passed(t))
      <4>1. Passed(t)' = Passed(t)
        BY <2>1 DEF Passed, Length
      <4>2. Before(t, f, Passed(t))' = Before(t, f, Passed(t))
        BY <2>1, <4>1 DEF Before, Givers, HasEntry, map
      <4> QED BY <2>1, <3>2, <4>2 DEF Inherited
    <3> QED BY <2>1, <3>1, <3>2, <3>3 DEF FieldIsSet, Unset
  <2> QED BY <2>2, <2>3 DEF IInv, FieldsAreSet
<1> QED BY <1>1, SetDefaultsInv, BeginTypeInv, InheritFromInv, EndInheritanceInv, SetExplicitInv,
           EndExplicitInv, WrapResolversInv, SetSdlResolversInv DEF Next

--------------------------------------------------------------------------------
(* What follows from the shares *)

(* The last interface that gives is the greatest of all givers.                  *)
LEMMA IInvPrecedence == IInv => Precedence
<1> SUFFICES ASSUME IInv, phase = "done", NEW t \in FieldTypes, NEW f \in FieldNames(Schema, t)
             PROVE  set[<<t, f, Slot(t)>>] =
        CASE OfSdl(t, f) -> "sdl"
          [] ~OfSdl(t, f) /\ t \in DOMAIN mergeResolvers /\ f \in DOMAIN mergeResolvers[t].of ->
               mergeResolvers[t].of[f]
          [] ~OfSdl(t, f) /\ t \in DOMAIN mergeResolvers /\ f \notin DOMAIN mergeResolvers[t].of
             /\ Givers(t, f) # {} ->
               mergeResolvers[Interfaces(Schema, t)[Max(Givers(t, f))]].of[f]
          [] OTHER -> Default(t)
  BY DEF Precedence, FieldTypes
<1>1. set[<<t, f, Slot(t)>>] = IF OfSdl(t, f) THEN "sdl" ELSE Own(t, f)
  BY DEF IInv, FieldsAreSet, FieldIsSet
<1>2. Before(t, f, Length(t)) = Givers(t, f)
  BY InterfacesFacts DEF Before, Givers
<1>3. Own(t, f) = IF t \notin DOMAIN map THEN Default(t)
                  ELSE IF f \in DOMAIN map[t].of THEN map[t].of[f]
                  ELSE IF Givers(t, f) = {} THEN Default(t)
                  ELSE map[Interfaces(Schema, t)[Max(Givers(t, f))]].of[f]
  BY <1>2 DEF Own, InheritedAll, Inherited
<1>4. CASE OfSdl(t, f)
  BY <1>1, <1>4
<1>5. CASE ~OfSdl(t, f) /\ t \notin DOMAIN map
  BY <1>1, <1>3, <1>5 DEF map
<1>6. CASE ~OfSdl(t, f) /\ t \in DOMAIN map /\ f \in DOMAIN map[t].of
  BY <1>1, <1>3, <1>6 DEF map
<1>7. CASE ~OfSdl(t, f) /\ t \in DOMAIN map /\ f \notin DOMAIN map[t].of /\ Givers(t, f) = {}
  BY <1>1, <1>3, <1>7 DEF map
<1>8. CASE ~OfSdl(t, f) /\ t \in DOMAIN map /\ f \notin DOMAIN map[t].of /\ Givers(t, f) # {}
  BY <1>1, <1>3, <1>8 DEF map
<1> QED BY <1>4, <1>5, <1>6, <1>7, <1>8

(* Nothing but the resolvers of the SDL is set when the handler is around all.   *)
Handled ==
  handler =>
    /\ phase = "sdl" => ResolvePlaces \subseteq wrapped
    /\ phase = "done" => \A p \in ResolvePlaces : OfSdl(p[1], p[2]) \/ p \in wrapped

(* It is around all places where fields have resolvers, set or not.              *)
LEMMA NextHandled == SetTyped /\ Handled /\ [Next]_vars => Handled'
<1> SUFFICES ASSUME SetTyped, Handled, [Next]_vars PROVE Handled'
  OBVIOUS
<1>1. CASE UNCHANGED vars
  BY <1>1 DEF vars, options, Handled, OfSdl
<1>2. CASE SetDefaults
  BY <1>2 DEF SetDefaults, Enter, Handled
<1>3. CASE BeginType
  BY <1>3 DEF BeginType, Handled
<1>4. CASE InheritFrom
  BY <1>4, SetFacts DEF InheritFrom, Handled
<1>5. CASE EndInheritance
  BY <1>5 DEF EndInheritance, Enter, Handled
<1>6. CASE SetExplicit
  <2>1. phase' \in {"explicit", "failed"}
    BY <1>6, SetFacts DEF SetExplicit
  <2> QED BY <2>1 DEF Handled
<1>7. CASE EndExplicit
  BY <1>7 DEF EndExplicit, Enter, Handled
<1>8. CASE WrapResolvers
  <2>1. phase' = "sdl" /\ handler' = handler /\ (handler => wrapped' = ResolvePlaces)
    BY <1>8 DEF WrapResolvers, Enter, options
  <2> QED BY <2>1 DEF Handled
<1>9. CASE SetSdlResolvers
  <2> DEFINE keys == {"_sdl", "_sdlVersion"}
  <2>1. phase = "sdl" /\ phase' \in {"done", "failed"} /\ UNCHANGED <<handler, stitching>>
    BY <1>9 DEF SetSdlResolvers, options
  <2>2. phase' = "done" => \/ stitching /\ wrapped' = wrapped \ {Target("Query", k) : k \in keys}
                           \/ wrapped' = wrapped
    BY <1>9 DEF SetSdlResolvers, Assign
  <2>3. ASSUME handler, phase' = "done", NEW p \in ResolvePlaces
        PROVE  OfSdl(p[1], p[2])' \/ p \in wrapped'
    <3>1. p \in wrapped
      BY <2>1, <2>3 DEF Handled
    <3>2. CASE stitching /\ wrapped' = wrapped \ {Target("Query", k) : k \in keys}
      <4>1. CASE p \in {Target("Query", k) : k \in keys}
        BY <2>1, <3>2, <4>1, TargetFacts DEF OfSdl
      <4> QED BY <3>1, <3>2, <4>1
    <3> QED BY <2>2, <2>3, <3>1, <3>2
  <2> QED BY <2>1, <2>3 DEF Handled
<1> QED BY <1>1, <1>2, <1>3, <1>4, <1>5, <1>6, <1>7, <1>8, <1>9 DEF Next

Unknown == ~(DOMAIN map \subseteq Names(Schema))

\* A function that the resolvers of an interface have given
Borrowed(p, fn) ==
  \E n \in DOMAIN Interfaces(Schema, p[1]) :
    LET i == Interfaces(Schema, p[1])[n]
    IN  i \in DOMAIN map /\ p[2] \in DOMAIN map[i].of /\ fn = map[i].of[p[2]]

(* An unknown type stays among those to inherit, which end with a failure.       *)
Early ==
  Unknown =>
    /\ phase \in {"default", "inherit", "failed"}
    /\ phase = "inherit" => DOMAIN map \ Names(Schema) \subseteq todo
    /\ \A p \in Places : set[p] \notin {Undefined, "default", "graphql"} => Borrowed(p, set[p])

(* All that happens before the failure is inheritance.                           *)
LEMMA NextEarly == IInv /\ Early /\ [Next]_vars => Early'
<1> SUFFICES ASSUME IInv, Early, [Next]_vars PROVE Early'
  OBVIOUS
<1>1. UNCHANGED options
  BY DEF Next, vars, SetDefaults, BeginType, InheritFrom, EndInheritance, SetExplicit, EndExplicit,
         WrapResolvers, SetSdlResolvers, options
<1>2. map' = map /\ (Unknown' <=> Unknown) /\ \A p, fn : Borrowed(p, fn)' <=> Borrowed(p, fn)
  <2>1. map' = map
    BY <1>1, MapStays
  <2> QED BY <2>1 DEF Unknown, Borrowed
<1> SUFFICES ASSUME Unknown PROVE Early'
  BY <1>2 DEF Early
<1>3. /\ phase \in {"default", "inherit", "failed"}
      /\ phase = "inherit" => DOMAIN map \ Names(Schema) \subseteq todo
      /\ \A p \in Places : set[p] \notin {Undefined, "default", "graphql"} => Borrowed(p, set[p])
  BY DEF Early
<1>4. CASE UNCHANGED vars
  BY <1>2, <1>3, <1>4 DEF vars, Early
<1>5. CASE SetDefaults
  <2>1. phase' = "inherit" /\ todo' = DOMAIN map
    BY <1>5 DEF SetDefaults, Enter, map
  <2>2. \A p \in Places : set'[p] \in {set[p], "default"}
    BY <1>5 DEF SetDefaults
  <2>3. \A p \in Places : set'[p] \notin {Undefined, "default", "graphql"} => Borrowed(p, set'[p])
    BY <1>3, <2>2
  <2> QED BY <1>2, <2>1, <2>3 DEF Early
<1>6. CASE BeginType
  <2>1. /\ set' = set
        /\ phase' = "failed" \/ (phase' = phase /\ \E t \in todo \cap Names(Schema) : todo' = todo \ {t})
    BY <1>6 DEF BeginType
  <2>2. phase' = "inherit" => DOMAIN map \ Names(Schema) \subseteq todo'
    BY <1>3, <2>1
  <2> QED BY <1>2, <1>3, <2>1, <2>2 DEF Early
<1>7. CASE InheritFrom
  <2> DEFINE i == Head(rest)
  <2>1. phase = "inherit" /\ rest # <<>> /\ todo' = todo
    BY <1>7 DEF InheritFrom
  <2>2. \/ i \in DOMAIN map /\ SetResolversToType(current, map[i])
        \/ UNCHANGED <<set, phase>>
    BY <1>7 DEF InheritFrom, HasEntry, map
  <2>3. phase' \in {"inherit", "failed"}
    BY <2>1, <2>2, SetFacts
  <2>4. \A p \in Places : set'[p] \notin {Undefined, "default", "graphql"} => Borrowed(p, set'[p])
    <3>1. CASE i \in DOMAIN map /\ SetResolversToType(current, map[i])
      <4>1. PICK keys \in SUBSET Accepted(current, map[i]) : Assign(current, map[i], keys)
        BY <3>1, SetFacts
      <4>2. /\ current \in FieldTypes /\ rest \in Seq(Names(Schema)) /\ Len(rest) <= Length(current)
            /\ rest[1] = Interfaces(Schema, current)[Length(current) - Len(rest) + 1]
        BY <2>1 DEF IInv, RestIsLeft
      <4>3. PICK n \in DOMAIN Interfaces(Schema, current) : i = Interfaces(Schema, current)[n]
        <5>1. Length(current) - Len(rest) + 1 \in 1..Length(current)
          BY <2>1, <4>2, InterfacesFacts
        <5> QED BY <2>1, <4>2, <5>1, InterfacesFacts
      <4>4. keys \subseteq DOMAIN map[i].of
        BY <4>1, <4>2, AcceptedFacts
      <4>5. ASSUME NEW p \in Places, set'[p] \notin {Undefined, "default", "graphql"}
            PROVE  Borrowed(p, set'[p])
        <5>1. CASE p \in {Target(current, k) : k \in keys}
          <6>1. set'[p] = map[i].of[p[2]] /\ p[1] = current /\ p[2] \in keys
            BY <4>1, <5>1, AssignFacts
          <6> QED BY <3>1, <4>3, <4>4, <6>1 DEF Borrowed
        <5>2. CASE p \notin {Target(current, k) : k \in keys}
          <6>1. set'[p] = set[p]
            BY <4>1, <5>2, AssignFacts
          <6> QED BY <1>3, <4>5, <6>1
        <5> QED BY <5>1, <5>2
      <4> QED BY <4>5
    <3>2. CASE UNCHANGED <<set, phase>>
      BY <1>3, <3>2
    <3> QED BY <2>2, <3>1, <3>2
  <2> QED BY <1>2, <1>3, <2>1, <2>3, <2>4 DEF Early
<1>8. CASE EndInheritance
  BY <1>3, <1>8 DEF EndInheritance, Unknown
<1>9. CASE SetExplicit \/ EndExplicit \/ WrapResolvers \/ SetSdlResolvers
  BY <1>3, <1>9 DEF SetExplicit, EndExplicit, WrapResolvers, SetSdlResolvers
<1> QED BY <1>4, <1>5, <1>6, <1>7, <1>8, <1>9 DEF Next

--------------------------------------------------------------------------------
(* The merged map *)

(* A set of numbers has a least one: what is not so for all has a first case.    *)
LEMMA LeastNumber ==
  ASSUME NEW S \in SUBSET Nat, S # {}
  PROVE  \E m \in S : \A n \in S : m <= n
<1>1. PICK m \in S : \A n \in S : ~(<<n, m>> \in OpToRel(<, Nat))
  BY WFMin, NatLessThanWellFounded, Zenon
<1>2. \A n \in S : ~(n < m)
  BY <1>1, Zenon DEF OpToRel
<1> QED BY <1>2

IsMerge(g, k) ==
  g = [n \in 0..k |-> IF n = 0 THEN NoResolvers ELSE Merged(g[n - 1], input.maps[n])]

(* However long the list, its maps can be merged one after the other.            *)
LEMMA MergeExists == ASSUME NEW k \in Nat PROVE \E g : IsMerge(g, k)
<1> DEFINE S == {n \in Nat : ~\E g : IsMerge(g, n)}
<1>1. SUFFICES ASSUME S # {} PROVE FALSE
  OBVIOUS
<1>2. PICK m \in S : \A n \in S : m <= n
  <2>1. S \in SUBSET Nat
    OBVIOUS
  <2> HIDE DEF S
  <2> QED BY <1>1, <2>1, LeastNumber
<1>3. m # 0
  <2>1. IsMerge([n \in 0..0 |-> NoResolvers], 0)
    BY DEF IsMerge
  <2> QED BY <2>1
<1>4. m - 1 \in Nat /\ m - 1 \notin S
  BY <1>2, <1>3
<1>5. PICK g : IsMerge(g, m - 1)
  BY <1>4
<1> DEFINE h == [n \in 0..m |-> IF n = m THEN Merged(g[m - 1], input.maps[m]) ELSE g[n]]
<1>6. \A n \in 0..m : h[n] = IF n = 0 THEN NoResolvers ELSE Merged(h[n - 1], input.maps[n])
  <2>1. \A n \in 0..(m - 1) : g[n] = IF n = 0 THEN NoResolvers ELSE Merged(g[n - 1], input.maps[n])
    BY <1>5 DEF IsMerge
  <2> TAKE n \in 0..m
  <2>2. CASE n = m
    BY <1>3, <1>4, <2>2
  <2>3. CASE n # m
    <3>1. n \in 0..(m - 1) /\ (n # 0 => n - 1 \in 0..m /\ n - 1 # m)
      BY <1>4, <2>3
    <3>2. h[n] = g[n] /\ (n # 0 => h[n - 1] = g[n - 1])
      BY <2>3, <3>1
    <3> HIDE DEF h
    <3> QED BY <2>1, <3>1, <3>2
  <2> QED BY <2>2, <2>3
<1>7. IsMerge(h, m)
  <2>1. h = [n \in 0..m |-> h[n]]
    OBVIOUS
  <2> HIDE DEF h
  <2> QED BY <1>6, <2>1 DEF IsMerge
<1> QED BY <1>2, <1>7

(* So the merged resolvers are what their definition says.                       *)
LEMMA MergedResolversIs ==
  ASSUME Len(input.maps) \in Nat
  PROVE  \A n \in 0..Len(input.maps) :
           mergedResolvers[n] =
             IF n = 0 THEN NoResolvers ELSE Merged(mergedResolvers[n - 1], input.maps[n])
<1>1. mergedResolvers = CHOOSE g : IsMerge(g, Len(input.maps))
  BY DEF mergedResolvers, IsMerge
<1>2. IsMerge(mergedResolvers, Len(input.maps))
  BY <1>1, MergeExists
<1> QED BY <1>2 DEF IsMerge

\* A map that no type refuses, with no instance for the values of an enum
Harmless(m) ==
  \A t \in DOMAIN m :
    /\ t \in Names(Schema)
    /\ ~Throws(t, m[t])
    /\ Kind(Schema, t) = "enum" => DOMAIN m[t].of \subseteq FieldNames(Schema, t)

\* An entry that a map of its own type may have in a list of maps
TypedInList(t, entry) ==
  /\ TypedEntry(Schema, t, entry)
  /\ entry.form # "GraphQLEnumType"
  /\ entry.form = "undefined" => Kind(Schema, t) \in {"object", "interface", "union", "enum"}

(* What a typed map adds to a harmless one does no harm: records have the keys   *)
(* of both, scalars replace, enums stay records.                                 *)
LEMMA MergedHarmless ==
  ASSUME NEW m, Harmless(m), NEW r,
         \A t \in DOMAIN r : t \in Names(Schema) /\ TypedInList(t, r[t])
  PROVE  Harmless(Merged(m, r))
<1> DEFINE both == Merged(m, r)
<1> SUFFICES ASSUME NEW t \in DOMAIN both
             PROVE  /\ t \in Names(Schema)
                    /\ ~Throws(t, both[t])
                    /\ Kind(Schema, t) = "enum" => DOMAIN both[t].of \subseteq FieldNames(Schema, t)
  BY DEF Harmless
<1>1. t \in DOMAIN m \cup DOMAIN r
  BY DEF Merged
<1>2. t \in Names(Schema)
  BY <1>1 DEF Harmless
<1>3. CASE t \notin DOMAIN r
  <2>1. both[t] = m[t] /\ t \in DOMAIN m
    BY <1>1, <1>3 DEF Merged
  <2> QED BY <2>1 DEF Harmless
<1>4. CASE t \in DOMAIN r /\ Kind(Schema, t) = "scalar"
  <2>1. r[t].form = "GraphQLScalarType"
    BY <1>4 DEF TypedInList, TypedEntry, TypedFor
  <2>2. both[t] = r[t]
    BY <1>4, <2>1 DEF Merged
  <2> QED BY <1>2, <1>4, <2>1, <2>2 DEF Throws
<1>5. CASE t \in DOMAIN r /\ Kind(Schema, t) # "scalar"
  <2>1. /\ Kind(Schema, t) \in {"object", "interface", "union", "enum"}
        /\ r[t].form \in {"record", "undefined"}
        /\ Kind(Schema, t) \in {"object", "interface"} =>
             DOMAIN r[t].of \subseteq FieldNames(Schema, t) \cup Private
        /\ Kind(Schema, t) = "enum" => DOMAIN r[t].of \subseteq FieldNames(Schema, t)
    BY <1>5 DEF TypedInList, TypedEntry, TypedFor, Private
  <2>2. /\ both[t].form = "record"
        /\ DOMAIN both[t].of = IF t \in DOMAIN m THEN DOMAIN m[t].of \cup DOMAIN r[t].of
                                                 ELSE DOMAIN r[t].of
    BY <1>1, <1>5, <2>1 DEF Merged, Spread
  <2>3. t \in DOMAIN m =>
          /\ Kind(Schema, t) \in {"object", "interface"} =>
               DOMAIN m[t].of \subseteq FieldNames(Schema, t) \cup Private
          /\ Kind(Schema, t) = "enum" => DOMAIN m[t].of \subseteq FieldNames(Schema, t)
    BY DEF Harmless, Throws
  <2>4. /\ Kind(Schema, t) \in {"object", "interface"} =>
             DOMAIN both[t].of \subseteq FieldNames(Schema, t) \cup Private
        /\ Kind(Schema, t) = "enum" => DOMAIN both[t].of \subseteq FieldNames(Schema, t)
    BY <2>1, <2>2, <2>3
  <2>5. CASE Kind(Schema, t) \in {"object", "interface"}
    BY <1>2, <2>2, <2>4, <2>5 DEF Throws
  <2>6. CASE Kind(Schema, t) = "union"
    BY <1>2, <2>2, <2>6 DEF Throws
  <2>7. CASE Kind(Schema, t) = "enum"
    BY <1>2, <2>2, <2>4, <2>7 DEF Throws
  <2> QED BY <2>1, <2>5, <2>6, <2>7
<1> QED BY <1>3, <1>4, <1>5

\* The resolvers that the type Resolvers lets through, without those to be refused
Typed ==
  /\ \A n \in DOMAIN input.maps : TypedResolvers(Schema, input.maps[n])
  /\ ~HasRefusable

(* No type refuses its entry in the merged map if the maps are typed: the first  *)
(* map of a list after which one does cannot exist.                              *)
LEMMA MapHarmless ==
  ASSUME input \in ResolversInputs, Typed
  PROVE  \A t \in DOMAIN map : t \in Names(Schema) /\ ~Throws(t, map[t])
<1>1. /\ input.list \in BOOLEAN /\ Len(input.maps) \in Nat
      /\ DOMAIN input.maps = 1..Len(input.maps) /\ (input.list \/ Len(input.maps) = 1)
  BY ResolversAssumption
<1>2. \A n \in DOMAIN input.maps : \A t \in DOMAIN input.maps[n] :
        /\ t \in Names(Schema) /\ TypedEntry(Schema, t, input.maps[n][t])
        /\ ~Refusable(t, input.maps[n][t])
  BY DEF Typed, TypedResolvers, HasRefusable, Refusable
<1>3. CASE ~input.list
  <2>1. map = input.maps[1] /\ 1 \in DOMAIN input.maps
    BY <1>1, <1>3 DEF map, mergeResolvers
  <2> SUFFICES ASSUME NEW t \in DOMAIN map PROVE t \in Names(Schema) /\ ~Throws(t, map[t])
    OBVIOUS
  <2>2. t \in Names(Schema) /\ TypedEntry(Schema, t, map[t]) /\ ~Refusable(t, map[t])
    BY <1>2, <2>1
  <2>3. TypedFor(Schema, t, map[t]) /\ map[t].form # "undefined"
    BY <1>3, <2>2 DEF TypedEntry, TypedFor, Refusable
  <2> QED BY <2>2, <2>3 DEF TypedFor, Throws, Private
<1>4. CASE input.list
  <2> DEFINE harmful == {n \in 0..Len(input.maps) : ~Harmless(mergedResolvers[n])}
  <2>1. map = mergedResolvers[Len(input.maps)]
    BY <1>4 DEF map, mergeResolvers
  <2>2. harmful = {}
    <3>1. SUFFICES ASSUME harmful # {} PROVE FALSE
      OBVIOUS
    <3>2. PICK n \in harmful : \A k \in harmful : n <= k
      <4>1. harmful \in SUBSET Nat
        BY <1>1
      <4> HIDE DEF harmful
      <4> QED BY <3>1, <4>1, LeastNumber
    <3>3. mergedResolvers[n] =
            IF n = 0 THEN NoResolvers ELSE Merged(mergedResolvers[n - 1], input.maps[n])
      BY <1>1, MergedResolversIs
    <3>4. n # 0
      <4>1. Harmless(NoResolvers)
        BY DEF Harmless, NoResolvers
      <4> QED BY <3>3, <4>1
    <3>5. n - 1 \in 0..Len(input.maps) /\ n - 1 \notin harmful /\ n \in DOMAIN input.maps
      BY <1>1, <3>2, <3>4
    <3>6. \A t \in DOMAIN input.maps[n] :
            t \in Names(Schema) /\ TypedInList(t, input.maps[n][t])
      BY <1>2, <1>4, <3>5 DEF TypedInList, Refusable
    <3> QED BY <3>3, <3>4, <3>5, <3>6, MergedHarmless
  <2> QED BY <1>1, <2>1, <2>2 DEF Harmless
<1> QED BY <1>1, <1>3, <1>4

\* The schema that stitching expects
SdlFits ==
  stitching => /\ "Query" \in OfKind(Schema, {"object"})
               /\ {"_sdl", "_sdlVersion"} \subseteq FieldNames(Schema, "Query")

Accepting == input \in ResolversInputs /\ (Typed /\ SdlFits => phase # "failed")

(* Setting typed resolvers never fails, neither for the types of the map, nor    *)
(* for those that inherit, since they have the fields of their interfaces.       *)
LEMMA NextAccepting == IInv /\ Accepting /\ [Next]_vars => Accepting'
<1> SUFFICES ASSUME IInv, Accepting, [Next]_vars PROVE Accepting'
  OBVIOUS
<1>1. UNCHANGED options
  BY DEF Next, vars, SetDefaults, BeginType, InheritFrom, EndInheritance, SetExplicit, EndExplicit,
         WrapResolvers, SetSdlResolvers, options
<1>2. input' = input /\ (Typed' <=> Typed) /\ (SdlFits' <=> SdlFits)
  BY <1>1 DEF options, Typed, SdlFits, HasRefusable, Refusable
<1> SUFFICES ASSUME Typed, SdlFits PROVE phase' # "failed"
  BY <1>2 DEF Accepting
<1>3. phase # "failed" /\ \A t \in DOMAIN map : t \in Names(Schema) /\ ~Throws(t, map[t])
  BY MapHarmless DEF Accepting
<1>4. \A t, entry : SetResolversToType(t, entry) /\ ~Throws(t, entry) => phase' = phase
  BY DEF SetResolversToType
<1>5. CASE UNCHANGED vars
  BY <1>3, <1>5 DEF vars
<1>6. CASE SetDefaults \/ EndInheritance \/ EndExplicit \/ WrapResolvers
  BY <1>6 DEF SetDefaults, EndInheritance, EndExplicit, WrapResolvers, Enter
<1>7. CASE BeginType
  <2>1. todo \subseteq DOMAIN map
    BY <1>7 DEF BeginType, IInv, RestIsLeft
  <2> QED BY <1>3, <1>7, <2>1 DEF BeginType
<1>8. CASE InheritFrom
  <2> DEFINE i == Head(rest)
  <2>1. phase = "inherit" /\ rest # <<>>
    BY <1>8 DEF InheritFrom
  <2>2. /\ current \in FieldTypes /\ rest \in Seq(Names(Schema)) /\ Len(rest) <= Length(current)
        /\ rest[1] = Interfaces(Schema, current)[Length(current) - Len(rest) + 1]
    BY <2>1 DEF IInv, RestIsLeft
  <2>3. PICK n \in DOMAIN Interfaces(Schema, current) : i = Interfaces(Schema, current)[n]
    <3>1. Length(current) - Len(rest) + 1 \in 1..Length(current)
      BY <2>1, <2>2, InterfacesFacts
    <3> QED BY <2>1, <2>2, <3>1, InterfacesFacts
  <2>4. Kind(Schema, i) = "interface" /\ FieldNames(Schema, i) \subseteq FieldNames(Schema, current)
    BY <2>2, <2>3, SchemaAssumption DEF FieldTypes
  <2>5. ASSUME i \in DOMAIN map PROVE ~Throws(current, map[i])
    <3>1. ~Throws(i, map[i])
      BY <1>3, <2>5
    <3>2. map[i].form # "undefined" /\ DOMAIN map[i].of \subseteq FieldNames(Schema, i) \cup Private
      BY <2>4, <3>1 DEF Throws
    <3>3. Kind(Schema, current) \in {"object", "interface"}
      BY <2>2 DEF FieldTypes, OfKind
    <3> QED BY <2>4, <3>2, <3>3 DEF Throws
  <2>6. (i \in DOMAIN map /\ SetResolversToType(current, map[i])) \/ phase' = phase
    BY <1>8 DEF InheritFrom, HasEntry, map
  <2> HIDE DEF i
  <2> QED BY <1>3, <1>4, <2>5, <2>6
<1>9. CASE SetExplicit
  <2>1. PICK t \in todo : IF t \in Names(Schema) THEN SetResolversToType(t, map[t])
                                                 ELSE phase' = "failed"
    BY <1>9 DEF SetExplicit, map
  <2>2. t \in DOMAIN map
    BY <1>9 DEF SetExplicit, IInv, RestIsLeft
  <2> QED BY <1>3, <1>4, <2>1, <2>2
<1>10. CASE SetSdlResolvers
  <2>1. stitching => "Query" \in Names(Schema) /\ ~Throws("Query", SdlResolvers)
    BY DEF SdlFits, OfKind, Throws, SdlResolvers
  <2>2. phase' = "failed" => stitching /\ ("Query" \in Names(Schema) => Throws("Query", SdlResolvers))
    BY <1>10 DEF SetSdlResolvers
  <2> QED BY <2>1, <2>2
<1> QED BY <1>5, <1>6, <1>7, <1>8, <1>9, <1>10 DEF Next

--------------------------------------------------------------------------------
(* The invariant holds throughout.                                               *)
THEOREM Invariant == Spec => []IInv
BY InitInv, NextInv, PTL DEF Spec

(* Whatever the schema and the resolvers, a server that comes up resolves each   *)
(* field with its type's own resolver, else with that of the last interface that *)
(* has one, else with the default.                                               *)
THEOREM Preceded == Spec => []Precedence
BY Invariant, IInvPrecedence, PTL

(* With an error handler, no field of any schema is resolved without it.         *)
THEOREM AllHandled == Spec => []EveryResolverIsHandled
<1>1. Init => Handled
  BY DEF Init, Handled
<1>2. IInv /\ Handled /\ [Next]_vars => Handled'
  BY NextHandled DEF IInv
<1>3. Handled => EveryResolverIsHandled
  <2> SUFFICES ASSUME Handled, phase = "done", handler,
                      NEW t \in FieldTypes, t \notin Schema.hidden, NEW f \in FieldNames(Schema, t)
               PROVE  OfSdl(t, f) \/ <<t, f, "resolve">> \in wrapped
    BY DEF EveryResolverIsHandled, FieldTypes
  <2> DEFINE p == <<t, f, "resolve">>
  <2>1. p \in ResolvePlaces /\ p[1] = t /\ p[2] = f
    BY FieldPlaces DEF ResolvePlaces
  <2> QED BY <2>1 DEF Handled
<1> QED BY Invariant, <1>1, <1>2, <1>3, PTL DEF Spec

(* Resolvers for a type that the schema lacks are refused while nothing but      *)
(* inheritance has happened.                                                     *)
THEOREM UnknownRefused == Spec => []UnknownTypesFailEarly
<1>1. Init => Early
  BY DEF Init, Early
<1>2. IInv /\ Early /\ [Next]_vars => Early'
  BY NextEarly
<1>3. Early => UnknownTypesFailEarly
  BY DEF Early, UnknownTypesFailEarly, Unknown, Borrowed, map
<1> QED BY Invariant, <1>1, <1>2, <1>3, PTL DEF Spec

(* Resolvers that have the generated type Resolvers are not refused, for no      *)
(* schema, and however many of them are merged, but for the parts that the code  *)
(* refuses although they have the type: the marker, undefined, and instances of  *)
(* GraphQLEnumType in a list.                                                    *)
THEOREM TypedAccepted == Spec => []TypedResolversAccepted
<1>1. Init => Accepting
  BY DEF Init, Accepting
<1>2. IInv /\ Accepting /\ [Next]_vars => Accepting'
  BY NextAccepting
<1>3. Accepting => TypedResolversAccepted
  BY DEF Accepting, TypedResolversAccepted, Typed, SdlFits
<1> QED BY Invariant, <1>1, <1>2, <1>3, PTL DEF Spec

================================================================================
