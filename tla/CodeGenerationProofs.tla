-------------------------- MODULE CodeGenerationProofs ---------------------------
(***************************************************************************)
(* No generation ever works with a stale text, for all files, folders and  *)
(* options, however many changes there are, and however many generations   *)
(* run at the same time on the one cache of the reader.                    *)
(***************************************************************************)
EXTENDS CodeGeneration, TLAPS

(* Texts are numbered by the clock.                                              *)
ClockBounds == clock \in Nat /\ text \in [Files -> 0..clock]

(* What is cached is at least as new as the time it is cached under says: it was *)
(* read after its stat().                                                        *)
EntryIsHonest(e) ==
  e # None => e.mtime \in Nat /\ e.document \in Nat /\ e.document >= e.mtime

CacheIsHonest ==
  DOMAIN cache = Files /\ \A f \in Files : EntryIsHonest(cache[f])

Times == UNION {[S -> Nat] : S \in SUBSET Files}

Stages ==
  {"start", "server", "writeServer", "next", "introspect", "answered", "fallback",
   "client", "operations", "writeClient", "failed"}

Schemas == {NoSchema, Down} \cup Nat

SchemasTyped == endpoint \in Schemas /\ kept \in {None} \cup Schemas /\ answered \in {NoSchema} \cup Nat

Generation ==
  [stage : Stages, lists : SUBSET (Directories \cup Folders), stats : SUBSET Files,
   reads : Times, texts : Times, schema : Schemas,
   since : [Files -> Nat]]

(* Times that were noted are not later than what the files hold.                 *)
NotLater(times) ==
  \A f \in DOMAIN times : times[f] <= clock /\ (text[f] = 0 \/ text[f] >= times[f])

GenerationIsFresh(r) ==
  \/ r = Idle
  \/ /\ r \in Generation
     /\ NotLater(r.since)
     /\ NotLater(r.reads)
     /\ \A f \in DOMAIN r.texts : r.texts[f] >= r.since[f]

GenerationsAreFresh ==
  /\ DOMAIN generations = 1..MaxGenerations
  /\ \A g \in 1..MaxGenerations : GenerationIsFresh(generations[g])

(* ReadsAreFresh is not inductive: it takes the honesty of the cache, and that   *)
(* what a generation has noted but not used yet is not later than the files.     *)
IInv == ClockBounds /\ SchemasTyped /\ CacheIsHonest /\ GenerationsAreFresh

--------------------------------------------------------------------------------
(* Times, added and taken away *)

(* Times are noted of files, and are numbers.                                    *)
LEMMA TimesFacts ==
  ASSUME NEW r \in Times
  PROVE  DOMAIN r \subseteq Files /\ \A f \in DOMAIN r : r[f] \in Nat
BY DEF Times

(* None are noted to begin with.                                                 *)
LEMMA NoTimes == <<>> \in Times /\ DOMAIN <<>> = {}
<1>1. <<>> \in [{} -> Nat]
  OBVIOUS
<1> QED BY <1>1 DEF Times

(* What With() does to r: it adds f or replaces it.                              *)
Adds(r, f, n, q) ==
  /\ DOMAIN q = DOMAIN r \cup {f}
  /\ q[f] = n
  /\ \A e \in DOMAIN r : e # f => q[e] = r[e]

(* With() adds or replaces a time.                                               *)
LEMMA AddedTime ==
  ASSUME NEW r \in Times, NEW f \in Files, NEW n \in Nat
  PROVE  With(r, f, n) \in Times /\ Adds(r, f, n, With(r, f, n))
<1>1. DOMAIN r \cup {f} \in SUBSET Files /\ \A e \in DOMAIN r : r[e] \in Nat
  BY TimesFacts
<1>2. With(r, f, n) \in [DOMAIN r \cup {f} -> Nat]
  BY <1>1 DEF With
<1>3. With(r, f, n) \in Times
  BY <1>1, <1>2 DEF Times
<1> QED BY <1>3 DEF With, Adds

(* Restrict() takes one away.                                                    *)
LEMMA TakenTime ==
  ASSUME NEW r \in Times, NEW f
  PROVE  LET less == Restrict(r, DOMAIN r \ {f})
         IN  /\ less \in Times
             /\ DOMAIN less = DOMAIN r \ {f}
             /\ \A e \in DOMAIN less : less[e] = r[e]
<1> DEFINE less == Restrict(r, DOMAIN r \ {f})
<1>1. less = [e \in DOMAIN r \ {f} |-> r[e]]
  BY DEF Restrict
<1>2. less \in [DOMAIN r \ {f} -> Nat] /\ DOMAIN r \ {f} \in SUBSET Files
  BY <1>1, TimesFacts
<1> HIDE DEF less
<1>3. less \in Times
  BY <1>2 DEF Times
<1> QED BY <1>1, <1>3 DEF less

--------------------------------------------------------------------------------
(* Steps of one generation *)

(* A generation that is not idle is a record of its fields.                      *)
LEMMA NotIdle ==
  ASSUME NEW r, GenerationIsFresh(r), r.stage # "idle"
  PROVE  /\ r \in Generation
         /\ NotLater(r.since)
         /\ NotLater(r.reads)
         /\ \A f \in DOMAIN r.texts : r.texts[f] >= r.since[f]
BY DEF GenerationIsFresh, Idle

(* Moving on to another stage, with the times it has noted or none.              *)
LEMMA Kept ==
  ASSUME NEW r \in Generation, GenerationIsFresh(r), r.stage # "idle", NEW q \in Generation,
         q.since = r.since, q.reads = r.reads, q.texts \in {r.texts, <<>>}
  PROVE  GenerationIsFresh(q)
BY NotIdle, NoTimes DEF GenerationIsFresh

(* One generation takes a step while files and endpoint stay as they are.        *)
LEMMA OneGeneration ==
  ASSUME IInv, NEW g \in 1..MaxGenerations, NEW r, GenerationIsFresh(r),
         generations' = [generations EXCEPT ![g] = r],
         UNCHANGED <<clock, text>>, SchemasTyped', CacheIsHonest'
  PROVE  IInv'
<1>1. ClockBounds'
  BY DEF IInv, ClockBounds
<1>2. DOMAIN generations' = 1..MaxGenerations
  BY DEF IInv, GenerationsAreFresh
<1>3. ASSUME NEW h \in 1..MaxGenerations
      PROVE  GenerationIsFresh(generations[h])'
  <2>1. generations'[h] = IF h = g THEN r ELSE generations[h]
    BY DEF IInv, GenerationsAreFresh
  <2>2. GenerationIsFresh(generations'[h])
    BY <2>1 DEF IInv, GenerationsAreFresh
  <2>3. \A q : GenerationIsFresh(q) => GenerationIsFresh(q)'
    BY DEF GenerationIsFresh, NotLater
  <2> QED BY <2>2 DEF GenerationIsFresh, NotLater
<1> QED BY <1>1, <1>2, <1>3 DEF IInv, GenerationsAreFresh

(* The same for a step that moves on to another stage.                           *)
LEMMA OneKept ==
  ASSUME IInv, NEW g \in 1..MaxGenerations, NEW q \in Generation,
         generations[g] \in Generation => /\ q.since = generations[g].since
                                          /\ q.reads = generations[g].reads
                                          /\ q.texts \in {generations[g].texts, <<>>},
         generations[g].stage # "idle",
         generations' = [generations EXCEPT ![g] = q],
         UNCHANGED <<clock, text, cache>>, SchemasTyped'
  PROVE  IInv'
<1>1. GenerationIsFresh(generations[g])
  BY DEF IInv, GenerationsAreFresh
<1>2. generations[g] \in Generation
  BY <1>1, NotIdle
<1>3. GenerationIsFresh(q)
  BY <1>1, <1>2, Kept
<1>4. CacheIsHonest'
  BY DEF IInv, CacheIsHonest, EntryIsHonest
<1> QED BY <1>3, <1>4, OneGeneration

(* The ways in which steps change the record of a generation.                    *)
Continues(q, r) ==
  q \in Generation /\ q.since = r.since /\ q.reads = r.reads /\ q.texts \in {r.texts, <<>>}

(* All of the updates that the steps make continue the generation.               *)
LEMMA Updates ==
  ASSUME NEW r \in Generation, NEW stage \in Stages
  PROVE  /\ Continues([r EXCEPT !.stage = stage], r)
         /\ \A lists \in SUBSET (Directories \cup Folders) :
              Continues([r EXCEPT !.stage = stage, !.lists = lists], r)
         /\ Continues([r EXCEPT !.stage = stage, !.texts = <<>>], r)
         /\ \A schema \in Schemas :
              /\ Continues([r EXCEPT !.stage = stage, !.schema = schema], r)
              /\ \A lists \in SUBSET (Directories \cup Folders) :
                   Continues([[r EXCEPT !.stage = stage, !.lists = lists] EXCEPT !.schema = schema], r)
         /\ \A stats \in SUBSET Files, lists \in SUBSET (Directories \cup Folders) :
              /\ Continues([r EXCEPT !.stats = stats, !.lists = lists], r)
              /\ Continues([[r EXCEPT !.stage = stage, !.lists = lists] EXCEPT !.stats = stats], r)
BY NoTimes DEF Continues, Generation

(* A step of a generation that is not idle continues it, or ends it.             *)
LEMMA Step ==
  ASSUME IInv, NEW g \in 1..MaxGenerations, generations[g].stage # "idle",
         NEW q, generations' = [generations EXCEPT ![g] = q],
         q = Idle \/ (generations[g] \in Generation => Continues(q, generations[g])),
         UNCHANGED <<clock, text, cache>>, SchemasTyped'
  PROVE  IInv'
<1>1. generations[g] \in Generation
  BY NotIdle DEF IInv, GenerationsAreFresh
<1>2. CASE q = Idle
  <2>1. GenerationIsFresh(q)
    BY <1>2 DEF GenerationIsFresh
  <2>2. CacheIsHonest'
    BY DEF IInv, CacheIsHonest, EntryIsHonest
  <2> QED BY <2>1, <2>2, OneGeneration
<1>3. CASE Continues(q, generations[g])
  BY <1>1, <1>3, OneKept DEF Continues
<1> QED BY <1>1, <1>2, <1>3

(* write() begins.                                                              *)
LEMMA StartServerInv == ASSUME IInv, NEW g \in 1..MaxGenerations, StartServer(g) PROVE IInv'
<1>1. generations[g].stage # "idle" /\ UNCHANGED <<clock, text, cache>>
  BY DEF StartServer, files
<1>2. SchemasTyped'
  BY <1>1, NotIdle DEF StartServer, IInv, SchemasTyped, Schemas, GenerationsAreFresh, Generation
<1>3. PICK q : /\ generations' = [generations EXCEPT ![g] = q]
               /\ q = Idle \/ (generations[g] \in Generation => Continues(q, generations[g]))
  BY Updates DEF StartServer, Reads, Fail, Stages, Directories, IInv, SchemasTyped, Schemas, Builds
<1> QED BY <1>1, <1>2, <1>3, Step

(* The server's code is generated, or the schema does not build.                *)
LEMMA BuildServerInv == ASSUME IInv, NEW g \in 1..MaxGenerations, BuildServer(g) PROVE IInv'
<1>1. generations[g].stage # "idle" /\ UNCHANGED <<clock, text, cache>>
  BY DEF BuildServer, files
<1>2. SchemasTyped'
  BY <1>1, NotIdle DEF BuildServer, IInv, SchemasTyped, Schemas, GenerationsAreFresh, Generation
<1>3. PICK q : /\ generations' = [generations EXCEPT ![g] = q]
               /\ q = Idle \/ (generations[g] \in Generation => Continues(q, generations[g]))
  BY Updates DEF BuildServer, Reads, Fail, Stages, Directories, IInv, SchemasTyped, Schemas, Builds
<1> QED BY <1>1, <1>2, <1>3, Step

(* schema.ts is written.                                                        *)
LEMMA WriteServerInv == ASSUME IInv, NEW g \in 1..MaxGenerations, WriteServer(g) PROVE IInv'
<1>1. generations[g].stage # "idle" /\ UNCHANGED <<clock, text, cache>>
  BY DEF WriteServer, files
<1>2. SchemasTyped'
  BY <1>1, NotIdle DEF WriteServer, IInv, SchemasTyped, Schemas, GenerationsAreFresh, Generation
<1>3. PICK q : /\ generations' = [generations EXCEPT ![g] = q]
               /\ q = Idle \/ (generations[g] \in Generation => Continues(q, generations[g]))
  BY Updates DEF WriteServer, Reads, Fail, Stages, Directories, IInv, SchemasTyped, Schemas, Builds
<1> QED BY <1>1, <1>2, <1>3, Step

(* writeClient() begins.                                                        *)
LEMMA StartClientInv == ASSUME IInv, NEW g \in 1..MaxGenerations, StartClient(g) PROVE IInv'
<1>1. generations[g].stage # "idle" /\ UNCHANGED <<clock, text, cache>>
  BY DEF StartClient, files
<1>2. SchemasTyped'
  BY <1>1, NotIdle DEF StartClient, IInv, SchemasTyped, Schemas, GenerationsAreFresh, Generation
<1>3. PICK q : /\ generations' = [generations EXCEPT ![g] = q]
               /\ q = Idle \/ (generations[g] \in Generation => Continues(q, generations[g]))
  BY Updates DEF StartClient, Reads, Fail, Stages, Directories, IInv, SchemasTyped, Schemas, Builds
<1> QED BY <1>1, <1>2, <1>3, Step

(* The client's schema is built.                                                *)
LEMMA BuildClientSchemaInv == ASSUME IInv, NEW g \in 1..MaxGenerations, BuildClientSchema(g) PROVE IInv'
<1>1. generations[g].stage # "idle" /\ UNCHANGED <<clock, text, cache>>
  BY DEF BuildClientSchema, files
<1>2. SchemasTyped'
  BY <1>1, NotIdle DEF BuildClientSchema, IInv, SchemasTyped, Schemas, GenerationsAreFresh, Generation
<1>3. PICK q : /\ generations' = [generations EXCEPT ![g] = q]
               /\ q = Idle \/ (generations[g] \in Generation => Continues(q, generations[g]))
  BY Updates DEF BuildClientSchema, Reads, Fail, Stages, Directories, IInv, SchemasTyped, Schemas, Builds
<1> QED BY <1>1, <1>2, <1>3, Step

(* The client's code is generated.                                              *)
LEMMA BuildClientInv == ASSUME IInv, NEW g \in 1..MaxGenerations, BuildClient(g) PROVE IInv'
<1>1. generations[g].stage # "idle" /\ UNCHANGED <<clock, text, cache>>
  BY DEF BuildClient, files
<1>2. SchemasTyped'
  BY <1>1, NotIdle DEF BuildClient, IInv, SchemasTyped, Schemas, GenerationsAreFresh, Generation
<1>3. PICK q : /\ generations' = [generations EXCEPT ![g] = q]
               /\ q = Idle \/ (generations[g] \in Generation => Continues(q, generations[g]))
  BY Updates DEF BuildClient, Reads, Fail, Stages, Directories, IInv, SchemasTyped, Schemas, Builds
<1> QED BY <1>1, <1>2, <1>3, Step

(* operations.ts is written.                                                    *)
LEMMA WriteClientInv == ASSUME IInv, NEW g \in 1..MaxGenerations, WriteClient(g) PROVE IInv'
<1>1. generations[g].stage # "idle" /\ UNCHANGED <<clock, text, cache>>
  BY DEF WriteClient, files
<1>2. SchemasTyped'
  BY <1>1, NotIdle DEF WriteClient, IInv, SchemasTyped, Schemas, GenerationsAreFresh, Generation
<1>3. PICK q : /\ generations' = [generations EXCEPT ![g] = q]
               /\ q = Idle \/ (generations[g] \in Generation => Continues(q, generations[g]))
  BY Updates DEF WriteClient, Reads, Fail, Stages, Directories, IInv, SchemasTyped, Schemas, Builds
<1> QED BY <1>1, <1>2, <1>3, Step

(* The last read after a failure ends.                                          *)
LEMMA EndFailedInv == ASSUME IInv, NEW g \in 1..MaxGenerations, EndFailed(g) PROVE IInv'
<1>1. generations[g].stage # "idle" /\ UNCHANGED <<clock, text, cache>>
  BY DEF EndFailed, files
<1>2. SchemasTyped'
  BY <1>1, NotIdle DEF EndFailed, IInv, SchemasTyped, Schemas, GenerationsAreFresh, Generation
<1>3. PICK q : /\ generations' = [generations EXCEPT ![g] = q]
               /\ q = Idle \/ (generations[g] \in Generation => Continues(q, generations[g]))
  BY Updates DEF EndFailed, Reads, Fail, Stages, Directories, IInv, SchemasTyped, Schemas, Builds
<1> QED BY <1>1, <1>2, <1>3, Step

(* The endpoint answers.                                                        *)
LEMMA IntrospectInv == ASSUME IInv, NEW g \in 1..MaxGenerations, Introspect(g) PROVE IInv'
<1>1. generations[g].stage # "idle" /\ UNCHANGED <<clock, text, cache>>
  BY DEF Introspect, files
<1>2. SchemasTyped'
  BY <1>1, NotIdle DEF Introspect, Responses, Introspected, Posted, IInv, SchemasTyped, Schemas, GenerationsAreFresh, Generation
<1>3. PICK q : /\ generations' = [generations EXCEPT ![g] = q]
               /\ q = Idle \/ (generations[g] \in Generation => Continues(q, generations[g]))
  BY Updates DEF Introspect, Responses, Introspected, Posted, Reads, Fail, Stages, Directories, IInv, SchemasTyped, Schemas, Builds
<1> QED BY <1>1, <1>2, <1>3, Step

(* The answer is kept and used.                                                 *)
LEMMA UseAnswerInv == ASSUME IInv, NEW g \in 1..MaxGenerations, UseAnswer(g) PROVE IInv'
<1>1. generations[g].stage # "idle" /\ UNCHANGED <<clock, text, cache>>
  BY DEF UseAnswer, files
<1>2. SchemasTyped'
  BY <1>1, NotIdle DEF UseAnswer, IInv, SchemasTyped, Schemas, GenerationsAreFresh, Generation
<1>3. PICK q : /\ generations' = [generations EXCEPT ![g] = q]
               /\ q = Idle \/ (generations[g] \in Generation => Continues(q, generations[g]))
  BY Updates DEF UseAnswer, Reads, Fail, Stages, Directories, IInv, SchemasTyped, Schemas, Builds
<1> QED BY <1>1, <1>2, <1>3, Step

(* The kept answer is used.                                                     *)
LEMMA FallBackInv == ASSUME IInv, NEW g \in 1..MaxGenerations, FallBack(g) PROVE IInv'
<1>1. generations[g].stage # "idle" /\ UNCHANGED <<clock, text, cache>>
  BY DEF FallBack, files
<1>2. SchemasTyped'
  BY <1>1, NotIdle DEF FallBack, IInv, SchemasTyped, Schemas, GenerationsAreFresh, Generation
<1>3. PICK q : /\ generations' = [generations EXCEPT ![g] = q]
               /\ q = Idle \/ (generations[g] \in Generation => Continues(q, generations[g]))
  BY Updates DEF FallBack, Reads, Fail, Stages, Directories, IInv, SchemasTyped, Schemas, Builds
<1> QED BY <1>1, <1>2, <1>3, Step

(* A list is read, or the folder is gone.                                        *)
LEMMA ReadDirInv == ASSUME IInv, NEW g \in 1..MaxGenerations, ReadDir(g) PROVE IInv'
<1>1. generations[g].stage # "idle" /\ UNCHANGED <<clock, text, cache>>
  BY DEF ReadDir, files
<1>2. SchemasTyped'
  BY DEF ReadDir, IInv, SchemasTyped, Schemas
<1> DEFINE here(d) == {p \in Files : In[p] = d /\ text[p] # 0}
           inside(d) == {p \in Folders \cap folders : In[p] = d}
           read(d) == [generations[g] EXCEPT !.stats = @ \cup here(d),
                                             !.lists = (@ \ {d}) \cup inside(d)]
<1>3. PICK d \in generations[g].lists :
        generations' = [generations EXCEPT ![g] =
          IF d \notin folders \cup Directories THEN Fail(g) ELSE read(d)]
  BY DEF ReadDir
<1>4. generations[g] \in Generation /\ g \in DOMAIN generations
  BY <1>1, NotIdle DEF IInv, GenerationsAreFresh
<1>5. Continues(Fail(g), generations[g])
  BY <1>4, Updates DEF Fail, Stages
<1>6. Continues(read(d), generations[g])
  <2>1. here(d) \in SUBSET Files /\ inside(d) \in SUBSET (Directories \cup Folders)
    OBVIOUS
  <2>2. generations[g].stats \in SUBSET Files /\ generations[g].lists \in SUBSET (Directories \cup Folders)
    BY <1>4 DEF Generation
  <2> HIDE DEF here, inside
  <2>3. /\ generations[g].stats \cup here(d) \in SUBSET Files
        /\ (generations[g].lists \ {d}) \cup inside(d) \in SUBSET (Directories \cup Folders)
    BY <2>1, <2>2
  <2> QED BY <1>4, <2>3, Updates DEF Stages
<1> HIDE DEF read
<1>7. CASE d \notin folders \cup Directories
  BY <1>1, <1>2, <1>3, <1>5, <1>7, Step
<1>8. CASE d \in folders \cup Directories
  BY <1>1, <1>2, <1>3, <1>6, <1>8, Step
<1> QED BY <1>7, <1>8

(* stat(): a cached document is at least as new as the file that is there.       *)
LEMMA StatFileInv == ASSUME IInv, NEW g \in 1..MaxGenerations, StatFile(g) PROVE IInv'
<1>1. generations[g].stage # "idle" /\ UNCHANGED <<clock, text, cache>>
  BY DEF StatFile, files
<1>2. SchemasTyped' /\ CacheIsHonest'
  BY DEF StatFile, IInv, SchemasTyped, Schemas, CacheIsHonest, EntryIsHonest
<1>3. /\ generations[g] \in Generation /\ g \in DOMAIN generations
      /\ NotLater(generations[g].since) /\ NotLater(generations[g].reads)
      /\ \A f \in DOMAIN generations[g].texts :
           generations[g].texts[f] >= generations[g].since[f]
  BY <1>1, NotIdle DEF IInv, GenerationsAreFresh
<1> DEFINE r == generations[g]
           after(f) == [r EXCEPT !.stats = @ \ {f}]
<1>4. PICK f \in r.stats :
        generations' = [generations EXCEPT ![g] =
          IF text[f] = 0 THEN [Fail(g) EXCEPT !.stats = @ \ {f}]
          ELSE IF cache[f] # None /\ cache[f].mtime >= text[f]
          THEN [after(f) EXCEPT !.texts = With(@, f, cache[f].document)]
          ELSE [after(f) EXCEPT !.reads = With(@, f, text[f])]]
  BY DEF StatFile
<1>5. f \in Files /\ text[f] \in Nat /\ text[f] <= clock /\ clock \in Nat
  BY <1>3 DEF Generation, IInv, ClockBounds
<1>6. /\ r.texts \in Times /\ r.reads \in Times /\ r.since \in [Files -> Nat]
      /\ r.stats \ {f} \in SUBSET Files
  BY <1>3 DEF Generation
<1>7. CASE text[f] = 0
  <2> DEFINE q == [Fail(g) EXCEPT !.stats = @ \ {f}]
  <2>1. q = [[r EXCEPT !.stage = "failed", !.lists = {}] EXCEPT !.stats = r.stats \ {f}]
    BY <1>3 DEF Fail, Generation
  <2>2. Continues(q, r)
    BY <1>3, <1>6, <2>1, Updates DEF Stages
  <2>3. generations' = [generations EXCEPT ![g] = q]
    BY <1>4, <1>7
  <2> HIDE DEF q
  <2> QED BY <1>1, <1>2, <2>2, <2>3, Step
<1>8. CASE text[f] # 0 /\ cache[f] # None /\ cache[f].mtime >= text[f]
  <2>1. cache[f].document \in Nat /\ cache[f].document >= text[f]
    BY <1>5, <1>8 DEF IInv, CacheIsHonest, EntryIsHonest
  <2>2. text[f] >= r.since[f]
    BY <1>3, <1>5, <1>6, <1>8 DEF NotLater
  <2> DEFINE texts == With(r.texts, f, cache[f].document)
             q == [after(f) EXCEPT !.texts = texts]
  <2>3. /\ texts \in Times /\ DOMAIN texts = DOMAIN r.texts \cup {f}
        /\ texts[f] = cache[f].document
        /\ \A e \in DOMAIN r.texts : e # f => texts[e] = r.texts[e]
    <3>1. f \in Files /\ r.texts \in Times /\ cache[f].document \in Nat
      BY <1>5, <1>6, <2>1
    <3>2. texts \in Times /\ Adds(r.texts, f, cache[f].document, texts)
      BY <3>1, AddedTime
    <3> QED BY <3>2 DEF Adds
  <2>4. generations' = [generations EXCEPT ![g] = q]
    BY <1>3, <1>4, <1>8 DEF Generation
  <2> HIDE DEF texts
  <2>5. q \in Generation /\ q.texts = texts /\ q.since = r.since /\ q.reads = r.reads
    BY <1>3, <1>6, <2>3 DEF Generation
  <2>6. \A e \in DOMAIN texts : texts[e] >= r.since[e]
    <3>1. cache[f].document >= r.since[f]
      BY <1>5, <1>6, <2>1, <2>2
    <3> QED BY <1>3, <2>3, <3>1
  <2>7. GenerationIsFresh(q)
    BY <1>3, <2>5, <2>6 DEF GenerationIsFresh
  <2> QED BY <1>1, <1>2, <2>4, <2>7, OneGeneration
<1>9. CASE text[f] # 0 /\ ~(cache[f] # None /\ cache[f].mtime >= text[f])
  <2> DEFINE reads == With(r.reads, f, text[f])
             q == [after(f) EXCEPT !.reads = reads]
  <2>1. /\ reads \in Times /\ DOMAIN reads = DOMAIN r.reads \cup {f}
        /\ reads[f] = text[f]
        /\ \A e \in DOMAIN r.reads : e # f => reads[e] = r.reads[e]
    <3>1. f \in Files /\ r.reads \in Times /\ text[f] \in Nat
      BY <1>5, <1>6
    <3>2. reads \in Times /\ Adds(r.reads, f, text[f], reads)
      BY <3>1, AddedTime
    <3> QED BY <3>2 DEF Adds
  <2>2. generations' = [generations EXCEPT ![g] = q]
    BY <1>3, <1>4, <1>9 DEF Generation
  <2> HIDE DEF reads
  <2>3. q \in Generation /\ q.texts = r.texts /\ q.since = r.since /\ q.reads = reads
    BY <1>3, <1>6, <2>1 DEF Generation
  <2>4. NotLater(reads)
    <3>1. text[f] >= text[f]
      BY <1>5
    <3> QED BY <1>3, <1>5, <2>1, <3>1 DEF NotLater
  <2>5. GenerationIsFresh(q)
    BY <1>3, <2>3, <2>4 DEF GenerationIsFresh
  <2> QED BY <1>1, <1>2, <2>2, <2>5, OneGeneration
<1> QED BY <1>7, <1>8, <1>9

(* readFile(): what is cached was read after the time it is cached under.        *)
LEMMA ReadFileInv == ASSUME IInv, NEW g \in 1..MaxGenerations, ReadFile(g) PROVE IInv'
<1>1. generations[g].stage # "idle" /\ UNCHANGED <<clock, text>>
  BY DEF ReadFile, FinishReadFile, files
<1>2. SchemasTyped'
  BY DEF ReadFile, FinishReadFile, IInv, SchemasTyped, Schemas
<1>3. /\ generations[g] \in Generation /\ g \in DOMAIN generations
      /\ NotLater(generations[g].since) /\ NotLater(generations[g].reads)
      /\ \A f \in DOMAIN generations[g].texts :
           generations[g].texts[f] >= generations[g].since[f]
  BY <1>1, NotIdle DEF IInv, GenerationsAreFresh
<1> DEFINE r == generations[g]
           less(f) == Restrict(r.reads, DOMAIN r.reads \ {f})
           failed(f) == [Fail(g) EXCEPT !.reads = less(f)]
           done(f) == [r EXCEPT !.reads = less(f), !.texts = With(@, f, text[f])]
<1>4. PICK f \in DOMAIN r.reads :
        \/ /\ generations' = [generations EXCEPT ![g] = failed(f)]
           /\ UNCHANGED cache
        \/ /\ text[f] # 0
           /\ generations' = [generations EXCEPT ![g] = done(f)]
           /\ cache' = [cache EXCEPT ![f] = [mtime |-> r.reads[f], document |-> text[f]]]
  BY DEF ReadFile, FinishReadFile
<1>5. /\ r.texts \in Times /\ r.reads \in Times /\ r.since \in [Files -> Nat]
  BY <1>3 DEF Generation
<1>6. f \in Files /\ r.reads[f] \in Nat
  BY <1>5, TimesFacts
<1>7. text[f] \in Nat /\ text[f] <= clock /\ clock \in Nat
  BY <1>6 DEF IInv, ClockBounds
<1>8. less(f) \in Times /\ NotLater(less(f))
  <2>1. less(f) \in Times /\ DOMAIN less(f) = DOMAIN r.reads \ {f}
        /\ \A e \in DOMAIN less(f) : less(f)[e] = r.reads[e]
    BY <1>5, TakenTime
  <2> HIDE DEF less
  <2> QED BY <1>3, <2>1 DEF NotLater
<1> HIDE DEF less
<1>9. CASE generations' = [generations EXCEPT ![g] = failed(f)] /\ UNCHANGED cache
  <2>1. /\ failed(f) \in Generation /\ failed(f).texts = r.texts
        /\ failed(f).since = r.since /\ failed(f).reads = less(f)
    BY <1>3, <1>8 DEF Fail, Generation, Stages
  <2>2. GenerationIsFresh(failed(f))
    BY <1>3, <1>8, <2>1 DEF GenerationIsFresh
  <2>3. CacheIsHonest'
    BY <1>9 DEF IInv, CacheIsHonest, EntryIsHonest
  <2> QED BY <1>1, <1>2, <1>9, <2>2, <2>3, OneGeneration
<1>10. CASE /\ text[f] # 0
            /\ generations' = [generations EXCEPT ![g] = done(f)]
            /\ cache' = [cache EXCEPT ![f] = [mtime |-> r.reads[f], document |-> text[f]]]
  <2> DEFINE texts == With(r.texts, f, text[f])
  <2>1. /\ texts \in Times /\ DOMAIN texts = DOMAIN r.texts \cup {f}
        /\ texts[f] = text[f]
        /\ \A e \in DOMAIN r.texts : e # f => texts[e] = r.texts[e]
    <3>1. f \in Files /\ r.texts \in Times /\ text[f] \in Nat
      BY <1>5, <1>6, <1>7
    <3>2. texts \in Times /\ Adds(r.texts, f, text[f], texts)
      BY <3>1, AddedTime
    <3> QED BY <3>2 DEF Adds
  <2>2. done(f) = [r EXCEPT !.reads = less(f), !.texts = texts]
    BY <1>3 DEF Generation
  <2> HIDE DEF texts
  <2>3. /\ done(f) \in Generation /\ done(f).texts = texts
        /\ done(f).since = r.since /\ done(f).reads = less(f)
    BY <1>3, <1>8, <2>1, <2>2 DEF Generation
  <2>4. text[f] >= r.since[f]
    BY <1>3, <1>5, <1>6, <1>10 DEF NotLater
  <2>5. GenerationIsFresh(done(f))
    <3>1. \A e \in DOMAIN texts : texts[e] >= r.since[e]
      BY <1>3, <2>1, <2>4
    <3> QED BY <1>8, <1>3, <2>3, <3>1 DEF GenerationIsFresh
  <2>6. text[f] >= r.reads[f]
    BY <1>3, <1>10 DEF NotLater
  <2>7. CacheIsHonest'
    BY <1>6, <1>7, <1>10, <2>6 DEF IInv, CacheIsHonest, EntryIsHonest
  <2> QED BY <1>1, <1>2, <1>10, <2>5, <2>7, OneGeneration
<1> QED BY <1>4, <1>9, <1>10

--------------------------------------------------------------------------------
(* Steps of the file system, the endpoint, the watchers and the timer *)

(* Whatever changes gets the time of now, which nothing noted is later than.     *)
LEMMA Later ==
  ASSUME IInv, clock' = clock + 1, text' \in [Files -> 0..clock'],
         \A f \in Files : text'[f] \in {text[f], 0, clock + 1},
         UNCHANGED <<generations, cache>>, SchemasTyped'
  PROVE  IInv'
<1>1. ClockBounds'
  BY DEF IInv, ClockBounds
<1>2. CacheIsHonest'
  BY DEF IInv, CacheIsHonest, EntryIsHonest
<1>3. ASSUME NEW times \in Times, NotLater(times)
      PROVE  NotLater(times)'
  <2>1. SUFFICES ASSUME NEW f \in DOMAIN times
                 PROVE  times[f] <= clock' /\ (text'[f] = 0 \/ text'[f] >= times[f])
    BY DEF NotLater
  <2>2. f \in Files /\ times[f] \in Nat
    BY TimesFacts
  <2>3. times[f] <= clock /\ (text[f] = 0 \/ text[f] >= times[f])
    BY <1>3 DEF NotLater
  <2>4. clock \in Nat /\ text[f] \in Nat
    BY <2>2 DEF IInv, ClockBounds
  <2> QED BY <2>2, <2>3, <2>4
<1>4. ASSUME NEW g \in 1..MaxGenerations
      PROVE  GenerationIsFresh(generations[g])'
  <2>1. GenerationIsFresh(generations[g])
    BY DEF IInv, GenerationsAreFresh
  <2>2. CASE generations[g] = Idle
    BY <2>2 DEF GenerationIsFresh, Idle
  <2>3. CASE generations[g] # Idle
    <3>1. /\ generations[g] \in Generation
          /\ NotLater(generations[g].since) /\ NotLater(generations[g].reads)
          /\ \A f \in DOMAIN generations[g].texts :
               generations[g].texts[f] >= generations[g].since[f]
      BY <2>1, <2>3 DEF GenerationIsFresh
    <3>2. generations[g].since \in [Files -> Nat] /\ generations[g].reads \in Times
      BY <3>1 DEF Generation
    <3>3. [Files -> Nat] \in {[S -> Nat] : S \in SUBSET Files}
      OBVIOUS
    <3>4. generations[g].since \in Times
      BY <3>2, <3>3 DEF Times
    <3>5. NotLater(generations[g].since)' /\ NotLater(generations[g].reads)'
      <4>1. \A times \in Times : NotLater(times) => NotLater(times)'
        BY <1>3
      <4> QED BY <3>1, <3>2, <3>4, <4>1 DEF NotLater
    <3> QED BY <3>1, <3>5 DEF GenerationIsFresh
  <2> QED BY <2>2, <2>3
<1>5. GenerationsAreFresh'
  BY <1>4 DEF IInv, GenerationsAreFresh
<1> QED BY <1>1, <1>2, <1>5 DEF IInv

(* A file is created, edited or removed.                                         *)
LEMMA ChangeInv == ASSUME IInv, NEW f \in Files, Change(f) PROVE IInv'
<1>1. clock' = clock + 1 /\ UNCHANGED <<generations, cache>>
  BY DEF Change, Tick
<1>2. SchemasTyped'
  BY DEF Change, IInv, SchemasTyped, Schemas
<1>3. clock \in Nat /\ text \in [Files -> 0..clock]
  BY DEF IInv, ClockBounds
<1>4. text' = [text EXCEPT ![f] = clock + 1] \/ text' = [text EXCEPT ![f] = 0]
  BY DEF Change
<1>5. text' \in [Files -> 0..clock'] /\ \A e \in Files : text'[e] \in {text[e], 0, clock + 1}
  BY <1>1, <1>3, <1>4
<1> QED BY <1>1, <1>2, <1>5, Later

(* A folder comes or goes, with its files.                                       *)
LEMMA MoveInv == ASSUME IInv, NEW p \in Folders \cup Others, Move(p) PROVE IInv'
<1>1. clock' = clock + 1 /\ UNCHANGED <<generations, cache>>
  BY DEF Move, Tick
<1>2. SchemasTyped'
  BY DEF Move, IInv, SchemasTyped, Schemas
<1>3. clock \in Nat /\ text \in [Files -> 0..clock]
  BY DEF IInv, ClockBounds
<1>4. text' = [f \in Files |-> IF f \notin {q \in Paths : p \in Above[q]} THEN text[f]
                               ELSE IF p \notin folders THEN clock + 1 ELSE 0]
  BY DEF Move
<1>5. text' \in [Files -> 0..clock'] /\ \A e \in Files : text'[e] \in {text[e], 0, clock + 1}
  BY <1>1, <1>3, <1>4
<1> QED BY <1>1, <1>2, <1>5, Later

(* The endpoint goes down, answers something else or another schema.             *)
LEMMA EndpointChangesInv == ASSUME IInv, EndpointChanges PROVE IInv'
<1>1. clock' = clock + 1 /\ UNCHANGED <<generations, cache, text, kept, answered>>
      /\ endpoint' \in {Down, NoSchema, clock + 1}
  BY DEF EndpointChanges, Tick
<1>2. clock \in Nat /\ text \in [Files -> 0..clock]
  BY DEF IInv, ClockBounds
<1>3. SchemasTyped'
  BY <1>1, <1>2 DEF IInv, SchemasTyped, Schemas
<1>4. text' \in [Files -> 0..clock'] /\ \A e \in Files : text'[e] \in {text[e], 0, clock + 1}
  BY <1>1, <1>2
<1> QED BY <1>1, <1>3, <1>4, Later

(* Nothing that the invariant speaks of changes.                                 *)
LEMMA Untouched ==
  ASSUME IInv, UNCHANGED <<clock, text, generations, cache, endpoint, kept, answered>>
  PROVE  IInv'
BY DEF IInv, ClockBounds, SchemasTyped, CacheIsHonest, EntryIsHonest, GenerationsAreFresh,
       GenerationIsFresh, NotLater

(* A generation begins: it notes the texts as they are.                          *)
LEMMA FireInv == ASSUME IInv, Fire PROVE IInv'
<1>1. PICK g \in 1..MaxGenerations : generations' = [generations EXCEPT ![g] = NewGeneration]
  BY DEF Fire, IInv, GenerationsAreFresh
<1>2. UNCHANGED <<clock, text, cache, endpoint, kept, answered>>
  BY DEF Fire, files
<1>3. clock \in Nat /\ text \in [Files -> 0..clock]
  BY DEF IInv, ClockBounds
<1>4. NewGeneration \in Generation
  <2>1. text \in [Files -> Nat]
    BY <1>3
  <2> QED BY <1>3, <2>1, NoTimes DEF NewGeneration, Generation, Stages, Schemas
<1>5. NotLater(text)
  BY <1>3 DEF NotLater
<1>6. GenerationIsFresh(NewGeneration)
  <2>1. NotLater(<<>>)
    BY NoTimes DEF NotLater
  <2> QED BY <1>4, <1>5, <2>1, NoTimes DEF GenerationIsFresh, NewGeneration
<1>7. SchemasTyped' /\ CacheIsHonest'
  BY <1>2 DEF IInv, SchemasTyped, CacheIsHonest, EntryIsHonest
<1> QED BY <1>1, <1>2, <1>6, <1>7, OneGeneration

--------------------------------------------------------------------------------
(* The first generation begins on the files as they are.                         *)
LEMMA InitInv == Init => IInv
<1> SUFFICES ASSUME Init PROVE IInv
  OBVIOUS
<1>1. clock = 1 /\ text \in [Files -> 0..1] /\ answered = 0
  BY DEF Init
<1>2. ClockBounds
  BY <1>1 DEF ClockBounds
<1>3. SchemasTyped
  BY DEF Init, SchemasTyped, Schemas
<1>4. CacheIsHonest
  BY DEF Init, CacheIsHonest, EntryIsHonest
<1>5. NewGeneration \in Generation
  <2>1. text \in [Files -> Nat]
    BY <1>1
  <2> QED BY <1>1, <2>1, NoTimes DEF NewGeneration, Generation, Stages, Schemas
<1>6. GenerationIsFresh(NewGeneration)
  <2>1. NotLater(text)
    BY <1>1 DEF NotLater
  <2>2. NotLater(<<>>)
    BY NoTimes DEF NotLater
  <2> QED BY <1>5, <2>1, <2>2, NoTimes DEF GenerationIsFresh, NewGeneration
<1>7. generations = [g \in 1..MaxGenerations |-> IF g = 1 THEN NewGeneration ELSE Idle]
  BY DEF Init
<1>8. GenerationsAreFresh
  BY <1>6, <1>7 DEF GenerationsAreFresh, GenerationIsFresh
<1> QED BY <1>2, <1>3, <1>4, <1>8 DEF IInv

(* No step of the files, the endpoint, the watchers or a generation breaks it.   *)
LEMMA NextInv == IInv /\ [Next]_vars => IInv'
<1> SUFFICES ASSUME IInv, [Next]_vars PROVE IInv'
  OBVIOUS
<1>1. CASE UNCHANGED vars
  BY <1>1, Untouched DEF vars, files
<1>2. CASE Environment
  BY <1>2, ChangeInv, MoveInv, EndpointChangesInv DEF Environment
<1>3. CASE \E g \in DOMAIN generations :
             \/ ReadDir(g) \/ StatFile(g) \/ ReadFile(g)
             \/ StartServer(g) \/ BuildServer(g) \/ WriteServer(g)
             \/ StartClient(g) \/ Introspect(g) \/ UseAnswer(g) \/ FallBack(g)
             \/ BuildClientSchema(g) \/ BuildClient(g) \/ WriteClient(g)
             \/ EndFailed(g)
  <2>1. DOMAIN generations = 1..MaxGenerations
    BY DEF IInv, GenerationsAreFresh
  <2> QED BY <1>3, <2>1, ReadDirInv, StatFileInv, ReadFileInv, StartServerInv, BuildServerInv,
             WriteServerInv, StartClientInv, IntrospectInv, UseAnswerInv, FallBackInv,
             BuildClientSchemaInv, BuildClientInv, WriteClientInv, EndFailedInv
<1>4. CASE EndRun
  BY <1>4, Untouched DEF EndRun
<1>5. CASE \E n \in notices : Notice(n)
  BY <1>5, Untouched DEF Notice
<1>6. CASE Fire
  BY <1>6, FireInv
<1>7. CASE FireForNothing
  BY <1>7, Untouched DEF FireForNothing, files
<1> QED BY <1>1, <1>2, <1>3, <1>4, <1>5, <1>6, <1>7 DEF Next, System

(* What a generation has read is at least as new as when it began.               *)
LEMMA IInvReadsAreFresh == IInv => ReadsAreFresh
<1> SUFFICES ASSUME IInv, NEW g \in Running, NEW f \in DOMAIN generations[g].texts
             PROVE  generations[g].texts[f] >= generations[g].since[f]
  BY DEF ReadsAreFresh
<1>1. g \in 1..MaxGenerations /\ generations[g].stage # "idle"
  BY DEF Running, Active, IInv, GenerationsAreFresh
<1> QED BY <1>1, NotIdle DEF IInv, GenerationsAreFresh

(* The invariant holds throughout.                                               *)
THEOREM Invariant == Spec => []IInv
BY InitInv, NextInv, PTL DEF Spec

(* Each generation works with the files as they were when it began, or newer,    *)
(* whatever the cache holds from generations before it and beside it.            *)
THEOREM Freshness == Spec => []ReadsAreFresh
BY Invariant, IInvReadsAreFresh, PTL

(* The times of the cache never promise more than its documents hold.            *)
THEOREM HonestCache == Spec => []CacheIsHonest
<1>1. IInv => CacheIsHonest
  BY DEF IInv
<1> QED BY Invariant, <1>1, PTL

--------------------------------------------------------------------------------
(* The client is generated from the last answer                                  *)

\* One generation runs on its own, as it does if none have overlapped.
OneRuns ==
  /\ ~overlapped => OnItsOwn
  /\ OnItsOwn => \A g, h \in Running : g = h

\* The last answer is kept, until the next is used.
LastIsKept ==
  /\ options.introspection = "file" /\ ~overlapped /\ answered # 0
  /\ \A g \in Running : generations[g].stage # "answered"
  => kept = answered

Reading == {"server", "client", "operations"}

NothingLeft(r) == r.lists = {} /\ r.stats = {} /\ r.reads = <<>>

\* A generation that has a schema has the last answer; only some stages read files.
HasLast(r) ==
  /\ r.stage \notin Reading => NothingLeft(r)
  /\ r.stage = "client" => options.introspection = "none"
  /\ options.introspection = "file" =>
       /\ r.stage = "answered" /\ OnItsOwn => r.schema = answered
       /\ r.stage \in {"operations", "writeClient"} /\ ~overlapped /\ answered # 0 =>
            r.schema = answered

LInv == OneRuns /\ LastIsKept /\ \A g \in Running : HasLast(generations[g])

(* Which generations run after a step of one                                     *)
LEMMA WhoRuns ==
  ASSUME IInv, NEW g \in 1..MaxGenerations, NEW q,
         generations' = [generations EXCEPT ![g] = q]
  PROVE  /\ g \in Running' <=> q.stage \notin {"idle", "failed"}
         /\ \A h : h # g => (h \in Running' <=> h \in Running)
         /\ generations'[g] = q
         /\ \A h \in Running : h # g => generations'[h] = generations[h]
         /\ generations[g].stage \notin {"idle", "failed"} <=> g \in Running
         /\ Running \subseteq 1..MaxGenerations
BY DEF IInv, GenerationsAreFresh, Running, Active

(* A step that neither answers nor uses an answer.                               *)
LEMMA LastStep ==
  ASSUME IInv, LInv, NEW g \in 1..MaxGenerations, NEW q,
         generations' = [generations EXCEPT ![g] = q],
         generations[g].stage # "answered", q.stage # "answered",
         q.stage \notin {"idle", "failed"} => g \in Running /\ HasLast(q),
         UNCHANGED <<options, kept, answered, overlapped>>, OnItsOwn' <=> OnItsOwn
  PROVE  LInv'
<1>1. OneRuns'
  <2>1. Running' \subseteq Running
    BY WhoRuns
  <2> QED BY <2>1 DEF LInv, OneRuns
<1>2. LastIsKept'
  BY WhoRuns DEF LInv, LastIsKept
<1>3. ASSUME NEW h \in Running' PROVE HasLast(generations[h])'
  <2>1. CASE h = g
    <3>1. generations'[h] = q /\ HasLast(q)
      BY <1>3, <2>1, WhoRuns
    <3> QED BY <3>1 DEF HasLast
  <2>2. CASE h # g
    <3>1. generations'[h] = generations[h] /\ h \in Running
      BY <1>3, <2>2, WhoRuns
    <3>2. HasLast(generations[h])
      BY <3>1 DEF LInv
    <3> QED BY <3>1, <3>2 DEF HasLast
  <2> QED BY <2>1, <2>2
<1> QED BY <1>1, <1>2, <1>3 DEF LInv

(* What is read goes into the generation's lists and texts, and no further.      *)
LEMMA ReadingLast ==
  ASSUME IInv, LInv, NEW g \in 1..MaxGenerations, ReadDir(g) \/ StatFile(g) \/ ReadFile(g)
  PROVE  LInv'
<1> DEFINE r == generations[g]
<1>1. r.stage # "idle" /\ r \in Generation
  BY NotIdle DEF ReadDir, StatFile, ReadFile, IInv, GenerationsAreFresh
<1>2. PICK q : /\ generations' = [generations EXCEPT ![g] = q]
               /\ q.stage \in {"failed", r.stage} /\ q.schema = r.schema
  <2>1. CASE ReadDir(g)
    <3> DEFINE read(d) == [r EXCEPT !.stats = @ \cup {p \in Files : In[p] = d /\ text[p] # 0},
                                    !.lists = (@ \ {d}) \cup {p \in Folders \cap folders : In[p] = d}]
    <3>1. PICK d : generations' = [generations EXCEPT ![g] =
                     IF d \notin folders \cup Directories THEN Fail(g) ELSE read(d)]
      BY <2>1, ZenonT(30) DEF ReadDir
    <3>2. \A x \in {Fail(g), read(d)} :
            x.stage \in {"failed", r.stage} /\ x.schema = r.schema
      BY <1>1 DEF Fail, Generation
    <3> HIDE DEF read
    <3> QED BY <3>1, <3>2
  <2>2. CASE StatFile(g)
    <3> DEFINE after(f) == [r EXCEPT !.stats = @ \ {f}]
    <3>1. PICK f \in r.stats :
            generations' = [generations EXCEPT ![g] =
              IF text[f] = 0 THEN [Fail(g) EXCEPT !.stats = @ \ {f}]
              ELSE IF cache[f] # None /\ cache[f].mtime >= text[f]
              THEN [after(f) EXCEPT !.texts = With(@, f, cache[f].document)]
              ELSE [after(f) EXCEPT !.reads = With(@, f, text[f])]]
      BY <2>2 DEF StatFile
    <3>2. \A x \in {[Fail(g) EXCEPT !.stats = @ \ {f}],
                    [after(f) EXCEPT !.texts = With(@, f, cache[f].document)],
                    [after(f) EXCEPT !.reads = With(@, f, text[f])]} :
            x.stage \in {"failed", r.stage} /\ x.schema = r.schema
      BY <1>1 DEF Fail, Generation
    <3> QED BY <3>1, <3>2
  <2>3. CASE ReadFile(g)
    <3>1. PICK f, entry : f \in DOMAIN r.reads /\ FinishReadFile(g, f, entry)
      BY <2>3 DEF ReadFile
    <3> QED BY <1>1, <3>1 DEF FinishReadFile, Fail, Generation
  <2> QED BY <2>1, <2>2, <2>3
<1>3. UNCHANGED <<options, kept, answered, overlapped>> /\ (OnItsOwn' <=> OnItsOwn)
  BY DEF ReadDir, StatFile, ReadFile, FinishReadFile, files, OnItsOwn
<1>4. g \in Running => HasLast(r)
  BY DEF LInv
<1>5. g \in Running <=> r.stage \notin {"idle", "failed"}
  BY <1>2, WhoRuns
<1>6. r.stage \in Reading \cup {"failed"}
  <2>1. ~NothingLeft(r)
    BY NoTimes DEF ReadDir, StatFile, ReadFile, NothingLeft
  <2> QED BY <1>1, <1>4, <1>5, <2>1 DEF HasLast
<1>7. q.stage \notin {"idle", "failed"} => g \in Running /\ HasLast(q)
  BY <1>1, <1>2, <1>4, <1>5, <1>6 DEF HasLast
<1> QED BY <1>2, <1>3, <1>6, <1>7, LastStep DEF Reading

(* A step from one stage to another                                              *)
LEMMA MovingLast ==
  ASSUME IInv, LInv, NEW g \in 1..MaxGenerations,
         \/ StartServer(g) \/ BuildServer(g) \/ WriteServer(g) \/ StartClient(g)
         \/ BuildClientSchema(g) \/ BuildClient(g) \/ WriteClient(g) \/ EndFailed(g)
  PROVE  LInv'
<1> DEFINE r == generations[g]
<1>1. r.stage \notin {"idle", "answered"} /\ r \in Generation
  BY NotIdle DEF StartServer, BuildServer, WriteServer, StartClient, BuildClientSchema, BuildClient,
     WriteClient, EndFailed, IInv, GenerationsAreFresh
<1>2. UNCHANGED <<options, kept, answered, overlapped>> /\ (OnItsOwn' <=> OnItsOwn)
  BY DEF StartServer, BuildServer, WriteServer, StartClient, BuildClientSchema, BuildClient,
     WriteClient, EndFailed, files, OnItsOwn
<1>3. g \in Running <=> r.stage # "failed"
  BY <1>1 DEF Running, Active, IInv, GenerationsAreFresh
<1>4. r.stage # "failed" => HasLast(r)
  BY <1>3 DEF LInv
<1> SUFFICES ASSUME TRUE
             PROVE  \E q : /\ generations' = [generations EXCEPT ![g] = q]
                           /\ q.stage # "answered"
                           /\ q.stage \notin {"idle", "failed"} =>
                                r.stage # "failed" /\ HasLast(q)
  BY <1>1, <1>2, <1>3, LastStep
<1>5. Idle.stage = "idle" /\ Fail(g).stage = "failed"
  BY <1>1 DEF Idle, Fail, Generation
<1>6. CASE StartServer(g)
  <2>1. r.stage = "start" /\ HasLast(r) /\ NothingLeft(r)
    BY <1>4, <1>6 DEF StartServer, HasLast, Reading
  <2>2. ASSUME NEW q \in {Reads(g, "server", "schema"), [r EXCEPT !.stage = "next"]}
        PROVE  q.stage # "answered" /\ HasLast(q)
    <3>1. CASE q = Reads(g, "server", "schema")
      BY <1>1, <2>1, <3>1 DEF Reads, HasLast, Reading, Generation
    <3>2. CASE q = [r EXCEPT !.stage = "next"]
      BY <1>1, <2>1, <3>2 DEF HasLast, NothingLeft, Reading, Generation
    <3> QED BY <3>1, <3>2
  <2> QED BY <1>6, <2>1, <2>2 DEF StartServer
<1>7. CASE BuildServer(g)
  <2>1. r.stage = "server" /\ HasLast(r) /\ NothingLeft(r)
    BY <1>4, <1>7 DEF BuildServer, AllRead, NothingLeft
  <2>2. \A q \in {[r EXCEPT !.stage = "writeServer"]} : q.stage # "answered" /\ HasLast(q)
    BY <1>1, <2>1 DEF HasLast, NothingLeft, Generation
  <2> QED BY <1>5, <1>7, <2>1, <2>2 DEF BuildServer
<1>8. CASE WriteServer(g)
  <2>1. r.stage = "writeServer" /\ HasLast(r) /\ NothingLeft(r)
    BY <1>4, <1>8 DEF WriteServer, HasLast, Reading
  <2>2. \A q \in {[r EXCEPT !.stage = "next", !.texts = <<>>]} : q.stage # "answered" /\ HasLast(q)
    BY <1>1, <2>1 DEF HasLast, NothingLeft, Generation
  <2> QED BY <1>8, <2>1, <2>2 DEF WriteServer
<1>9. CASE StartClient(g)
  <2>1. r.stage = "next" /\ HasLast(r) /\ NothingLeft(r)
    BY <1>4, <1>9 DEF StartClient, HasLast, Reading
  <2>2. \A q \in {[r EXCEPT !.stage = "introspect"]} : q.stage # "answered" /\ HasLast(q)
    BY <1>1, <2>1 DEF HasLast, NothingLeft, Generation
  <2>3. CASE options.client /\ options.introspection = "none"
    <3>1. \A q \in {Reads(g, "client", "schema")} : q.stage # "answered" /\ HasLast(q)
      BY <1>1, <2>1, <2>3 DEF Reads, HasLast, NothingLeft, Reading, Generation
    <3> QED BY <1>9, <2>1, <2>3, <3>1 DEF StartClient
  <2> QED BY <1>5, <1>9, <2>1, <2>2, <2>3 DEF StartClient
<1>10. CASE BuildClientSchema(g)
  <2>1. r.stage = "client" /\ HasLast(r)
    BY <1>4, <1>10 DEF BuildClientSchema
  <2>2. \A q \in {Reads(g, "operations", "operations")} : q.stage # "answered" /\ HasLast(q)
    BY <1>1, <2>1 DEF Reads, HasLast, Reading, Generation
  <2> QED BY <1>5, <1>10, <2>1, <2>2 DEF BuildClientSchema
<1>11. CASE BuildClient(g)
  <2>1. r.stage = "operations" /\ HasLast(r) /\ NothingLeft(r)
    BY <1>4, <1>11 DEF BuildClient, AllRead, NothingLeft
  <2>2. \A q \in {[r EXCEPT !.stage = "writeClient"]} : q.stage # "answered" /\ HasLast(q)
    BY <1>1, <2>1 DEF HasLast, NothingLeft, Generation
  <2> QED BY <1>5, <1>11, <2>1, <2>2 DEF BuildClient
<1>12. CASE WriteClient(g) \/ EndFailed(g)
  BY <1>5, <1>12 DEF WriteClient, EndFailed
<1> QED BY <1>6, <1>7, <1>8, <1>9, <1>10, <1>11, <1>12

(* The endpoint answers.                                                         *)
LEMMA IntrospectLast ==
  ASSUME IInv, LInv, NEW g \in 1..MaxGenerations, Introspect(g)
  PROVE  LInv'
<1> DEFINE r == generations[g]
<1>1. r.stage = "introspect" /\ r \in Generation
  BY NotIdle DEF Introspect, IInv, GenerationsAreFresh
<1>2. g \in Running /\ HasLast(r) /\ NothingLeft(r)
  BY <1>1 DEF Running, Active, IInv, GenerationsAreFresh, LInv, HasLast, Reading
<1>3. /\ UNCHANGED <<options, kept, overlapped>> /\ (OnItsOwn' <=> OnItsOwn)
      /\ answered' = IF endpoint # Down THEN endpoint ELSE answered
  BY DEF Introspect, files, OnItsOwn
<1>4. CASE endpoint = Down
  <2>1. Responses # {} /\ \A response \in Responses : ~Introspected(response)
    BY <1>4 DEF Responses, Introspected, Posted
  <2>2. PICK q \in {[r EXCEPT !.stage = "fallback"], Fail(g)} :
          generations' = [generations EXCEPT ![g] = q]
    BY <2>1 DEF Introspect
  <2>3. q.stage # "answered" /\ (q.stage # "failed" => HasLast(q))
    BY <1>1, <1>2, <2>2 DEF Fail, HasLast, NothingLeft, Reading, Generation
  <2> QED BY <1>1, <1>2, <1>3, <1>4, <2>2, <2>3, LastStep
<1>5. CASE endpoint # Down
  <2> DEFINE q == [r EXCEPT !.stage = "answered", !.schema = endpoint]
  <2>1. q.stage = "answered" /\ q.schema = endpoint /\ NothingLeft(q)
    BY <1>1, <1>2 DEF NothingLeft, Generation
  <2>2. generations' = [generations EXCEPT ![g] = q]
    <3>1. \A response \in Responses : Introspected(response)
      BY <1>5 DEF Responses, Introspected, Posted
    <3> QED BY <3>1 DEF Introspect
  <2> HIDE DEF q
  <2>3. OneRuns'
    BY <1>2, <1>3, <2>2, WhoRuns DEF LInv, OneRuns
  <2>4. LastIsKept'
    <3>1. g \in Running' /\ generations'[g].stage = "answered"
      BY <2>1, <2>2, WhoRuns
    <3> QED BY <3>1 DEF LastIsKept
  <2>5. ASSUME NEW h \in Running' PROVE HasLast(generations[h])'
    <3>1. CASE h = g
      <4>1. generations'[h] = q
        BY <2>2, <3>1, WhoRuns
      <4> QED BY <1>3, <1>5, <2>1, <4>1 DEF HasLast
    <3>2. CASE h # g
      <4>1. generations'[h] = generations[h] /\ h \in Running
        BY <2>2, <2>5, <3>2, WhoRuns
      <4>2. HasLast(generations[h]) /\ overlapped /\ ~OnItsOwn
        BY <1>2, <3>2, <4>1 DEF LInv, OneRuns
      <4> QED BY <1>3, <4>1, <4>2 DEF HasLast
    <3> QED BY <3>1, <3>2
  <2> QED BY <2>3, <2>4, <2>5 DEF LInv
<1> QED BY <1>4, <1>5

(* The answer is used, and kept: that of a generation on its own is the last.    *)
LEMMA UseAnswerLast ==
  ASSUME IInv, LInv, NEW g \in 1..MaxGenerations, UseAnswer(g)
  PROVE  LInv'
<1> DEFINE r == generations[g]
<1>1. r.stage = "answered" /\ r \in Generation
  BY NotIdle DEF UseAnswer, IInv, GenerationsAreFresh
<1>2. g \in Running /\ HasLast(r) /\ NothingLeft(r)
  BY <1>1 DEF Running, Active, IInv, GenerationsAreFresh, LInv, HasLast, Reading
<1>3. /\ UNCHANGED <<options, answered>> /\ (OnItsOwn' <=> OnItsOwn)
      /\ overlapped' = (overlapped /\ ~OnItsOwn)
      /\ kept' = IF options.introspection = "file" THEN r.schema ELSE kept
  BY DEF UseAnswer, files, OnItsOwn
<1>4. /\ ~overlapped' => OnItsOwn
      /\ options.introspection = "file" /\ OnItsOwn => r.schema = answered
  BY <1>1, <1>2, <1>3 DEF LInv, OneRuns, HasLast
<1>5. PICK q : /\ generations' = [generations EXCEPT ![g] = q]
               /\ q.stage \in {"operations", "fallback", "failed"}
               /\ q.stage # "failed" => q.schema = r.schema
               /\ q.stage = "fallback" => NothingLeft(q)
  <2> DEFINE reads == Reads(g, "operations", "operations")
             falls == [r EXCEPT !.stage = "fallback"]
  <2>1. reads.schema = r.schema /\ reads.stage = "operations"
    BY <1>1 DEF Reads, Generation
  <2>2. /\ falls.schema = r.schema /\ falls.stage = "fallback" /\ NothingLeft(falls)
        /\ Fail(g).stage = "failed"
    BY <1>1, <1>2 DEF Fail, NothingLeft, Generation
  <2>3. generations' = [generations EXCEPT ![g] =
          IF r.schema # NoSchema THEN reads
          ELSE IF options.introspection = "file" THEN falls ELSE Fail(g)]
    BY DEF UseAnswer
  <2> HIDE DEF reads, falls
  <2> QED BY <2>1, <2>2, <2>3
<1>6. OneRuns'
  BY <1>2, <1>3, <1>4, <1>5, WhoRuns DEF LInv, OneRuns
<1>7. LastIsKept'
  BY <1>3, <1>4 DEF LastIsKept
<1>8. ASSUME NEW h \in Running' PROVE HasLast(generations[h])'
  <2>1. CASE h = g
    <3>1. generations'[h] = q
      <4>1. g \in DOMAIN generations
        BY <1>2 DEF Running
      <4> QED BY <1>5, <2>1, <4>1
    <3>2. h \in Running' => q.stage # "failed"
      BY <1>5, <2>1, WhoRuns
    <3>3. q.stage \in {"operations", "fallback"} /\ q.schema = r.schema
      BY <1>5, <1>8, <3>2
    <3>4. q.stage \notin Reading => NothingLeft(q)
      BY <1>5, <3>3 DEF Reading
    <3>5. options'.introspection = "file" /\ ~overlapped' => q.schema = answered'
      BY <1>3, <1>4, <3>3
    <3> QED BY <3>1, <3>3, <3>4, <3>5 DEF HasLast, Reading, NothingLeft
  <2>2. CASE h # g
    <3>1. generations'[h] = generations[h] /\ h \in Running
      BY <1>5, <1>8, <2>2, WhoRuns
    <3>2. HasLast(generations[h]) /\ overlapped /\ ~OnItsOwn
      BY <1>2, <2>2, <3>1 DEF LInv, OneRuns
    <3> QED BY <1>3, <3>1, <3>2 DEF HasLast
  <2> QED BY <2>1, <2>2
<1> QED BY <1>6, <1>7, <1>8 DEF LInv

(* What was kept is used: nobody else has an answer to use.                      *)
LEMMA FallBackLast ==
  ASSUME IInv, LInv, NEW g \in 1..MaxGenerations, FallBack(g)
  PROVE  LInv'
<1> DEFINE r == generations[g]
<1>1. r.stage = "fallback" /\ r \in Generation
  BY NotIdle DEF FallBack, IInv, GenerationsAreFresh
<1>2. g \in Running
  BY <1>1 DEF Running, Active, IInv, GenerationsAreFresh
<1>3. UNCHANGED <<options, kept, answered, overlapped>> /\ (OnItsOwn' <=> OnItsOwn)
  BY DEF FallBack, files, OnItsOwn
<1>4. ASSUME options.introspection = "file", ~overlapped, answered # 0
      PROVE  kept = answered
  <2>1. \A h \in Running : generations[h].stage # "answered"
    BY <1>1, <1>2, <1>4 DEF LInv, OneRuns
  <2> QED BY <1>4, <2>1 DEF LInv, LastIsKept
<1> DEFINE reads == [Reads(g, "operations", "operations") EXCEPT !.schema = kept]
<1>5. reads.stage = "operations" /\ reads.schema = kept /\ Fail(g).stage = "failed"
  BY <1>1 DEF Reads, Fail, Generation
<1>6. HasLast(reads)
  BY <1>4, <1>5 DEF HasLast, Reading
<1>7. generations' = [generations EXCEPT ![g] =
        IF kept \in {None, NoSchema} THEN Fail(g) ELSE reads]
  BY DEF FallBack
<1> HIDE DEF reads
<1>8. CASE kept \in {None, NoSchema}
  BY <1>1, <1>3, <1>5, <1>7, <1>8, LastStep
<1>9. CASE kept \notin {None, NoSchema}
  BY <1>1, <1>2, <1>3, <1>5, <1>6, <1>7, <1>9, LastStep
<1> QED BY <1>8, <1>9

(* Nothing that matters to it changes.                                           *)
LEMMA LastUntouched ==
  ASSUME LInv, UNCHANGED <<options, generations, kept, answered, overlapped>>, OnItsOwn' <=> OnItsOwn
  PROVE  LInv'
<1>1. Running' = Running
  BY DEF Running, Active
<1> QED BY <1>1 DEF LInv, OneRuns, LastIsKept, HasLast

(* The files change, or the endpoint.                                            *)
LEMMA EnvironmentLast ==
  ASSUME IInv, LInv, Environment
  PROVE  LInv'
<1>1. UNCHANGED <<options, generations, kept, answered, overlapped>>
  BY DEF Environment, Change, Move, EndpointChanges
<1>2. OnItsOwn' <=> OnItsOwn
  BY DEF Environment, Change, Move, EndpointChanges, Missed, OnItsOwn
<1> QED BY <1>1, <1>2, LastUntouched

(* A generation begins, on its own or not.                                       *)
LEMMA FireLast ==
  ASSUME IInv, LInv, Fire
  PROVE  LInv'
<1>1. PICK g \in 1..MaxGenerations : /\ generations[g] = Idle
                                     /\ generations' = [generations EXCEPT ![g] = NewGeneration]
  BY DEF Fire, IInv, GenerationsAreFresh
<1>2. /\ UNCHANGED <<options, kept, answered>>
      /\ overlapped' = (overlapped \/ Running # {})
      /\ OnItsOwn' <=> Running = {}
  BY DEF Fire, files, OnItsOwn
<1>3. NewGeneration.stage = "start" /\ NothingLeft(NewGeneration)
  BY DEF NewGeneration, NothingLeft
<1>4. g \notin Running
  BY <1>1 DEF Idle, Running, Active
<1> HIDE DEF NewGeneration
<1>5. Running = {} => Running' \subseteq {g}
  BY <1>1, WhoRuns
<1>6. OneRuns'
  BY <1>2, <1>5 DEF OneRuns
<1>7. LastIsKept'
  <2>1. Running = {} => \A h \in Running : generations[h].stage # "answered"
    OBVIOUS
  <2> QED BY <1>2, <2>1 DEF LInv, LastIsKept
<1>8. ASSUME NEW h \in Running' PROVE HasLast(generations[h])'
  <2>1. CASE h = g
    <3>1. generations'[h] = NewGeneration
      BY <1>1, <2>1, WhoRuns
    <3> QED BY <1>3, <3>1 DEF HasLast, NothingLeft
  <2>2. CASE h # g
    <3>1. generations'[h] = generations[h] /\ h \in Running
      BY <1>1, <1>8, <2>2, WhoRuns
    <3>2. HasLast(generations[h]) /\ overlapped' /\ ~OnItsOwn'
      BY <1>2, <3>1 DEF LInv
    <3> QED BY <1>2, <3>1, <3>2 DEF HasLast
  <2> QED BY <2>1, <2>2
<1> QED BY <1>6, <1>7, <1>8 DEF LInv

(* To begin with nothing has been answered.                                      *)
LEMMA InitLast == Init => LInv
<1> SUFFICES ASSUME Init PROVE LInv
  OBVIOUS
<1>1. /\ answered = 0 /\ ~overlapped /\ OnItsOwn
      /\ generations = [g \in 1..MaxGenerations |-> IF g = 1 THEN NewGeneration ELSE Idle]
  BY DEF Init, OnItsOwn
<1>2. Running \subseteq {1}
  BY <1>1 DEF Running, Active, Idle
<1>3. OneRuns /\ LastIsKept
  BY <1>1, <1>2 DEF OneRuns, LastIsKept
<1>4. HasLast(NewGeneration)
  BY <1>1 DEF HasLast, NewGeneration, NothingLeft, Reading
<1>5. \A g \in Running : generations[g] = NewGeneration
  BY <1>1, <1>2 DEF Running
<1> QED BY <1>3, <1>4, <1>5 DEF LInv

(* No step breaks it.                                                            *)
LEMMA NextLast == IInv /\ LInv /\ [Next]_vars => LInv'
<1> SUFFICES ASSUME IInv, LInv, [Next]_vars PROVE LInv'
  OBVIOUS
<1>1. CASE UNCHANGED vars
  BY <1>1, LastUntouched DEF vars, OnItsOwn
<1>2. CASE Environment
  BY <1>2, EnvironmentLast
<1>3. CASE \E g \in DOMAIN generations :
             \/ ReadDir(g) \/ StatFile(g) \/ ReadFile(g)
             \/ StartServer(g) \/ BuildServer(g) \/ WriteServer(g)
             \/ StartClient(g) \/ Introspect(g) \/ UseAnswer(g) \/ FallBack(g)
             \/ BuildClientSchema(g) \/ BuildClient(g) \/ WriteClient(g)
             \/ EndFailed(g)
  <2>1. DOMAIN generations = 1..MaxGenerations
    BY DEF IInv, GenerationsAreFresh
  <2> QED BY <1>3, <2>1, ReadingLast, MovingLast, IntrospectLast, UseAnswerLast, FallBackLast
<1>4. CASE EndRun
  BY <1>4, LastUntouched DEF EndRun, OnItsOwn
<1>5. CASE \E n \in notices : Notice(n)
  BY <1>5, LastUntouched DEF Notice, OnItsOwn
<1>6. CASE Fire
  BY <1>6, FireLast
<1>7. CASE FireForNothing
  BY <1>7, LastUntouched DEF FireForNothing, OnItsOwn
<1> QED BY <1>1, <1>2, <1>3, <1>4, <1>5, <1>6, <1>7 DEF Next, System

(* With a file, every client is generated from the endpoint's last answer, which *)
(* the file has when the endpoint gives none; if that was no schema, none is.    *)
(* What overlapping generations do to the file, the next one on its own that     *)
(* gets an answer makes up for.                                                  *)
THEOREM Fallback == Spec => []FallbackIsLastAnswer
<1>1. Spec => []LInv
  BY Invariant, InitLast, NextLast, PTL DEF Spec
<1>2. LInv => FallbackIsLastAnswer
  <2> SUFFICES ASSUME LInv, NEW g \in Running,
                      options.introspection = "file", ~overlapped, answered # 0
               PROVE  /\ generations[g].stage = "fallback" => kept = answered
                      /\ generations[g].stage \in {"operations", "writeClient"} =>
                           generations[g].schema = answered
    BY DEF FallbackIsLastAnswer
  <2>1. generations[g].stage = "fallback" =>
          \A h \in Running : generations[h].stage # "answered"
    BY DEF LInv, OneRuns
  <2> QED BY <2>1 DEF LInv, LastIsKept, HasLast
<1> QED BY <1>1, <1>2, PTL

--------------------------------------------------------------------------------
(* Where paths are                                                               *)

(* A path is above itself, and all that it is in is with it.                     *)
LEMMA AboveClosed ==
  ASSUME NEW x \in Paths
  PROVE  /\ x \in Above[x] /\ Above[x] \subseteq Paths
         /\ \A p \in Above[x] \ Directories : In[p] \in Above[x]
<1>1. \A p \in Paths \ Directories : In[p] \in Paths
  BY LayoutAssumption DEF Paths
<1>2. Above[x] = {p \in Paths : \A S \in SUBSET Paths :
                    x \in S /\ (\A q \in S \ Directories : In[q] \in S) => p \in S}
  BY DEF Above
<1> QED BY <1>1, <1>2

(* It is the least such set.                                                     *)
LEMMA AboveLeast ==
  ASSUME NEW x \in Paths, NEW S \in SUBSET Paths, x \in S,
         \A q \in S \ Directories : In[q] \in S
  PROVE  Above[x] \subseteq S
BY DEF Above

(* What is above something above a path is above the path.                       *)
LEMMA AboveTransitive ==
  ASSUME NEW x \in Paths, NEW p \in Above[x]
  PROVE  Above[p] \subseteq Above[x]
BY AboveClosed, AboveLeast

(* What is above a path is the path, or above what it is in.                     *)
LEMMA AboveIn ==
  ASSUME NEW x \in Paths \ Directories
  PROVE  /\ In[x] \in Directories \cup Folders /\ In[x] \in Paths
         /\ Above[x] = {x} \cup Above[In[x]]
<1>1. In[x] \in Directories \cup Folders /\ In[x] \in Paths
  BY LayoutAssumption DEF Paths
<1>2. {x} \cup Above[In[x]] \subseteq Above[x]
  BY AboveClosed, AboveTransitive
<1> DEFINE S == {x} \cup Above[In[x]]
<1>3. S \in SUBSET Paths /\ x \in S /\ \A q \in S \ Directories : In[q] \in S
  BY <1>1, AboveClosed
<1> HIDE DEF S
<1>4. Above[x] \subseteq S
  BY <1>3, AboveLeast
<1> QED BY <1>1, <1>2, <1>4 DEF S

(* Nothing is above a directory.                                                 *)
LEMMA AboveDirectory ==
  ASSUME NEW d \in Directories
  PROVE  d \in Paths /\ Above[d] = {d}
<1>1. d \in Paths
  BY DEF Paths
<1>2. Above[d] \subseteq {d}
  BY <1>1, AboveLeast
<1> QED BY <1>1, <1>2, AboveClosed

(* Whatever else is above a path is a directory or folder, and has something in  *)
(* it that is above the path.                                                    *)
LEMMA AboveThrough ==
  ASSUME NEW x \in Paths, NEW d \in Above[x], d # x
  PROVE  /\ d \in Directories \cup Folders
         /\ \E c \in Above[x] \ Directories : In[c] = d
<1>1. \E c \in Above[x] \ Directories : In[c] = d
  <2> SUFFICES ASSUME \A c \in Above[x] \ Directories : In[c] # d
               PROVE  FALSE
    OBVIOUS
  <2> DEFINE S == Above[x] \ {d}
  <2>1. S \in SUBSET Paths /\ x \in S /\ \A q \in S \ Directories : In[q] \in S
    BY AboveClosed
  <2>2. d \notin S
    OBVIOUS
  <2> HIDE DEF S
  <2> QED BY <2>1, <2>2, AboveLeast
<1> QED BY <1>1, AboveClosed, AboveIn

(* The directory of a path is the directory of all that is above it.             *)
LEMMA OneDirectory ==
  ASSUME NEW x \in Paths, NEW p \in Above[x], NEW d \in Directories
  PROVE  d \in Above[x] <=> d \in Above[p]
<1>1. Above[p] \subseteq Above[x] /\ Above[x] \subseteq Paths /\ p \in Paths
  BY AboveClosed, AboveTransitive
<1> DEFINE S == {y \in Above[x] : p \in Above[y]} \cup Above[p]
<1>2. S \in SUBSET Paths /\ x \in S
  BY <1>1, AboveClosed
<1>3. ASSUME NEW y \in S \ Directories PROVE In[y] \in S
  <2>1. CASE y \in Above[p]
    BY <1>1, <2>1, AboveClosed
  <2>2. CASE y \in Above[x] /\ p \in Above[y] /\ p # y
    BY <1>1, <1>3, <2>2, AboveClosed, AboveIn
  <2>3. CASE y = p
    BY <1>1, <2>3, AboveClosed
  <2> QED BY <1>3, <2>1, <2>2, <2>3
<1> HIDE DEF S
<1>4. Above[x] \subseteq S
  BY <1>2, <1>3, AboveLeast
<1>5. d \in S => d \in Above[p]
  BY <1>1, AboveClosed, AboveDirectory DEF S
<1> QED BY <1>1, <1>4, <1>5

--------------------------------------------------------------------------------
(* Changes are reflected                                                         *)

\* Of what kind things are
RTypes ==
  /\ \A n \in notices : n.path \in Paths
  /\ DOMAIN flaw = 1..MaxChanges /\ DOMAIN out = {"server", "client"}
  /\ folders \subseteq Folders \cup Others

\* What exists is in a folder that exists.
Rooted ==
  /\ \A f \in Files : text[f] # 0 => In[f] \in folders \cup Directories
  /\ \A p \in folders : In[p] \in folders \cup Directories

\* What exists is watched, or a watcher is about to report something it is in.
CoveredIn(d) ==
  \A p \in Inside(d) :
    p \in watched \/ \E q \in Above[p] : [path |-> q, event |-> "rename"] \in notices

Covered == phase = "watching" => \A d \in WatchedDirectories : CoveredIn(d)

\* The cache holds nothing that is newer than the file.
CacheIsNotLater ==
  \A f \in Files : cache[f] # None =>
    cache[f].document <= clock /\ (text[f] = 0 \/ cache[f].document <= text[f])

\* Has everything that happened been reported, and led to a generation?
Quiet == hurdles = {} /\ notices = {} /\ timer = None /\ phase \in {"generating", "watching"}

\* The directory that is read, and those that a generation is to have read from
Directory(stage) == IF stage = "operations" THEN "operations" ELSE "schema"

Sources(stage) ==
  IF stage \in {"server", "writeServer", "client"} THEN {"schema"}
  ELSE IF stage \in {"operations", "writeClient"} THEN ClientSources ELSE {}

\* A generation has read texts as they are, and only from its directories.
Current(r) ==
  \A f \in DOMAIN r.texts :
    r.texts[f] = text[f] /\ \E d \in Sources(r.stage) : f \in Inside(d)

\* All of a directory is read, or will be.
Covers(r, d) ==
  /\ \A f \in Files \cap Inside(d) :
       f \in DOMAIN r.texts \cup DOMAIN r.reads \cup r.stats \/ Above[f] \cap r.lists # {}
  /\ DOMAIN r.reads \cup r.stats \cup r.lists \subseteq Inside(d)

Complete(r) ==
  /\ r.stage \in Reading => Covers(r, Directory(r.stage))
  /\ r.stage \notin Reading => NothingLeft(r)
  /\ r.stage = "operations" /\ options.introspection = "none" =>
       Files \cap Inside("schema") \subseteq DOMAIN r.texts
  /\ r.stage \in {"writeServer", "writeClient"} =>
       \A d \in Sources(r.stage) : Files \cap Inside(d) \subseteq DOMAIN r.texts

\* A generation is where its options lead it.
OnCourse(r) ==
  /\ r.stage # "fallback"
  /\ r.stage \in {"server", "writeServer"} => options.server
  /\ r.stage \in {"introspect", "answered", "client", "operations", "writeClient"} => options.client
  /\ r.stage = "client" => options.introspection = "none"
  /\ r.stage \in {"introspect", "answered"} => options.introspection # "none"

\* What it has written
Written(r) ==
  r.stage \in {"next", "introspect", "answered", "client", "operations", "writeClient"}
  /\ options.server => out.server = Texts({"schema"})

\* A generation describes the files as they are.
Faithful(r) == Current(r) /\ Complete(r) /\ OnCourse(r) /\ Written(r)

\* All that has to hold while nothing happens
Described ==
  Quiet => /\ \A g \in Running : Faithful(generations[g])
           /\ Running = {} => Reflected

RunsAlone == hurdles = {} => \A g, h \in Running : g = h

RInv == RTypes /\ Rooted /\ Covered /\ CacheIsNotLater /\ RunsAlone /\ Described

--------------------------------------------------------------------------------
(* What exists *)

(* What is in a directory                                                        *)
LEMMA InsideDirectory ==
  ASSUME NEW d \in Directories
  PROVE  /\ d \in Inside(d) /\ Inside(d) \subseteq Paths
         /\ \A p \in Inside(d) : d \in Above[p]
         /\ \A p : p \in Inside(d) /\ p # d <=>
                     /\ p \in (Folders \cap folders) \cup {f \in Files : text[f] # 0}
                     /\ d \in Above[p]
         /\ \A f \in Files : f \in Inside(d) <=> text[f] # 0 /\ d \in Above[f]
         /\ \A p \in Inside(d) : p \in Directories <=> p = d
BY LayoutAssumption, AboveDirectory DEF Inside, Paths

(* What a path of a directory is in exists, and is in the directory as well.     *)
LEMMA InsideIn ==
  ASSUME Rooted, NEW d \in Directories, NEW p \in Inside(d), p # d
  PROVE  In[p] \in Inside(d)
<1>1. p \in Paths \ Directories /\ d \in Above[p]
  BY InsideDirectory
<1>2. d \in Above[In[p]] /\ In[p] \in Directories \cup Folders
  BY <1>1, AboveIn
<1>3. In[p] \in folders \cup Directories
  BY InsideDirectory DEF Rooted
<1>4. In[p] \in Directories => In[p] = d
  BY <1>2, AboveDirectory
<1> QED BY <1>2, <1>3, <1>4, InsideDirectory

(* So does all that is above it.                                                 *)
LEMMA InsideAbove ==
  ASSUME Rooted, NEW d \in Directories, NEW p \in Inside(d), NEW q \in Above[p]
  PROVE  q \in Inside(d)
<1>1. p \in Paths /\ d \in Above[p] /\ Above[p] \subseteq Paths
  BY InsideDirectory, AboveClosed
<1> DEFINE S == Above[p] \cap Inside(d)
<1>2. S \in SUBSET Paths /\ p \in S
  BY <1>1, AboveClosed
<1>3. ASSUME NEW y \in S \ Directories PROVE In[y] \in S
  BY <1>1, AboveClosed, InsideIn
<1> HIDE DEF S
<1> QED BY <1>1, <1>2, <1>3, AboveLeast DEF S

(* Folders and other files are paths of their kinds.                             *)
LEMMA PathKinds ==
  /\ Files \cup Folders \cup Others \cup Directories = Paths
  /\ Files \cap (Folders \cup Others \cup Directories) = {}
  /\ Directories \cap (Folders \cup Others) = {}
BY LayoutAssumption DEF Paths

(* A folder that comes or goes takes along what is in it.                        *)
LEMMA Moved ==
  ASSUME NEW p \in Folders \cup Others
  PROVE  LET moved == {q \in Paths : p \in Above[q]}
         IN  /\ p \in moved /\ p \in Paths /\ moved \cap Directories = {}
             /\ \A q \in Paths \ Directories : q \in moved <=> q = p \/ In[q] \in moved
             /\ In[p] \in Directories \cup Folders
<1> DEFINE moved == {q \in Paths : p \in Above[q]}
<1>1. p \in Paths \ Directories
  BY PathKinds
<1>2. p \in moved /\ moved \cap Directories = {}
  BY <1>1, AboveClosed, AboveDirectory
<1>3. ASSUME NEW q \in Paths \ Directories PROVE q \in moved <=> q = p \/ In[q] \in moved
  BY <1>1, <1>3, AboveIn, AboveClosed
<1>4. In[p] \in Directories \cup Folders
  BY <1>1, AboveIn
<1> QED BY <1>1, <1>2, <1>3, <1>4

(* A file comes or goes or changes: what exists stays in what exists.            *)
LEMMA ChangeRooted ==
  ASSUME IInv, RTypes, Rooted, NEW f \in Files, Change(f)
  PROVE  RTypes' /\ Rooted'
<1>1. /\ text \in [Files -> 0..clock] /\ clock \in Nat
      /\ UNCHANGED <<folders, out>> /\ In[f] \in folders \cup Directories
      /\ text' = [text EXCEPT ![f] = clock + 1] \/ text' = [text EXCEPT ![f] = 0]
  BY DEF IInv, ClockBounds, Change
<1>2. Rooted'
  BY <1>1 DEF Rooted
<1>3. DOMAIN flaw' = DOMAIN flaw
  BY DEF Change
<1>4. \E existed, exists \in BOOLEAN : notices' = notices \cup Reported(f, existed, exists)
  BY DEF Change
<1>5. \A n \in notices' : n.path \in Paths
  BY <1>4, PathKinds DEF Reported, RTypes
<1> QED BY <1>1, <1>2, <1>3, <1>5 DEF RTypes

(* A folder comes or goes.                                                       *)
LEMMA MoveRooted ==
  ASSUME IInv, RTypes, Rooted, NEW p \in Folders \cup Others, Move(p)
  PROVE  RTypes' /\ Rooted'
<1> DEFINE moved == {q \in Paths : p \in Above[q]}
           appears == p \notin folders
<1>1. /\ p \in moved /\ p \in Paths /\ moved \cap Directories = {}
      /\ \A q \in Paths \ Directories : q \in moved <=> q = p \/ In[q] \in moved
      /\ \A q \in Paths \ Directories : In[q] \in Directories \cup Folders
  BY Moved, AboveIn
<1>2. /\ In[p] \in folders \cup Directories
      /\ folders' = IF appears THEN folders \cup (moved \ Files) ELSE folders \ moved
      /\ text' = [f \in Files |-> IF f \notin moved THEN text[f]
                                  ELSE IF appears THEN clock + 1 ELSE 0]
      /\ UNCHANGED <<flaw, out>>
  BY DEF Move
<1>3. \A n \in notices' : n.path \in Paths
  BY <1>1, PathKinds DEF Move, Reported, RTypes
<1> HIDE DEF moved
<1>4. folders' \subseteq Folders \cup Others
  <2>1. moved \subseteq Paths
    BY DEF moved
  <2> QED BY <1>1, <1>2, <2>1, PathKinds DEF RTypes
<1>5. \A q \in (Paths \ Directories) \ {p} : q \in moved => In[q] \in (moved \ Files) \cup Directories
  BY <1>1, PathKinds
<1>6. \A f \in Files : text'[f] # 0 => In[f] \in folders' \cup Directories
  <2>1. \A f \in Files : f \in Paths \ Directories /\ f # p
    BY PathKinds
  <2>2. \A f \in Files : f \notin moved /\ text[f] # 0 => In[f] \in (folders \cup Directories) \ moved
    BY <1>1, <2>1 DEF Rooted
  <2> QED BY <1>2, <1>5, <2>1, <2>2
<1>7. \A q \in folders' : In[q] \in folders' \cup Directories
  <2>1. folders \cup folders' \subseteq Paths \ Directories
    BY <1>4, PathKinds DEF RTypes
  <2>2. \A q \in folders \ moved : In[q] \in (folders \cup Directories) \ moved
    BY <1>1, <2>1 DEF Rooted
  <2>3. \A q \in folders : In[q] \in folders \cup Directories
    BY DEF Rooted
  <2> QED BY <1>2, <1>5, <2>1, <2>2, <2>3
<1> QED BY <1>2, <1>3, <1>4, <1>6, <1>7 DEF RTypes, Rooted

--------------------------------------------------------------------------------
(* What is watched *)

(* What was covered stays covered if it is watched still and no notice is lost.  *)
LEMMA StaysCovered ==
  ASSUME NEW d \in Directories, CoveredIn(d), NEW p \in Inside(d),
         p \in watched => p \in watched', notices \subseteq notices'
  PROVE  p \in watched' \/ \E q \in Above[p] : [path |-> q, event |-> "rename"] \in notices'
BY DEF CoveredIn

(* What is new in a watched folder is reported, with all that came with it; if   *)
(* the folder is not watched yet it is about to be.                              *)
LEMMA NewIsCovered ==
  ASSUME Rooted, NEW d \in Directories, CoveredIn(d), NEW p \in Paths \ Directories,
         In[p] \in folders \cup Directories, NEW q \in Paths, p \in Above[q], d \in Above[q],
         notices \subseteq notices',
         In[p] \in watched => [path |-> p, event |-> "rename"] \in notices'
  PROVE  \E x \in Above[q] : [path |-> x, event |-> "rename"] \in notices'
<1>1. d \in Above[p] /\ p # d
  BY OneDirectory
<1>2. d \in Above[In[p]] /\ In[p] \in Directories \cup Folders /\ In[p] \in Above[p]
  BY <1>1, AboveIn, AboveClosed
<1>3. In[p] \in Inside(d)
  BY <1>2, AboveDirectory, InsideDirectory
<1>4. CASE In[p] \in watched
  BY <1>4
<1>5. CASE In[p] \notin watched
  <2>1. PICK x \in Above[In[p]] : [path |-> x, event |-> "rename"] \in notices
    BY <1>3, <1>5 DEF CoveredIn
  <2>2. x \in Above[q]
    BY <1>2, AboveClosed, AboveTransitive
  <2> QED BY <2>1, <2>2
<1> QED BY <1>4, <1>5

(* What a change reports                                                         *)
LEMMA ChangeReports ==
  ASSUME NEW f \in Files, Change(f)
  PROVE  /\ notices \subseteq notices' /\ watched' = watched
         /\ In[f] \in folders \cup Directories
         /\ text[f] = 0 /\ In[f] \in watched => [path |-> f, event |-> "rename"] \in notices'
         /\ f \in watched => [path |-> f, event |-> "change"] \in notices'
BY DEF Change, Reported

(* What a folder that comes or goes reports                                      *)
LEMMA MoveReports ==
  ASSUME NEW p \in Folders \cup Others, Move(p)
  PROVE  /\ notices \subseteq notices'
         /\ In[p] \in folders \cup Directories
         /\ In[p] \in watched => [path |-> p, event |-> "rename"] \in notices'
BY DEF Move, Reported

LEMMA ChangeCovered ==
  ASSUME IInv, Rooted, NEW d \in Directories, CoveredIn(d), NEW f \in Files, Change(f)
  PROVE  CoveredIn(d)'
<1> SUFFICES ASSUME NEW p \in Inside(d)'
             PROVE  p \in watched' \/ \E q \in Above[p] : [path |-> q, event |-> "rename"] \in notices'
  BY DEF CoveredIn
<1>1. CASE p \in Inside(d)
  BY <1>1, ChangeReports, StaysCovered
<1>2. CASE p \notin Inside(d)
  <2>1. /\ text \in [Files -> 0..clock] /\ folders' = folders
        /\ text' = [text EXCEPT ![f] = clock + 1] \/ text' = [text EXCEPT ![f] = 0]
    BY DEF IInv, ClockBounds, Change
  <2>2. p = f /\ text[f] = 0 /\ d \in Above[f]
    BY <1>2, <2>1 DEF Inside
  <2>3. f \in Paths \ Directories /\ f \in Above[f]
    BY PathKinds, AboveClosed
  <2> QED BY <2>2, <2>3, ChangeReports, NewIsCovered
<1> QED BY <1>1, <1>2

LEMMA MoveCovered ==
  ASSUME IInv, RTypes, Rooted, NEW d \in Directories, CoveredIn(d),
         NEW p \in Folders \cup Others, Move(p)
  PROVE  CoveredIn(d)'
<1> SUFFICES ASSUME NEW q \in Inside(d)'
             PROVE  q \in watched' \/ \E x \in Above[q] : [path |-> x, event |-> "rename"] \in notices'
  BY DEF CoveredIn
<1> DEFINE moved == {x \in Paths : p \in Above[x]}
           appears == p \notin folders
<1>1. /\ folders' = IF appears THEN folders \cup (moved \ Files) ELSE folders \ moved
      /\ text' = [f \in Files |-> IF f \notin moved THEN text[f]
                                  ELSE IF appears THEN clock + 1 ELSE 0]
      /\ watched' = watched \ (moved \ Files)
  BY DEF Move
<1>2. q \in Paths /\ d \in Above[q]
  BY PathKinds, AboveDirectory DEF Inside
<1>3. q \notin moved => q \in Inside(d)
  BY <1>1 DEF Inside
<1>4. CASE q \in moved
  BY <1>2, <1>4, PathKinds, MoveReports, NewIsCovered
<1>5. CASE q \notin moved
  BY <1>1, <1>3, <1>5, MoveReports, StaysCovered
<1> QED BY <1>4, <1>5

(* A callback watches what it was told of, and all that is in it.                *)
LEMMA NoticeCovered ==
  ASSUME Rooted, NEW d \in Directories, CoveredIn(d), NEW n \in notices, Notice(n)
  PROVE  CoveredIn(d)'
<1> SUFFICES ASSUME NEW p \in Inside(d)
             PROVE  p \in watched' \/ \E q \in Above[p] : [path |-> q, event |-> "rename"] \in notices'
  BY DEF CoveredIn, Notice, Inside
<1>1. CASE p \in watched
  BY <1>1 DEF Notice
<1>2. ASSUME NEW q \in Above[p], [path |-> q, event |-> "rename"] \in notices
      PROVE  p \in watched' \/ [path |-> q, event |-> "rename"] \in notices'
  <2>1. CASE n # [path |-> q, event |-> "rename"]
    BY <1>2, <2>1 DEF Notice
  <2>2. CASE n = [path |-> q, event |-> "rename"]
    <3>1. n.path = q /\ n.event = "rename"
      BY <2>2
    <3>2. q \in Inside(d)
      BY InsideAbove
    <3>3. (q \in Files => text[q] # 0) /\ (q \in Folders => q \in folders)
      BY <3>2, InsideDirectory, PathKinds
    <3>4. p \in Inside(q) \ Others
      <4>1. p # d => p \in (Folders \cap folders) \cup {f \in Files : text[f] # 0}
        BY InsideDirectory
      <4>2. p = d => q = d
        BY AboveDirectory
      <4>3. p \in Inside(q)
        BY <4>1, <4>2 DEF Inside
      <4>4. p \notin Others
        BY <4>1, PathKinds, LayoutAssumption
      <4> QED BY <4>3, <4>4
    <3>5. watched' = watched \cup (Inside(q) \ Others)
      BY <3>1, <3>3 DEF Notice
    <3> QED BY <3>4, <3>5
  <2> QED BY <2>1, <2>2
<1> QED BY <1>1, <1>2 DEF CoveredIn

(* The steps of a generation leave the files and their notices alone.            *)
Proceeds(g) ==
  \/ ReadDir(g) \/ StatFile(g) \/ ReadFile(g)
  \/ StartServer(g) \/ BuildServer(g) \/ WriteServer(g)
  \/ StartClient(g) \/ Introspect(g) \/ UseAnswer(g) \/ FallBack(g)
  \/ BuildClientSchema(g) \/ BuildClient(g) \/ WriteClient(g)
  \/ EndFailed(g)

LEMMA ProceedsFacts ==
  ASSUME NEW g, Proceeds(g)
  PROVE  UNCHANGED <<options, text, folders, flaw, watched, notices>> /\ DOMAIN out' = DOMAIN out
<1>1. CASE ReadDir(g) \/ StatFile(g) \/ ReadFile(g) \/ StartServer(g) \/ BuildServer(g)
  BY <1>1 DEF ReadDir, StatFile, ReadFile, FinishReadFile, StartServer, BuildServer, files
<1>2. CASE WriteServer(g) \/ WriteClient(g)
  BY <1>2 DEF WriteServer, WriteClient, files
<1>3. CASE StartClient(g) \/ Introspect(g) \/ UseAnswer(g) \/ FallBack(g)
  BY <1>3 DEF StartClient, Introspect, UseAnswer, FallBack, files
<1>4. CASE BuildClientSchema(g) \/ BuildClient(g) \/ EndFailed(g)
  BY <1>4 DEF BuildClientSchema, BuildClient, EndFailed, files
<1> QED BY <1>1, <1>2, <1>3, <1>4 DEF Proceeds

(* Only run() begins to watch: all there is.                                     *)
LEMMA NextCovered ==
  ASSUME IInv, RTypes, Rooted, Covered, Next
  PROVE  Covered'
<1> SUFFICES ASSUME phase' = "watching", NEW d \in WatchedDirectories'
             PROVE  CoveredIn(d)'
  BY DEF Covered
<1>1. d \in Directories /\ d \in WatchedDirectories
  <2>1. CASE \E g \in DOMAIN generations : Proceeds(g)
    BY <2>1, ProceedsFacts DEF WatchedDirectories
  <2>2. CASE \/ \E f \in Files : Change(f)
             \/ \E p \in Folders \cup Others : Move(p)
             \/ EndpointChanges
    BY <2>2 DEF Change, Move, EndpointChanges, WatchedDirectories
  <2>3. CASE EndRun \/ Fire \/ FireForNothing \/ \E n \in notices : Notice(n)
    BY <2>3 DEF EndRun, Fire, FireForNothing, Notice, WatchedDirectories
  <2> QED BY <2>1, <2>2, <2>3 DEF Next, Environment, System, Proceeds
<1>2. CASE EndRun
  BY <1>1, <1>2 DEF EndRun, CoveredIn, Inside
<1>3. CASE ~EndRun
  <2>1. CoveredIn(d)
    BY <1>1, <1>3 DEF Covered, Next, Environment, System, Change, Move, EndpointChanges, ReadDir,
       StatFile, ReadFile, FinishReadFile, StartServer, BuildServer, WriteServer, StartClient,
       Introspect, UseAnswer, FallBack, BuildClientSchema, BuildClient, WriteClient, EndFailed,
       Notice, Fire, FireForNothing
  <2>2. CASE \E f \in Files : Change(f)
    BY <1>1, <2>1, <2>2, ChangeCovered
  <2>3. CASE \E p \in Folders \cup Others : Move(p)
    BY <1>1, <2>1, <2>3, MoveCovered
  <2>4. CASE \E n \in notices : Notice(n)
    BY <1>1, <2>1, <2>4, NoticeCovered
  <2>5. CASE UNCHANGED <<text, folders, watched, notices>>
    BY <2>1, <2>5 DEF CoveredIn, Inside
  <2>6. CASE \E g \in DOMAIN generations : Proceeds(g)
    BY <2>5, <2>6, ProceedsFacts
  <2>7. CASE EndpointChanges \/ Fire \/ FireForNothing
    BY <2>5, <2>7 DEF EndpointChanges, Fire, FireForNothing, files
  <2> QED BY <1>3, <2>2, <2>3, <2>4, <2>6, <2>7 DEF Next, Environment, System, Proceeds
<1> QED BY <1>2, <1>3

(* Only changes of the files change what exists.                                 *)
LEMMA NextRooted ==
  ASSUME IInv, RTypes, Rooted, Next
  PROVE  RTypes' /\ Rooted'
<1>1. CASE \E f \in Files : Change(f)
  BY <1>1, ChangeRooted
<1>2. CASE \E p \in Folders \cup Others : Move(p)
  BY <1>2, MoveRooted
<1>3. CASE /\ notices' \subseteq notices /\ DOMAIN out' = DOMAIN out
           /\ UNCHANGED <<text, folders, flaw>>
  BY <1>3 DEF RTypes, Rooted
<1>4. CASE \E g \in DOMAIN generations : Proceeds(g)
  BY <1>3, <1>4, ProceedsFacts
<1>5. CASE EndpointChanges \/ EndRun \/ Fire \/ FireForNothing \/ \E n \in notices : Notice(n)
  BY <1>3, <1>5 DEF EndpointChanges, EndRun, Fire, FireForNothing, Notice, files
<1> QED BY <1>1, <1>2, <1>4, <1>5 DEF Next, Environment, System, Proceeds

(* The cache is filled with what is there.                                       *)
LEMMA NextNotLater ==
  ASSUME IInv, CacheIsNotLater, Next
  PROVE  CacheIsNotLater'
<1>1. /\ clock \in Nat /\ text \in [Files -> 0..clock] /\ DOMAIN cache = Files
      /\ \A f \in Files : cache[f] # None => cache[f].document \in Nat
  BY DEF IInv, ClockBounds, CacheIsHonest, EntryIsHonest
<1>2. CASE /\ clock' = clock + 1 /\ UNCHANGED cache
           /\ \A e \in Files : text'[e] \in {text[e], 0, clock + 1}
  BY <1>1, <1>2 DEF CacheIsNotLater
<1>3. CASE UNCHANGED <<clock, text, cache>>
  BY <1>3 DEF CacheIsNotLater
<1>4. ASSUME NEW g, NEW f, NEW entry, FinishReadFile(g, f, entry), entry.document = text[f], f \in Files
      PROVE  CacheIsNotLater'
  <2>1. UNCHANGED <<clock, text>> /\ (cache' = cache \/ cache' = [cache EXCEPT ![f] = entry])
    BY <1>4 DEF FinishReadFile, files
  <2> QED BY <1>1, <1>4, <2>1 DEF CacheIsNotLater
<1>5. ASSUME NEW g \in DOMAIN generations, ReadFile(g)
      PROVE  CacheIsNotLater'
  <2>1. PICK f \in DOMAIN generations[g].reads :
          FinishReadFile(g, f, [mtime |-> generations[g].reads[f], document |-> text[f]])
    BY <1>5 DEF ReadFile
  <2>2. f \in Files
    <3>1. generations[g] \in Generation
      BY <1>5, NotIdle DEF ReadFile, IInv, GenerationsAreFresh
    <3> QED BY <3>1, TimesFacts DEF Generation
  <2> QED BY <1>4, <2>1, <2>2
<1>6. CASE \E f \in Files : Change(f)
  BY <1>1, <1>2, <1>6 DEF Change, Tick
<1>7. CASE \E p \in Folders \cup Others : Move(p)
  BY <1>1, <1>2, <1>7 DEF Move, Tick
<1>8. CASE EndpointChanges
  BY <1>1, <1>2, <1>8 DEF EndpointChanges, Tick
<1> QED BY <1>3, <1>5, <1>6, <1>7, <1>8
     DEF Next, Environment, System, ReadDir, StatFile,
     StartServer, BuildServer, WriteServer, StartClient, Introspect, UseAnswer, FallBack,
     BuildClientSchema, BuildClient, WriteClient, EndFailed, EndRun, Notice, Fire, FireForNothing, files

--------------------------------------------------------------------------------
(* A generation describes the files as they are *)

(* If the files, the options and the output stay as they are, so does what is    *)
(* said of them.                                                                 *)
LEMMA SameDescription ==
  ASSUME UNCHANGED <<options, text, folders, flaw, out>>
  PROVE  /\ Reflected' <=> Reflected
         /\ \A q : Faithful(q)' <=> Faithful(q)
<1>1. \A d : Inside(d)' = Inside(d)
  BY DEF Inside
<1>2. ClientSources' = ClientSources /\ \A stage : Sources(stage)' = Sources(stage)
  BY DEF Sources, ClientSources
<1>3. \A D : Texts(D)' = Texts(D)
  BY <1>1 DEF Texts
<1>4. Reflected' <=> Reflected
  BY <1>2, <1>3 DEF Reflected, Builds
<1>5. ASSUME NEW q PROVE Faithful(q)' <=> Faithful(q)
  <2>1. Current(q)' <=> Current(q)
    BY <1>1, <1>2 DEF Current
  <2>2. Complete(q)' <=> Complete(q)
    BY <1>1, <1>2 DEF Complete, Covers
  <2>3. OnCourse(q)' <=> OnCourse(q)
    BY DEF OnCourse
  <2>4. Written(q)' <=> Written(q)
    BY <1>3 DEF Written
  <2> QED BY <2>1, <2>2, <2>3, <2>4 DEF Faithful
<1> QED BY <1>4, <1>5

(* A step of a generation                                                        *)
LEMMA GenerationStep ==
  ASSUME IInv, RunsAlone, Described, NEW g \in 1..MaxGenerations, NEW q,
         generations' = [generations EXCEPT ![g] = q],
         UNCHANGED <<options, phase, files, timer>>, hurdles \subseteq hurdles',
         g \notin Running => q.stage \in {"idle", "failed"} /\ out' = out,
         g \in Running /\ Quiet /\ hurdles' = {} =>
           IF q.stage \in {"idle", "failed"} THEN Reflected' ELSE Faithful(q)'
  PROVE  RunsAlone' /\ Described'
<1>1. Running' \subseteq Running
  BY WhoRuns
<1>2. RunsAlone'
  BY <1>1 DEF RunsAlone
<1>3. Described'
  <2> SUFFICES ASSUME Quiet'
               PROVE  /\ \A h \in Running' : Faithful(generations[h])'
                      /\ Running' = {} => Reflected'
    BY DEF Described
  <2>1. Quiet /\ hurdles' = {}
    BY DEF Quiet, files
  <2>2. CASE g \in Running
    <3>1. Running' \subseteq {g}
      BY <1>1, <2>1, <2>2 DEF RunsAlone, Quiet
    <3>2. generations'[g] = q /\ (g \in Running' <=> q.stage \notin {"idle", "failed"})
      BY WhoRuns
    <3>3. ASSUME NEW h \in Running' PROVE Faithful(generations[h])'
      <4>1. h = g /\ generations'[h] = q
        BY <3>1, <3>2
      <4>2. Faithful(q)'
        BY <2>1, <2>2, <3>1, <3>2
      <4> QED BY <4>1, <4>2 DEF Faithful, Current, Complete, OnCourse, Written, Covers, NothingLeft
    <3> QED BY <2>1, <2>2, <3>1, <3>2, <3>3
  <2>3. CASE g \notin Running
    <3>1. \A h \in Running' : generations'[h] = generations[h] /\ h \in Running
      BY <1>1, <2>3, WhoRuns
    <3>2. Running' = Running
      <4>1. \A h \in Running : h \in Running'
        BY <2>3, WhoRuns
      <4> QED BY <1>1, <4>1
    <3>3. UNCHANGED <<options, text, folders, flaw, out>>
      BY <2>3 DEF files
    <3>4. ASSUME NEW h \in Running' PROVE Faithful(generations[h])'
      <4>1. PICK r : r = generations[h]
        OBVIOUS
      <4>2. Faithful(r) /\ generations'[h] = r
        BY <2>1, <3>1, <3>4, <4>1 DEF Described
      <4>3. Faithful(r)'
        BY <3>3, <4>2, SameDescription
      <4> QED BY <4>2, <4>3 DEF Faithful, Current, Complete, OnCourse, Written, Covers, NothingLeft
    <3> QED BY <2>1, <3>2, <3>3, <3>4, SameDescription DEF Described
  <2> QED BY <2>2, <2>3
<1> QED BY <1>2, <1>3

(* A step of a generation that writes nothing                                    *)
LEMMA ReadingStep ==
  ASSUME IInv, RunsAlone, Described, NEW g \in 1..MaxGenerations, NEW q,
         generations' = [generations EXCEPT ![g] = q],
         UNCHANGED <<options, phase, files, timer, out>>, hurdles \subseteq hurdles',
         g \notin Running => q.stage \in {"idle", "failed"},
         g \in Running /\ Quiet /\ hurdles' = {} =>
           IF q.stage \in {"idle", "failed"} THEN Reflected ELSE Faithful(q)
  PROVE  RunsAlone' /\ Described'
<1>1. UNCHANGED <<options, text, folders, flaw, out>>
  BY DEF files
<1> QED BY <1>1, SameDescription, GenerationStep

(* A file that does not build, read or not, lets a generation off.               *)
LEMMA Refuted ==
  ASSUME NEW r, Faithful(r), r.stage \in Reading,
         NEW d \in Sources(r.stage), NEW f \in Files \cap Inside(d), flaw[text[f]] # "none"
  PROVE  Reflected
<1>1. ~Builds(Texts(Sources(r.stage)))
  BY DEF Builds, Texts
<1>2. CASE r.stage = "server"
  BY <1>1, <1>2 DEF Sources, Reflected, Faithful, OnCourse
<1>3. CASE r.stage = "client"
  <2>1. ClientSources = Directories /\ "schema" \in Directories
    BY <1>3 DEF Faithful, OnCourse, ClientSources, Directories
  <2>2. ~Builds(Texts(ClientSources))
    <3>1. f \in Files \cap UNION {Inside(e) : e \in Directories}
      BY <1>3, <2>1 DEF Sources
    <3> QED BY <2>1, <3>1 DEF Builds, Texts
  <2> QED BY <1>3, <2>2 DEF Reflected, Faithful, Written
<1>4. CASE r.stage = "operations"
  BY <1>1, <1>4 DEF Sources, Reflected, Faithful, Written
<1> QED BY <1>2, <1>3, <1>4 DEF Reading

(* A stage begins to read its directory.                                         *)
LEMMA BeginsReading ==
  ASSUME NEW r \in Generation, NEW q \in Generation,
         q.lists = {Directory(q.stage)}, NothingLeft([q EXCEPT !.lists = {}]),
         q.stage \in Reading, Current(q), OnCourse(q), Written(q),
         q.stage = "operations" /\ options.introspection = "none" =>
           Files \cap Inside("schema") \subseteq DOMAIN q.texts
  PROVE  Faithful(q)
<1> DEFINE d == Directory(q.stage)
<1>1. d \in Directories /\ q.stats = {} /\ q.reads = <<>> /\ q.lists = {d}
  BY DEF Directory, Directories, NothingLeft, Generation
<1> HIDE DEF d
<1>2. d \in Inside(d) /\ \A f \in Files \cap Inside(d) : d \in Above[f]
  BY <1>1, InsideDirectory
<1>3. Covers(q, d)
  BY <1>1, <1>2, NoTimes DEF Covers
<1>4. Complete(q)
  BY <1>3 DEF Complete, d, Reading
<1> QED BY <1>4 DEF Faithful

(* When all is read, the texts are those of the whole directory.                 *)
LEMMA DoneReading ==
  ASSUME IInv, NEW g \in 1..MaxGenerations, AllRead(g), generations[g].stage \in Reading,
         Faithful(generations[g])
  PROVE  Files \cap Inside(Directory(generations[g].stage)) \subseteq DOMAIN generations[g].texts
BY NoTimes DEF AllRead, Faithful, Complete, Covers

(* When what was read does not build, nothing has to be written.                 *)
LEMMA Unbuilt ==
  ASSUME NEW r, Faithful(r), r \in Generation, r.stage \in Reading, ~Builds(r.texts)
  PROVE  Reflected
<1>1. PICK f \in DOMAIN r.texts : flaw[r.texts[f]] # "none"
  BY DEF Builds
<1>2. PICK d \in Sources(r.stage) : f \in Inside(d)
  BY DEF Faithful, Current
<1>3. f \in Files /\ r.texts[f] = text[f]
  BY TimesFacts DEF Faithful, Current, Generation
<1> QED BY <1>1, <1>2, <1>3, Refuted

(* What is written are the texts of the directories.                             *)
LEMMA WholeTexts ==
  ASSUME NEW r, Faithful(r), r \in Generation, r.stage \in {"writeServer", "writeClient"}
  PROVE  r.texts = Texts(Sources(r.stage))
<1>1. /\ r.texts = [f \in DOMAIN r.texts |-> r.texts[f]] /\ DOMAIN r.texts \subseteq Files
      /\ \A f \in DOMAIN r.texts : r.texts[f] = text[f]
  BY TimesFacts DEF Generation, Faithful, Current, Times
<1>2. DOMAIN r.texts = Files \cap UNION {Inside(d) : d \in Sources(r.stage)}
  BY <1>1 DEF Faithful, Current, Complete
<1>3. r.texts = [f \in DOMAIN r.texts |-> text[f]]
  BY <1>1
<1> QED BY <1>2, <1>3 DEF Texts

(* write() begins.                                                               *)
LEMMA StartServerReflects ==
  ASSUME IInv, RInv, NEW g \in 1..MaxGenerations, StartServer(g)
  PROVE  RunsAlone' /\ Described'
<1> DEFINE r == generations[g]
<1>1. r.stage = "start" /\ r \in Generation /\ g \in Running
  BY NotIdle DEF StartServer, IInv, GenerationsAreFresh, Running, Active
<1>2. UNCHANGED <<options, phase, files, timer, out, hurdles>>
  BY DEF StartServer
<1>3. PICK q : /\ generations' = [generations EXCEPT ![g] = q]
               /\ q = IF options.server THEN Reads(g, "server", "schema") ELSE [r EXCEPT !.stage = "next"]
  BY DEF StartServer
<1>4. q.stage \notin {"idle", "failed"}
  BY <1>1, <1>3 DEF Reads, Generation
<1>5. ASSUME Quiet PROVE Faithful(q)
  <2>1. Faithful(r)
    BY <1>1, <1>5 DEF RInv, Described
  <2>2. r.texts = <<>> \/ DOMAIN r.texts = {}
    BY <1>1, <2>1 DEF Faithful, Current, Sources
  <2>3. NothingLeft(r)
    BY <1>1, <2>1 DEF Faithful, Complete, Reading
  <2>4. CASE options.server
    <3>1. /\ q \in Generation /\ q.stage = "server" /\ q.lists = {"schema"} /\ q.texts = r.texts
          /\ NothingLeft([q EXCEPT !.lists = {}])
      BY <1>1, <1>3, <2>3, <2>4 DEF Reads, Generation, Stages, Directories, NothingLeft
    <3>2. Current(q) /\ OnCourse(q) /\ Written(q)
      BY <2>2, <2>4, <3>1, NoTimes DEF Current, OnCourse, Written
    <3> QED BY <3>1, <3>2, BeginsReading DEF Directory, Reading
  <2>5. CASE ~options.server
    <3>1. /\ q.stage = "next" /\ q.texts = r.texts /\ NothingLeft(q)
      BY <1>1, <1>3, <2>3, <2>5 DEF Generation, NothingLeft
    <3> QED BY <2>2, <2>5, <3>1, NoTimes DEF Faithful, Current, OnCourse, Written, Complete, Reading
  <2> QED BY <2>4, <2>5
<1> QED BY <1>1, <1>2, <1>3, <1>4, <1>5, ReadingStep DEF RInv

(* The schema is read, and builds or not.                                        *)
LEMMA BuildServerReflects ==
  ASSUME IInv, RInv, NEW g \in 1..MaxGenerations, BuildServer(g)
  PROVE  RunsAlone' /\ Described'
<1> DEFINE r == generations[g]
<1>1. r.stage = "server" /\ r \in Generation /\ g \in Running
  BY NotIdle DEF BuildServer, IInv, GenerationsAreFresh, Running, Active
<1>2. UNCHANGED <<options, phase, files, timer, out, hurdles>>
  BY DEF BuildServer
<1>3. PICK q : /\ generations' = [generations EXCEPT ![g] = q]
               /\ q = IF Builds(r.texts) THEN [r EXCEPT !.stage = "writeServer"] ELSE Fail(g)
  BY DEF BuildServer
<1>4. q.stage = IF Builds(r.texts) THEN "writeServer" ELSE "failed"
  BY <1>1, <1>3 DEF Fail, Generation
<1>5. ASSUME Quiet PROVE IF q.stage \in {"idle", "failed"} THEN Reflected ELSE Faithful(q)
  <2>1. Faithful(r)
    BY <1>1, <1>5 DEF RInv, Described
  <2>2. CASE Builds(r.texts)
    <3>1. /\ q.stage = "writeServer" /\ q.texts = r.texts /\ NothingLeft(q)
      BY <1>1, <1>3, <2>2 DEF BuildServer, AllRead, Generation, NothingLeft
    <3>2. Files \cap Inside("schema") \subseteq DOMAIN r.texts
      BY <1>1, <2>1, DoneReading DEF BuildServer, Directory, Reading
    <3>3. Current(q) /\ OnCourse(q) /\ Written(q)
      BY <1>1, <2>1, <3>1 DEF Faithful, Current, Sources, OnCourse, Written
    <3>4. Complete(q)
      BY <3>1, <3>2 DEF Complete, Reading, Sources
    <3> QED BY <3>1, <3>3, <3>4 DEF Faithful
  <2>3. CASE ~Builds(r.texts)
    <3>1. Reflected
      BY <1>1, <2>1, <2>3, Unbuilt DEF Reading
    <3> QED BY <1>4, <2>3, <3>1
  <2> QED BY <2>2, <2>3
<1> QED BY <1>1, <1>2, <1>3, <1>5, ReadingStep DEF RInv

(* What was generated is written: the texts of the schema as they are.           *)
LEMMA WriteServerReflects ==
  ASSUME IInv, RInv, NEW g \in 1..MaxGenerations, WriteServer(g)
  PROVE  RunsAlone' /\ Described'
<1> DEFINE r == generations[g]
<1>1. r.stage = "writeServer" /\ r \in Generation /\ g \in Running
  BY NotIdle DEF WriteServer, IInv, GenerationsAreFresh, Running, Active
<1>2. /\ UNCHANGED <<options, phase, files, timer, hurdles>>
      /\ out' = [out EXCEPT !.server = r.texts]
  BY DEF WriteServer
<1>3. PICK q : /\ generations' = [generations EXCEPT ![g] = q]
               /\ q = [r EXCEPT !.stage = "next", !.texts = <<>>]
  BY DEF WriteServer
<1>4. q.stage = "next" /\ q.texts = <<>>
  BY <1>1, <1>3 DEF Generation
<1>5. ASSUME Quiet PROVE Faithful(q)'
  <2>1. Faithful(r)
    BY <1>1, <1>5 DEF RInv, Described
  <2>2. NothingLeft(q)
    BY <1>1, <1>3, <2>1 DEF Faithful, Complete, Reading, NothingLeft, Generation
  <2>3. r.texts = Texts({"schema"})
    BY <1>1, <2>1, WholeTexts DEF Sources
  <2>4. Texts({"schema"})' = Texts({"schema"})
    BY <1>2 DEF Texts, Inside, files
  <2>5. Written(q)'
    BY <1>2, <2>3, <2>4 DEF Written, RInv, RTypes
  <2>6. Current(q)' /\ OnCourse(q)' /\ Complete(q)'
    BY <1>4, <2>2, NoTimes DEF Current, OnCourse, Complete, Reading, NothingLeft
  <2> QED BY <2>5, <2>6 DEF Faithful
<1> QED BY <1>1, <1>2, <1>3, <1>4, <1>5, GenerationStep DEF RInv

(* On to the client, or done                                                     *)
LEMMA StartClientReflects ==
  ASSUME IInv, RInv, NEW g \in 1..MaxGenerations, StartClient(g)
  PROVE  RunsAlone' /\ Described'
<1> DEFINE r == generations[g]
<1>1. r.stage = "next" /\ r \in Generation /\ g \in Running
  BY NotIdle DEF StartClient, IInv, GenerationsAreFresh, Running, Active
<1>2. UNCHANGED <<options, phase, files, timer, out, hurdles>>
  BY DEF StartClient
<1>3. PICK q : /\ generations' = [generations EXCEPT ![g] = q]
               /\ q = IF ~options.client THEN Idle
                      ELSE IF options.introspection = "none" THEN Reads(g, "client", "schema")
                      ELSE [r EXCEPT !.stage = "introspect"]
  BY DEF StartClient
<1>4. ASSUME Quiet PROVE IF q.stage \in {"idle", "failed"} THEN Reflected ELSE Faithful(q)
  <2>1. Faithful(r) /\ NothingLeft(r) /\ DOMAIN r.texts = {}
    BY <1>1, <1>4 DEF RInv, Described, Faithful, Complete, Reading, Current, Sources
  <2>2. CASE ~options.client
    <3>1. Reflected
      BY <1>1, <2>1, <2>2 DEF Reflected, Faithful, Written
    <3> QED BY <1>3, <2>2, <3>1 DEF Idle
  <2>3. CASE options.client /\ options.introspection = "none"
    <3>1. /\ q \in Generation /\ q.stage = "client" /\ q.lists = {"schema"} /\ q.texts = r.texts
          /\ NothingLeft([q EXCEPT !.lists = {}])
      BY <1>1, <1>3, <2>1, <2>3 DEF Reads, Generation, Stages, Directories, NothingLeft
    <3>2. Current(q) /\ OnCourse(q) /\ Written(q)
      BY <1>1, <2>1, <2>3, <3>1 DEF Current, OnCourse, Faithful, Written
    <3>3. Faithful(q)
      BY <3>1, <3>2, BeginsReading DEF Directory, Reading
    <3> QED BY <3>1, <3>3
  <2>4. CASE options.client /\ options.introspection # "none"
    <3>1. q.stage = "introspect" /\ q.texts = r.texts /\ NothingLeft(q)
      BY <1>1, <1>3, <2>1, <2>4 DEF Generation, NothingLeft
    <3>2. Current(q) /\ OnCourse(q) /\ Written(q) /\ Complete(q)
      BY <1>1, <2>1, <2>4, <3>1 DEF Current, OnCourse, Faithful, Written, Complete, Reading
    <3> QED BY <3>1, <3>2 DEF Faithful
  <2> QED BY <2>2, <2>3, <2>4
<1> QED BY <1>1, <1>2, <1>3, <1>4, ReadingStep DEF RInv

(* The endpoint answers.                                                         *)
LEMMA IntrospectReflects ==
  ASSUME IInv, RInv, NEW g \in 1..MaxGenerations, Introspect(g)
  PROVE  RunsAlone' /\ Described'
<1> DEFINE r == generations[g]
<1>1. r.stage = "introspect" /\ r \in Generation /\ g \in Running
  BY NotIdle DEF Introspect, IInv, GenerationsAreFresh, Running, Active
<1>2. /\ UNCHANGED <<options, phase, files, timer, out>> /\ hurdles \subseteq hurdles'
      /\ endpoint = Down => hurdles' # {}
  BY DEF Introspect
<1>3. PICK response, q :
        /\ response \in Responses
        /\ generations' = [generations EXCEPT ![g] = q]
        /\ Introspected(response) => q = [r EXCEPT !.stage = "answered", !.schema = endpoint]
  BY DEF Introspect
<1>4. ASSUME Quiet, hurdles' = {} PROVE q.stage = "answered" /\ Faithful(q)
  <2>1. Faithful(r) /\ NothingLeft(r) /\ DOMAIN r.texts = {}
    BY <1>1, <1>4 DEF RInv, Described, Faithful, Complete, Reading, Current, Sources
  <2>2. Introspected(response)
    BY <1>2, <1>3, <1>4 DEF Responses, Introspected, Posted
  <2>3. q.stage = "answered" /\ q.texts = r.texts /\ NothingLeft(q)
    BY <1>1, <1>3, <2>1, <2>2 DEF Generation, NothingLeft
  <2>4. Current(q) /\ OnCourse(q) /\ Written(q) /\ Complete(q)
    BY <1>1, <2>1, <2>3 DEF Current, OnCourse, Faithful, Written, Complete, Reading
  <2> QED BY <2>3, <2>4 DEF Faithful
<1> QED BY <1>1, <1>2, <1>3, <1>4, ReadingStep DEF RInv

(* The answer is used if it is a schema.                                         *)
LEMMA UseAnswerReflects ==
  ASSUME IInv, RInv, NEW g \in 1..MaxGenerations, UseAnswer(g)
  PROVE  RunsAlone' /\ Described'
<1> DEFINE r == generations[g]
<1>1. r.stage = "answered" /\ r \in Generation /\ g \in Running
  BY NotIdle DEF UseAnswer, IInv, GenerationsAreFresh, Running, Active
<1>2. /\ UNCHANGED <<options, phase, files, timer, out>> /\ hurdles \subseteq hurdles'
      /\ r.schema = NoSchema => hurdles' # {}
  BY DEF UseAnswer
<1>3. PICK q :
        /\ generations' = [generations EXCEPT ![g] = q]
        /\ r.schema # NoSchema => q = Reads(g, "operations", "operations")
  BY DEF UseAnswer
<1>4. ASSUME Quiet, hurdles' = {} PROVE q.stage = "operations" /\ Faithful(q)
  <2>1. Faithful(r) /\ NothingLeft(r) /\ DOMAIN r.texts = {}
    BY <1>1, <1>4 DEF RInv, Described, Faithful, Complete, Reading, Current, Sources
  <2>2. /\ q \in Generation /\ q.stage = "operations" /\ q.lists = {"operations"} /\ q.texts = r.texts
        /\ NothingLeft([q EXCEPT !.lists = {}])
    <3>1. q = Reads(g, "operations", "operations")
      BY <1>2, <1>3, <1>4
    <3> QED BY <1>1, <2>1, <3>1 DEF Reads, Generation, Stages, Directories, NothingLeft
  <2>3. Current(q) /\ OnCourse(q) /\ Written(q) /\ options.introspection # "none"
    BY <1>1, <2>1, <2>2 DEF Current, OnCourse, Faithful, Written
  <2> QED BY <2>2, <2>3, BeginsReading DEF Directory, Reading
<1> QED BY <1>1, <1>2, <1>3, <1>4, ReadingStep DEF RInv

(* No generation falls back without a hurdle.                                    *)
LEMMA FallBackReflects ==
  ASSUME IInv, RInv, NEW g \in 1..MaxGenerations, FallBack(g)
  PROVE  RunsAlone' /\ Described'
<1>1. generations[g].stage = "fallback" /\ g \in Running
  BY DEF FallBack, IInv, GenerationsAreFresh, Running, Active
<1>2. UNCHANGED <<options, phase, files, timer, out, hurdles>>
  BY DEF FallBack
<1>3. PICK q : generations' = [generations EXCEPT ![g] = q]
  BY DEF FallBack
<1>4. ~Quiet
  BY <1>1 DEF RInv, Described, Faithful, OnCourse
<1> QED BY <1>1, <1>2, <1>3, <1>4, ReadingStep DEF RInv

(* The schema for the client is read, and builds or not.                         *)
LEMMA BuildClientSchemaReflects ==
  ASSUME IInv, RInv, NEW g \in 1..MaxGenerations, BuildClientSchema(g)
  PROVE  RunsAlone' /\ Described'
<1> DEFINE r == generations[g]
<1>1. r.stage = "client" /\ r \in Generation /\ g \in Running
  BY NotIdle DEF BuildClientSchema, IInv, GenerationsAreFresh, Running, Active
<1>2. UNCHANGED <<options, phase, files, timer, out, hurdles>>
  BY DEF BuildClientSchema
<1>3. PICK q :
        /\ generations' = [generations EXCEPT ![g] = q]
        /\ q = IF Builds(r.texts) THEN Reads(g, "operations", "operations") ELSE Fail(g)
  BY DEF BuildClientSchema
<1>4. q.stage = IF Builds(r.texts) THEN "operations" ELSE "failed"
  BY <1>1, <1>3 DEF Reads, Fail, Generation
<1>5. ASSUME Quiet PROVE IF q.stage \in {"idle", "failed"} THEN Reflected ELSE Faithful(q)
  <2>1. Faithful(r)
    BY <1>1, <1>5 DEF RInv, Described
  <2>2. CASE Builds(r.texts)
    <3>1. q = Reads(g, "operations", "operations")
      BY <1>3, <2>2
    <3>2. /\ q \in Generation /\ q.stage = "operations" /\ q.lists = {"operations"} /\ q.texts = r.texts
          /\ NothingLeft([q EXCEPT !.lists = {}])
      BY <1>1, <3>1 DEF BuildClientSchema, AllRead, Reads, Generation, Stages, Directories, NothingLeft
    <3>3. Files \cap Inside("schema") \subseteq DOMAIN q.texts
      BY <1>1, <2>1, <3>2, DoneReading DEF BuildClientSchema, Directory, Reading
    <3>4. Sources(r.stage) \subseteq Sources(q.stage)
      BY <1>1, <2>1, <3>2 DEF Sources, ClientSources, Directories, Faithful, OnCourse
    <3>5. Current(q) /\ OnCourse(q) /\ Written(q)
      BY <1>1, <2>1, <3>2, <3>4 DEF Current, OnCourse, Faithful, Written
    <3> QED BY <1>1, <3>2, <3>3, <3>5, BeginsReading DEF Directory, Reading
  <2>3. CASE ~Builds(r.texts)
    <3>1. Reflected
      BY <1>1, <2>1, <2>3, Unbuilt DEF Reading
    <3> QED BY <1>4, <2>3, <3>1
  <2> QED BY <2>2, <2>3
<1> QED BY <1>1, <1>2, <1>3, <1>5, ReadingStep DEF RInv

(* The operations are read, and build or not.                                    *)
LEMMA BuildClientReflects ==
  ASSUME IInv, RInv, NEW g \in 1..MaxGenerations, BuildClient(g)
  PROVE  RunsAlone' /\ Described'
<1> DEFINE r == generations[g]
<1>1. r.stage = "operations" /\ r \in Generation /\ g \in Running
  BY NotIdle DEF BuildClient, IInv, GenerationsAreFresh, Running, Active
<1>2. UNCHANGED <<options, phase, files, timer, out, hurdles>>
  BY DEF BuildClient
<1>3. PICK q : /\ generations' = [generations EXCEPT ![g] = q]
               /\ q = IF Builds(r.texts) THEN [r EXCEPT !.stage = "writeClient"] ELSE Fail(g)
  BY DEF BuildClient
<1>4. q.stage = IF Builds(r.texts) THEN "writeClient" ELSE "failed"
  BY <1>1, <1>3 DEF Fail, Generation
<1>5. ASSUME Quiet PROVE IF q.stage \in {"idle", "failed"} THEN Reflected ELSE Faithful(q)
  <2>1. Faithful(r)
    BY <1>1, <1>5 DEF RInv, Described
  <2>2. CASE Builds(r.texts)
    <3>1. /\ q.stage = "writeClient" /\ q.texts = r.texts /\ NothingLeft(q)
      BY <1>1, <1>3, <2>2 DEF BuildClient, AllRead, Generation, NothingLeft
    <3>2. Files \cap Inside("operations") \subseteq DOMAIN r.texts
      BY <1>1, <2>1, DoneReading DEF BuildClient, Directory, Reading
    <3>3. options.introspection = "none" => Files \cap Inside("schema") \subseteq DOMAIN r.texts
      BY <1>1, <2>1 DEF Faithful, Complete
    <3>4. Current(q) /\ OnCourse(q) /\ Written(q)
      BY <1>1, <2>1, <3>1 DEF Faithful, Current, Sources, OnCourse, Written
    <3>5. Complete(q)
      BY <3>1, <3>2, <3>3 DEF Complete, Reading, Sources, ClientSources, Directories
    <3> QED BY <3>1, <3>4, <3>5 DEF Faithful
  <2>3. CASE ~Builds(r.texts)
    <3>1. Reflected
      BY <1>1, <2>1, <2>3, Unbuilt DEF Reading
    <3> QED BY <1>4, <2>3, <3>1
  <2> QED BY <2>2, <2>3
<1> QED BY <1>1, <1>2, <1>3, <1>5, ReadingStep DEF RInv

(* The client is written: the texts of its directories as they are.              *)
LEMMA WriteClientReflects ==
  ASSUME IInv, RInv, NEW g \in 1..MaxGenerations, WriteClient(g)
  PROVE  RunsAlone' /\ Described'
<1> DEFINE r == generations[g]
<1>1. r.stage = "writeClient" /\ r \in Generation /\ g \in Running
  BY NotIdle DEF WriteClient, IInv, GenerationsAreFresh, Running, Active
<1>2. /\ UNCHANGED <<options, phase, files, timer, hurdles>>
      /\ out' = [out EXCEPT !.client = r.texts]
      /\ generations' = [generations EXCEPT ![g] = Idle]
  BY DEF WriteClient
<1>3. ASSUME Quiet PROVE Reflected'
  <2>1. Faithful(r)
    BY <1>1, <1>3 DEF RInv, Described
  <2>2. r.texts = Texts(ClientSources)
    BY <1>1, <2>1, WholeTexts DEF Sources
  <2>3. \A D : Texts(D)' = Texts(D)
    BY <1>2 DEF Texts, Inside, files
  <2>4. ClientSources' = ClientSources
    BY <1>2 DEF ClientSources
  <2>5. out'.client = Texts(ClientSources) /\ out'.server = out.server
    BY <1>2, <2>2 DEF RInv, RTypes
  <2>6. options.server => out.server = Texts({"schema"})
    BY <1>1, <2>1 DEF Faithful, Written
  <2> QED BY <1>2, <2>3, <2>4, <2>5, <2>6 DEF Reflected
<1>4. Idle.stage = "idle"
  BY DEF Idle
<1> QED BY <1>1, <1>2, <1>3, <1>4, GenerationStep DEF RInv

(* A failure ends.                                                               *)
LEMMA EndFailedReflects ==
  ASSUME IInv, RInv, NEW g \in 1..MaxGenerations, EndFailed(g)
  PROVE  RunsAlone' /\ Described'
<1>1. g \notin Running
  BY DEF EndFailed, Running, Active
<1>2. /\ UNCHANGED <<options, phase, files, timer, out, hurdles>>
      /\ generations' = [generations EXCEPT ![g] = Idle]
  BY DEF EndFailed
<1>3. Idle.stage = "idle"
  BY DEF Idle
<1> QED BY <1>1, <1>2, <1>3, ReadingStep DEF RInv

(* Reading changes what is left to read, and adds texts that are current.        *)
LEMMA GoesOnReading ==
  ASSUME NEW r \in Generation, Faithful(r), r.stage \in Reading, NEW q, q.stage = r.stage,
         Covers(q, Directory(r.stage)), DOMAIN r.texts \subseteq DOMAIN q.texts,
         \A f \in DOMAIN q.texts :
           \/ f \in DOMAIN r.texts /\ q.texts[f] = r.texts[f]
           \/ f \in Inside(Directory(r.stage)) /\ q.texts[f] = text[f]
  PROVE  Faithful(q)
<1>1. Directory(r.stage) \in Sources(r.stage)
  BY DEF Reading, Directory, Sources, ClientSources, Directories
<1>2. Current(q)
  BY <1>1 DEF Faithful, Current
<1>3. Complete(q)
  BY DEF Faithful, Complete, Reading
<1>4. OnCourse(q) /\ Written(q)
  BY DEF Faithful, OnCourse, Written
<1> QED BY <1>2, <1>3, <1>4 DEF Faithful

(* A list is read: what is in it takes its place.                                *)
LEMMA ListCovers ==
  ASSUME Rooted, NEW r \in Generation, NEW D \in Directories, Covers(r, D), NEW d \in r.lists,
         NEW q, q.reads = r.reads, q.texts = r.texts,
         q.stats = r.stats \cup {p \in Files : In[p] = d /\ text[p] # 0},
         q.lists = (r.lists \ {d}) \cup {p \in Folders \cap folders : In[p] = d}
  PROVE  Covers(q, D)
<1>1. d \in Directories \cup Folders /\ d \in Inside(D) /\ d \in Paths
  BY InsideDirectory DEF Covers, Generation
<1>2. D \in Above[d]
  BY <1>1, InsideDirectory
<1>3. ASSUME NEW f \in Files \cap Inside(D)
      PROVE  f \in DOMAIN q.texts \cup DOMAIN q.reads \cup q.stats \/ Above[f] \cap q.lists # {}
  <2>1. CASE f \in DOMAIN r.texts \cup DOMAIN r.reads \cup r.stats
    BY <2>1
  <2>2. CASE (Above[f] \cap r.lists) \ {d} # {}
    BY <2>2
  <2>3. CASE d \in Above[f]
    <3>1. f \in Paths /\ d # f
      BY <1>1, PathKinds
    <3>2. PICK c \in Above[f] \ Directories : In[c] = d
      BY <2>3, <3>1, AboveThrough
    <3>3. CASE c = f
      BY <3>2, <3>3, InsideDirectory
    <3>4. CASE c # f
      <4>1. c \in Folders
        BY <3>1, <3>2, <3>4, AboveThrough
      <4>2. c \in Inside(D) /\ c # D
        BY <3>2, InsideAbove
      <4>3. c \in folders
        BY <4>1, <4>2, InsideDirectory, PathKinds
      <4> QED BY <3>2, <4>1, <4>3
    <3> QED BY <3>3, <3>4
  <2> QED BY <2>1, <2>2, <2>3 DEF Covers
<1>4. ASSUME NEW p \in Paths \ Directories, In[p] = d
      PROVE  D \in Above[p]
  BY <1>2, <1>4, AboveIn
<1>5. \A p \in Files : In[p] = d /\ text[p] # 0 => p \in Inside(D)
  BY <1>4, PathKinds, InsideDirectory
<1>6. \A p \in Folders \cap folders : In[p] = d => p \in Inside(D)
  BY <1>4, PathKinds, InsideDirectory
<1>7. DOMAIN q.reads \cup q.stats \cup q.lists \subseteq Inside(D)
  BY <1>5, <1>6 DEF Covers
<1> QED BY <1>3, <1>7 DEF Covers

LEMMA ReadDirReflects ==
  ASSUME IInv, RInv, NEW g \in 1..MaxGenerations, ReadDir(g)
  PROVE  RunsAlone' /\ Described'
<1> DEFINE r == generations[g]
           read(d) == [r EXCEPT !.stats = @ \cup {p \in Files : In[p] = d /\ text[p] # 0},
                                !.lists = (@ \ {d}) \cup {p \in Folders \cap folders : In[p] = d}]
<1>1. r.stage # "idle" /\ r \in Generation
  BY NotIdle DEF ReadDir, IInv, GenerationsAreFresh
<1>2. UNCHANGED <<options, phase, files, timer, out, hurdles>>
  BY DEF ReadDir
<1>3. PICK d, q :
        /\ d \in r.lists
        /\ generations' = [generations EXCEPT ![g] = q]
        /\ q = IF d \notin folders \cup Directories THEN Fail(g) ELSE read(d)
  BY DEF ReadDir
<1>4. /\ read(d).stage = r.stage /\ read(d).reads = r.reads /\ read(d).texts = r.texts
      /\ read(d).stats = r.stats \cup {p \in Files : In[p] = d /\ text[p] # 0}
      /\ read(d).lists = (r.lists \ {d}) \cup {p \in Folders \cap folders : In[p] = d}
      /\ Fail(g).stage = "failed"
  BY <1>1 DEF Generation, Fail
<1> HIDE DEF read
<1>5. g \notin Running => q.stage \in {"idle", "failed"}
  BY <1>1, <1>3, <1>4 DEF Running, Active, IInv, GenerationsAreFresh
<1>6. ASSUME g \in Running, Quiet
      PROVE  q.stage \notin {"idle", "failed"} /\ Faithful(q)
  <2>1. Faithful(r) /\ r.stage \notin {"idle", "failed"}
    BY <1>6 DEF RInv, Described, Running, Active
  <2>2. r.stage \in Reading /\ Covers(r, Directory(r.stage))
    BY <1>3, <2>1 DEF Faithful, Complete, NothingLeft
  <2>3. Directory(r.stage) \in Directories
    BY DEF Directory, Directories
  <2>4. d \in folders \cup Directories
    <3>1. d \in Inside(Directory(r.stage)) /\ d \in Directories \cup Folders
      BY <1>3, <1>1, <2>2 DEF Covers, Generation
    <3> QED BY <2>3, <3>1, InsideDirectory, PathKinds
  <2>5. q = read(d)
    BY <1>3, <2>4
  <2>6. Covers(q, Directory(r.stage))
    BY <1>3, <1>1, <1>4, <2>2, <2>3, <2>5, ListCovers DEF RInv
  <2> QED BY <1>1, <1>4, <2>1, <2>2, <2>5, <2>6, GoesOnReading
<1> QED BY <1>2, <1>3, <1>5, <1>6, ReadingStep DEF RInv

(* A file is there still, and its text in the cache, if new enough, as it is.    *)
LEMMA StatFileReflects ==
  ASSUME IInv, RInv, NEW g \in 1..MaxGenerations, StatFile(g)
  PROVE  RunsAlone' /\ Described'
<1> DEFINE r == generations[g]
           less(f) == [Fail(g) EXCEPT !.stats = @ \ {f}]
           after(f) == [r EXCEPT !.stats = @ \ {f}]
           cached(f) == [after(f) EXCEPT !.texts = With(@, f, cache[f].document)]
           noted(f) == [after(f) EXCEPT !.reads = With(@, f, text[f])]
<1>1. r.stage # "idle" /\ r \in Generation
  BY NotIdle DEF StatFile, IInv, GenerationsAreFresh
<1>2. UNCHANGED <<options, phase, files, timer, out, hurdles>>
  BY DEF StatFile
<1>3. PICK f, q :
        /\ f \in r.stats
        /\ generations' = [generations EXCEPT ![g] = q]
        /\ q = IF text[f] = 0 THEN less(f)
               ELSE IF cache[f] # None /\ cache[f].mtime >= text[f] THEN cached(f) ELSE noted(f)
  <2>1. PICK f \in r.stats :
          generations' = [generations EXCEPT ![g] =
            IF text[f] = 0 THEN less(f)
            ELSE IF cache[f] # None /\ cache[f].mtime >= text[f] THEN cached(f) ELSE noted(f)]
    BY DEF StatFile
  <2> HIDE DEF less, cached, noted
  <2> QED BY <2>1
<1>4. /\ less(f).stage = "failed"
      /\ cached(f).stage = r.stage /\ cached(f).lists = r.lists /\ cached(f).reads = r.reads
      /\ cached(f).stats = r.stats \ {f} /\ cached(f).texts = With(r.texts, f, cache[f].document)
      /\ noted(f).stage = r.stage /\ noted(f).lists = r.lists /\ noted(f).texts = r.texts
      /\ noted(f).stats = r.stats \ {f} /\ noted(f).reads = With(r.reads, f, text[f])
  BY <1>1 DEF Generation, Fail
<1> HIDE DEF less, cached, noted
<1>5. g \notin Running => q.stage \in {"idle", "failed"}
  BY <1>1, <1>3, <1>4 DEF Running, Active, IInv, GenerationsAreFresh
<1>6. ASSUME g \in Running, Quiet
      PROVE  q.stage \notin {"idle", "failed"} /\ Faithful(q)
  <2> DEFINE D == Directory(r.stage)
  <2>1. Faithful(r) /\ r.stage \notin {"idle", "failed"}
    BY <1>6 DEF RInv, Described, Running, Active
  <2>2. r.stage \in Reading /\ Covers(r, D)
    BY <1>3, <2>1 DEF Faithful, Complete, NothingLeft
  <2>3. D \in Directories
    BY DEF Directory, Directories
  <2>4. f \in Files /\ f \in Inside(D) /\ text[f] # 0
    BY <1>3, <1>1, <2>2, <2>3, InsideDirectory DEF Covers, Generation
  <2>5. r.texts \in Times /\ r.reads \in Times /\ text[f] \in Nat
    BY <1>1, <2>4 DEF Generation, IInv, ClockBounds
  <2>6. CASE cache[f] # None /\ cache[f].mtime >= text[f]
    <3>1. cache[f].document = text[f]
      BY <2>4, <2>5, <2>6 DEF IInv, CacheIsHonest, EntryIsHonest, RInv, CacheIsNotLater
    <3>2. q = cached(f)
      BY <1>3, <2>4, <2>6
    <3>3. /\ DOMAIN q.texts = DOMAIN r.texts \cup {f} /\ q.texts[f] = text[f]
          /\ \A e \in DOMAIN r.texts : e # f => q.texts[e] = r.texts[e]
      <4>1. /\ DOMAIN With(r.texts, f, text[f]) = DOMAIN r.texts \cup {f}
            /\ With(r.texts, f, text[f])[f] = text[f]
            /\ \A e \in DOMAIN r.texts : e # f => With(r.texts, f, text[f])[e] = r.texts[e]
        <5>1. f \in Files /\ r.texts \in Times /\ text[f] \in Nat
          BY <2>4, <2>5
        <5>2. Adds(r.texts, f, text[f], With(r.texts, f, text[f]))
          BY <5>1, AddedTime
        <5> QED BY <5>2 DEF Adds
      <4> QED BY <1>4, <3>1, <3>2, <4>1
    <3>4. Covers(q, D)
      BY <1>4, <2>2, <3>2, <3>3 DEF Covers
    <3> HIDE DEF D
    <3>5. \A e \in DOMAIN q.texts : \/ e \in DOMAIN r.texts /\ q.texts[e] = r.texts[e]
                                    \/ e \in Inside(D) /\ q.texts[e] = text[e]
      BY <2>4, <3>3
    <3> QED BY <1>1, <1>4, <2>1, <2>2, <3>2, <3>3, <3>4, <3>5, GoesOnReading DEF D
  <2>7. CASE ~(cache[f] # None /\ cache[f].mtime >= text[f])
    <3>1. q = noted(f)
      BY <1>3, <2>4, <2>7
    <3>2. DOMAIN q.reads = DOMAIN r.reads \cup {f}
      <4>1. DOMAIN With(r.reads, f, text[f]) = DOMAIN r.reads \cup {f}
        <5>1. Adds(r.reads, f, text[f], With(r.reads, f, text[f]))
          BY <2>4, <2>5, AddedTime
        <5> QED BY <5>1 DEF Adds
      <4> QED BY <1>4, <3>1, <4>1
    <3>3. Covers(q, D)
      BY <1>4, <2>2, <2>4, <3>1, <3>2 DEF Covers
    <3> QED BY <1>1, <1>4, <2>1, <2>2, <3>1, <3>3, GoesOnReading
  <2> QED BY <2>6, <2>7
<1> QED BY <1>2, <1>3, <1>5, <1>6, ReadingStep DEF RInv

(* What does not parse does not build.                                           *)
LEMMA ReadFileReflects ==
  ASSUME IInv, RInv, NEW g \in 1..MaxGenerations, ReadFile(g)
  PROVE  RunsAlone' /\ Described'
<1> DEFINE r == generations[g]
           left(f) == Restrict(r.reads, DOMAIN r.reads \ {f})
           failed(f) == [Fail(g) EXCEPT !.reads = left(f)]
           done(f) == [r EXCEPT !.reads = left(f), !.texts = With(@, f, text[f])]
<1>1. r.stage # "idle" /\ r \in Generation
  BY NotIdle DEF ReadFile, IInv, GenerationsAreFresh
<1>2. UNCHANGED <<options, phase, files, timer, out, hurdles>>
  BY DEF ReadFile, FinishReadFile
<1>3. PICK f, q :
        /\ f \in DOMAIN r.reads
        /\ generations' = [generations EXCEPT ![g] = q]
        /\ q = IF text[f] = 0 \/ flaw[text[f]] = "syntax" THEN failed(f) ELSE done(f)
  BY DEF ReadFile, FinishReadFile
<1>4. /\ failed(f).stage = "failed"
      /\ done(f).stage = r.stage /\ done(f).lists = r.lists /\ done(f).stats = r.stats
      /\ done(f).reads = left(f) /\ done(f).texts = With(r.texts, f, text[f])
  BY <1>1 DEF Generation, Fail
<1>5. r.texts \in Times /\ r.reads \in Times
  BY <1>1 DEF Generation
<1>6. DOMAIN left(f) = DOMAIN r.reads \ {f} /\ f \in Files
  BY <1>3, <1>5, TakenTime, TimesFacts
<1> HIDE DEF failed, done, left
<1>7. g \notin Running => q.stage \in {"idle", "failed"}
  BY <1>1, <1>3, <1>4 DEF Running, Active, IInv, GenerationsAreFresh
<1>8. ASSUME g \in Running, Quiet
      PROVE  IF q.stage \in {"idle", "failed"} THEN Reflected ELSE Faithful(q)
  <2> DEFINE D == Directory(r.stage)
  <2>1. Faithful(r) /\ r.stage \notin {"idle", "failed"}
    BY <1>8 DEF RInv, Described, Running, Active
  <2>2. r.stage \in Reading /\ Covers(r, D)
    BY <1>3, <2>1, NoTimes DEF Faithful, Complete, NothingLeft
  <2>3. D \in Directories /\ D \in Sources(r.stage)
    BY <2>2 DEF Directory, Directories, Reading, Sources, ClientSources
  <2>4. f \in Inside(D) /\ text[f] # 0
    BY <1>3, <1>6, <2>2, <2>3, InsideDirectory DEF Covers
  <2>5. text[f] \in Nat
    BY <1>6 DEF IInv, ClockBounds
  <2>6. CASE flaw[text[f]] = "syntax"
    <3>1. Reflected
      BY <1>6, <2>1, <2>2, <2>3, <2>4, <2>6, Refuted
    <3> QED BY <1>3, <1>4, <2>6, <3>1
  <2>7. CASE flaw[text[f]] # "syntax"
    <3>1. q = done(f)
      BY <1>3, <2>4, <2>7
    <3>2. /\ DOMAIN q.texts = DOMAIN r.texts \cup {f} /\ q.texts[f] = text[f]
          /\ \A e \in DOMAIN r.texts : e # f => q.texts[e] = r.texts[e]
      <4>1. /\ DOMAIN With(r.texts, f, text[f]) = DOMAIN r.texts \cup {f}
            /\ With(r.texts, f, text[f])[f] = text[f]
            /\ \A e \in DOMAIN r.texts : e # f => With(r.texts, f, text[f])[e] = r.texts[e]
        <5>1. f \in Files /\ r.texts \in Times /\ text[f] \in Nat
          BY <1>5, <1>6, <2>5
        <5>2. Adds(r.texts, f, text[f], With(r.texts, f, text[f]))
          BY <5>1, AddedTime
        <5> QED BY <5>2 DEF Adds
      <4> QED BY <1>4, <3>1, <4>1
    <3>3. Covers(q, D)
      BY <1>4, <1>6, <2>2, <3>1, <3>2 DEF Covers
    <3> HIDE DEF D
    <3>4. \A e \in DOMAIN q.texts : \/ e \in DOMAIN r.texts /\ q.texts[e] = r.texts[e]
                                    \/ e \in Inside(D) /\ q.texts[e] = text[e]
      BY <2>4, <3>2
    <3> QED BY <1>1, <1>4, <2>1, <2>2, <3>1, <3>2, <3>3, <3>4, GoesOnReading DEF D
  <2> QED BY <2>6, <2>7
<1> QED BY <1>2, <1>3, <1>7, <1>8, ReadingStep DEF RInv

--------------------------------------------------------------------------------
(* Changes elsewhere *)

(* If the watched directories stay as they are, so does what is said of them.    *)
LEMMA SameDirectories ==
  ASSUME UNCHANGED <<options, out>>,
         \A d \in WatchedDirectories :
           /\ Inside(d)' = Inside(d)
           /\ \A f \in Files \cap Inside(d) :
                text'[f] = text[f] /\ flaw'[text[f]] = flaw[text[f]]
  PROVE  /\ Reflected => Reflected'
         /\ \A q \in Generation : Faithful(q) => Faithful(q)'
<1>1. /\ ClientSources' = ClientSources /\ \A stage : Sources(stage)' = Sources(stage)
      /\ options.server => "schema" \in WatchedDirectories
      /\ options.client => ClientSources \subseteq WatchedDirectories
      /\ "schema" \in ClientSources <=> options.introspection = "none"
      /\ "operations" \in ClientSources
  BY DEF Sources, ClientSources, WatchedDirectories, Directories
<1>2. \A D \in SUBSET WatchedDirectories :
        Texts(D)' = Texts(D) /\ (Builds(Texts(D))' <=> Builds(Texts(D)))
  <2> SUFFICES ASSUME NEW D \in SUBSET WatchedDirectories
               PROVE  Texts(D)' = Texts(D) /\ (Builds(Texts(D))' <=> Builds(Texts(D)))
    OBVIOUS
  <2>1. UNION {Inside(d)' : d \in D} = UNION {Inside(d) : d \in D}
    OBVIOUS
  <2>2. \A f \in Files \cap UNION {Inside(d) : d \in D} :
          text'[f] = text[f] /\ flaw'[text[f]] = flaw[text[f]]
    OBVIOUS
  <2>3. Texts(D)' = Texts(D)
    BY <2>1, <2>2 DEF Texts
  <2>4. \A f \in DOMAIN Texts(D) : flaw'[Texts(D)[f]] = flaw[Texts(D)[f]]
    BY <2>2 DEF Texts
  <2> QED BY <2>3, <2>4 DEF Builds
<1>3. Reflected => Reflected'
  <2>1. options.server \/ (options.client /\ options.introspection = "none") =>
          {"schema"} \in SUBSET WatchedDirectories
    BY <1>1
  <2>2. CASE options.server /\ options.client
    BY <1>1, <1>2, <2>1, <2>2 DEF Reflected
  <2>3. CASE options.server /\ ~options.client
    BY <1>1, <1>2, <2>1, <2>3 DEF Reflected
  <2>4. CASE ~options.server
    BY <1>1, <1>2, <2>4 DEF Reflected
  <2> QED BY <2>2, <2>3, <2>4
<1>4. ASSUME NEW q \in Generation, Faithful(q) PROVE Faithful(q)'
  <2>1. Sources(q.stage) \subseteq WatchedDirectories
    BY <1>1, <1>4 DEF Faithful, OnCourse, Sources
  <2>2. q.stage \in Reading => Directory(q.stage) \in WatchedDirectories
    BY <1>1, <1>4 DEF Faithful, OnCourse, Directory, Reading
  <2>3. Current(q)'
    <3>1. DOMAIN q.texts \subseteq Files
      BY TimesFacts DEF Generation
    <3> QED BY <1>1, <1>4, <2>1, <3>1 DEF Faithful, Current
  <2>4. Complete(q)'
    <3>1. q.stage \in Reading => Covers(q, Directory(q.stage))'
      BY <1>4, <2>2 DEF Faithful, Complete, Covers
    <3>2. q.stage = "operations" /\ options.introspection = "none" => "schema" \in WatchedDirectories
      BY <1>1, <1>4 DEF Faithful, OnCourse
    <3> QED BY <1>1, <1>4, <2>1, <3>1, <3>2 DEF Faithful, Complete
  <2>5. OnCourse(q)'
    BY <1>4 DEF Faithful, OnCourse
  <2>6. Written(q)'
    BY <1>1, <1>2, <1>4 DEF Faithful, Written
  <2> QED BY <2>3, <2>4, <2>5, <2>6 DEF Faithful
<1> QED BY <1>3, <1>4

(* A change that nobody reports is not in a directory that is watched.           *)
LEMMA UnreportedChange ==
  ASSUME IInv, Rooted, NEW d \in Directories, CoveredIn(d), NEW f \in Files, Change(f), notices' = {}
  PROVE  Inside(d)' = Inside(d) /\ \A e \in Files \cap Inside(d) : text'[e] = text[e]
<1>1. /\ text \in [Files -> 0..clock] /\ folders' = folders /\ notices = {}
      /\ text' = [text EXCEPT ![f] = clock + 1] \/ text' = [text EXCEPT ![f] = 0]
  BY ChangeReports DEF IInv, ClockBounds, Change
<1>2. f \notin watched /\ (text[f] = 0 => In[f] \notin watched)
  BY ChangeReports
<1>3. f \notin Inside(d)
  BY <1>1, <1>2 DEF CoveredIn
<1>4. d \notin Above[f]
  <2>1. CASE text[f] # 0
    BY <1>3, <2>1, InsideDirectory
  <2>2. CASE text[f] = 0
    <3>1. f \in Paths \ Directories /\ f \in Above[f]
      BY PathKinds, AboveClosed
    <3> QED BY <1>1, <1>2, <2>2, <3>1, ChangeReports, NewIsCovered
  <2> QED BY <2>1, <2>2
<1>5. Inside(d)' = Inside(d)
  BY <1>1, <1>4 DEF Inside
<1> QED BY <1>1, <1>3, <1>5

(* Nor is a folder.                                                              *)
LEMMA UnreportedMove ==
  ASSUME IInv, Rooted, NEW d \in Directories, CoveredIn(d), NEW p \in Folders \cup Others, Move(p),
         notices' = {}
  PROVE  Inside(d)' = Inside(d) /\ \A e \in Files \cap Inside(d) : text'[e] = text[e]
<1> DEFINE moved == {x \in Paths : p \in Above[x]}
<1>1. /\ folders' = IF p \notin folders THEN folders \cup (moved \ Files) ELSE folders \ moved
      /\ text' = [f \in Files |-> IF f \notin moved THEN text[f]
                                  ELSE IF p \notin folders THEN clock + 1 ELSE 0]
  BY DEF Move
<1>2. In[p] \notin watched /\ In[p] \in folders \cup Directories /\ notices \subseteq notices'
  BY MoveReports
<1>3. \A q \in moved : d \notin Above[q]
  BY <1>2, PathKinds, NewIsCovered
<1>4. Inside(d)' = Inside(d)
  <2>1. \A x : d \in Above[x] /\ x \in Files \cup Folders => x \notin moved
    BY <1>3
  <2>2. \A x \in Folders : d \in Above[x] => (x \in folders' <=> x \in folders)
    BY <1>1, <2>1
  <2>3. \A x \in Files : d \in Above[x] => text'[x] = text[x]
    BY <1>1, <2>1
  <2> QED BY <2>2, <2>3 DEF Inside
<1>5. \A e \in Files \cap Inside(d) : text'[e] = text[e]
  BY <1>1, <1>3, InsideDirectory
<1> QED BY <1>4, <1>5

(* Nothing changes where nobody reports it.                                      *)
LEMMA EnvironmentReflects ==
  ASSUME IInv, RInv, Environment
  PROVE  RunsAlone' /\ Described'
<1>1. UNCHANGED <<options, generations, out, timer, phase>> /\ hurdles \subseteq hurdles'
  BY DEF Environment, Change, Move, EndpointChanges, Missed
<1>2. Running' = Running
  BY <1>1 DEF Running, Active
<1>3. RunsAlone'
  BY <1>1, <1>2 DEF RInv, RunsAlone
<1>4. ASSUME Quiet' PROVE Quiet /\ (phase = "watching" \/ EndpointChanges)
  <2>1. notices \subseteq notices'
    BY ChangeReports, MoveReports DEF Environment, EndpointChanges
  <2>2. phase \in {"generating", "watching"}
    BY <1>1, <1>4 DEF Quiet
  <2>3. phase = "generating" => EndpointChanges
    BY <1>4 DEF Environment, Change, Move, Missed, Quiet
  <2> QED BY <1>1, <1>4, <2>1, <2>2, <2>3 DEF Quiet
<1>5. \A t \in 1..clock : flaw'[t] = flaw[t]
  <2>1. clock \in Nat /\ clock < MaxChanges /\ MaxChanges \in Nat
    BY CodeGenerationAssumption DEF Environment, Change, Move, EndpointChanges, Tick, IInv, ClockBounds
  <2>2. flaw' = flaw \/ \E kind : flaw' = [flaw EXCEPT ![clock + 1] = kind]
    BY DEF Environment, Change, Move, EndpointChanges
  <2> QED BY <2>1, <2>2 DEF RInv, RTypes
<1>6. ASSUME Quiet', NEW d \in WatchedDirectories
      PROVE  /\ Inside(d)' = Inside(d)
             /\ \A f \in Files \cap Inside(d) :
                  text'[f] = text[f] /\ flaw'[text[f]] = flaw[text[f]]
  <2>1. d \in Directories
    BY DEF WatchedDirectories
  <2>2. Inside(d)' = Inside(d) /\ \A f \in Files \cap Inside(d) : text'[f] = text[f]
    <3>1. CASE EndpointChanges
      BY <3>1 DEF EndpointChanges, Inside
    <3>2. CASE ~EndpointChanges
      <4>1. CoveredIn(d) /\ notices' = {}
        BY <1>4, <1>6, <3>2 DEF RInv, Covered, Quiet
      <4> QED BY <2>1, <3>2, <4>1, UnreportedChange, UnreportedMove DEF RInv, Environment
    <3> QED BY <3>1, <3>2
  <2>3. \A f \in Files \cap Inside(d) : text[f] \in 1..clock
    <3>1. \A f \in Files : text[f] \in 0..clock /\ clock \in Nat
      BY DEF IInv, ClockBounds
    <3> QED BY <2>1, <3>1, InsideDirectory
  <2> QED BY <1>5, <2>2, <2>3
<1>7. Described'
  <2> SUFFICES ASSUME Quiet'
               PROVE  /\ \A h \in Running' : Faithful(generations[h])'
                      /\ Running' = {} => Reflected'
    BY DEF Described
  <2>1. /\ Reflected => Reflected'
        /\ \A q \in Generation : Faithful(q) => Faithful(q)'
    BY <1>1, <1>6, SameDirectories
  <2>2. ASSUME NEW h \in Running PROVE Faithful(generations[h])'
    <3>1. PICK r : r = generations[h]
      OBVIOUS
    <3>2. Faithful(r) /\ generations'[h] = r /\ r \in Generation
      BY <1>1, <1>4, <3>1, NotIdle DEF RInv, Described, Running, Active, IInv, GenerationsAreFresh
    <3>3. Faithful(r)'
      BY <2>1, <3>2
    <3> QED BY <3>2, <3>3 DEF Faithful, Current, Complete, OnCourse, Written, Covers, NothingLeft
  <2> QED BY <1>2, <1>4, <2>1, <2>2 DEF RInv, Described
<1> QED BY <1>3, <1>7

--------------------------------------------------------------------------------
(* All steps *)

(* A generation begins on its own: it is to read everything.                     *)
LEMMA FireReflects ==
  ASSUME IInv, RInv, Fire
  PROVE  RunsAlone' /\ Described'
<1> SUFFICES ASSUME hurdles' = {}
             PROVE  RunsAlone' /\ Described'
  BY DEF RunsAlone, Described, Quiet
<1>1. PICK g \in 1..MaxGenerations : generations' = [generations EXCEPT ![g] = NewGeneration]
  BY DEF Fire, IInv, GenerationsAreFresh
<1>2. Running = {}
  BY DEF Fire
<1>3. PICK q : q = NewGeneration
  OBVIOUS
<1>4. q.stage = "start" /\ q.texts = <<>> /\ NothingLeft(q)
  BY <1>3 DEF NewGeneration, NothingLeft
<1>5. Running' = {g} /\ generations'[g] = q
  <2>1. generations' = [generations EXCEPT ![g] = q]
    BY <1>1, <1>3
  <2>2. generations'[g] = q /\ g \in Running'
    BY <1>4, <2>1, WhoRuns
  <2>3. \A h : h # g => h \notin Running'
    BY <1>2, <2>1, WhoRuns
  <2> QED BY <2>2, <2>3
<1>6. Faithful(q)'
  BY <1>4, NoTimes DEF Faithful, Current, Complete, OnCourse, Written, NothingLeft, Reading
<1>7. Faithful(generations[g])'
  BY <1>5, <1>6 DEF Faithful, Current, Complete, OnCourse, Written, Covers, NothingLeft
<1> QED BY <1>5, <1>7 DEF RunsAlone, Described

(* The other steps of run() and of the watchers                                  *)
LEMMA OthersReflect ==
  ASSUME IInv, RInv, EndRun \/ FireForNothing \/ \E n \in notices : Notice(n)
  PROVE  RunsAlone' /\ Described'
<1>1. UNCHANGED <<options, text, folders, flaw, out, generations>> /\ hurdles \subseteq hurdles'
  BY DEF EndRun, FireForNothing, Notice, files
<1>2. Running' = Running
  BY <1>1 DEF Running, Active
<1>3. RunsAlone'
  BY <1>1, <1>2 DEF RInv, RunsAlone
<1>4. Quiet' => Quiet /\ Running = {}
  <2>1. CASE EndRun
    BY <2>1 DEF EndRun, Quiet
  <2>2. CASE FireForNothing
    BY <2>2 DEF FireForNothing, Quiet
  <2>3. ASSUME NEW n \in notices, Notice(n) PROVE timer' # None
    BY <2>3, CodeGenerationAssumption DEF Notice, RInv, RTypes
  <2> QED BY <2>1, <2>2, <2>3 DEF Quiet
<1>5. Described'
  BY <1>1, <1>2, <1>4, SameDescription DEF RInv, Described
<1> QED BY <1>3, <1>5

(* To begin with a generation is to read everything.                             *)
LEMMA InitReflects == Init => RInv
<1> SUFFICES ASSUME Init PROVE RInv
  OBVIOUS
<1>1. RTypes
  BY LayoutAssumption DEF Init, RTypes
<1>2. Rooted
  <2>1. InitialFiles \cup InitialFolders \subseteq Paths
    BY LayoutAssumption DEF Paths
  <2> QED BY <2>1, LayoutAssumption DEF Init, Rooted
<1>3. Covered /\ CacheIsNotLater
  BY DEF Init, Covered, CacheIsNotLater
<1>4. PICK q : q = NewGeneration
  OBVIOUS
<1>5. q.stage = "start" /\ q.texts = <<>> /\ NothingLeft(q)
  BY <1>4 DEF NewGeneration, NothingLeft
<1>6. Running = {1} /\ generations[1] = q
  BY <1>4, <1>5, CodeGenerationAssumption DEF Init, Running, Active, Idle
<1>7. Faithful(q)
  BY <1>5, NoTimes DEF Faithful, Current, Complete, OnCourse, Written, Reading
<1>8. RunsAlone /\ Described
  BY <1>6, <1>7 DEF RunsAlone, Described
<1> QED BY <1>1, <1>2, <1>3, <1>8 DEF RInv

(* No step breaks it.                                                            *)
LEMMA NextReflects == IInv /\ RInv /\ [Next]_vars => RInv'
<1> SUFFICES ASSUME IInv, RInv, [Next]_vars PROVE RInv'
  OBVIOUS
<1>1. CASE UNCHANGED vars
  <2>1. UNCHANGED <<options, text, folders, flaw, out>> /\ Running' = Running
    BY <1>1 DEF vars, files, Running, Active
  <2>2. RTypes' /\ Rooted' /\ CacheIsNotLater' /\ RunsAlone'
    BY <1>1, <2>1 DEF vars, files, RInv, RTypes, Rooted, CacheIsNotLater, RunsAlone
  <2>3. Covered'
    BY <1>1 DEF vars, files, RInv, Covered, CoveredIn, Inside, WatchedDirectories
  <2>4. Described'
    <3>1. Quiet' => Quiet
      BY <1>1 DEF vars, files, Quiet
    <3>2. ASSUME NEW h \in Running, Quiet PROVE Faithful(generations[h])'
      <4>1. PICK r : r = generations[h]
        OBVIOUS
      <4>2. Faithful(r) /\ generations'[h] = r
        BY <1>1, <3>2, <4>1 DEF RInv, Described, vars
      <4>3. Faithful(r)'
        BY <2>1, <4>2, SameDescription
      <4> QED BY <4>2, <4>3 DEF Faithful, Current, Complete, OnCourse, Written, Covers, NothingLeft
    <3> QED BY <2>1, <3>1, <3>2, SameDescription DEF RInv, Described
  <2> QED BY <2>2, <2>3, <2>4 DEF RInv
<1>2. CASE Next
  <2>1. RTypes' /\ Rooted' /\ Covered' /\ CacheIsNotLater'
    BY <1>2, NextRooted, NextCovered, NextNotLater DEF RInv
  <2>2. CASE Environment
    BY <2>1, <2>2, EnvironmentReflects DEF RInv
  <2>3. CASE \E g \in DOMAIN generations :
               \/ ReadDir(g) \/ StatFile(g) \/ ReadFile(g)
               \/ StartServer(g) \/ BuildServer(g) \/ WriteServer(g)
               \/ StartClient(g) \/ Introspect(g) \/ UseAnswer(g) \/ FallBack(g)
               \/ BuildClientSchema(g) \/ BuildClient(g) \/ WriteClient(g)
               \/ EndFailed(g)
    <3>1. DOMAIN generations = 1..MaxGenerations
      BY DEF IInv, GenerationsAreFresh
    <3>2. RunsAlone' /\ Described'
      BY <2>3, <3>1, ReadDirReflects, StatFileReflects, ReadFileReflects, StartServerReflects,
         BuildServerReflects, WriteServerReflects, StartClientReflects, IntrospectReflects,
         UseAnswerReflects, FallBackReflects, BuildClientSchemaReflects, BuildClientReflects,
         WriteClientReflects, EndFailedReflects
    <3> QED BY <2>1, <3>2 DEF RInv
  <2>4. CASE Fire
    BY <2>1, <2>4, FireReflects DEF RInv
  <2>5. CASE EndRun \/ FireForNothing \/ \E n \in notices : Notice(n)
    BY <2>1, <2>5, OthersReflect DEF RInv
  <2> QED BY <1>2, <2>2, <2>3, <2>4, <2>5 DEF Next, System
<1> QED BY <1>1, <1>2

(* At rest and with nothing missed, the output is made from the files as they    *)
(* are, however the files and folders lie and whatever happened to them.         *)
THEOREM Reflection == Spec => []ChangesAreReflected
<1>1. Spec => []RInv
  BY Invariant, InitReflects, NextReflects, PTL DEF Spec
<1>2. RInv => ChangesAreReflected
  BY DEF RInv, Described, Quiet, AtRest, ChangesAreReflected
<1> QED BY <1>1, <1>2, PTL

==================================================================================
