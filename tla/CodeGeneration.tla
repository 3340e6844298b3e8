------------------------------ MODULE CodeGeneration ------------------------------
(***************************************************************************)
(* codegen/CodeGenerator.ts in watch mode, with read/GraphQLReader.ts and  *)
(* util/watchRecursive.ts: files change, watchers call back, a timer waits *)
(* for the last call, and generations read the files and write the output, *)
(* several of them at the same time if they take long.                     *)
(*                                                                         *)
(* The clock counts changes.  Its value at a change is both the file's new *)
(* text and its new mtime: every write gives a file a later mtime.         *)
(***************************************************************************)
EXTENDS Naturals, FiniteSets, Functions

CONSTANTS
  Files,             \* GraphQL files
  Folders,           \* folders in the two directories
  Others,            \* files of other types
  In,                \* where they are: "schema", "operations" or a folder
  InitialFiles, InitialFolders,
  OptionsInUse,      \* [server, client, watch: BOOLEAN, introspection: "none", "url" or "file"]
  None, Down, NoSchema,
  MaxChanges,        \* bound: changes of files and of the endpoint
  MaxGenerations     \* bound: generations at the same time

Directories == {"schema", "operations"}

Paths == Directories \cup Folders \cup Files \cup Others

ASSUME CodeGenerationAssumption ==
  /\ MaxChanges \in Nat /\ MaxGenerations \in Nat \ {0}
  /\ Down \notin Nat /\ NoSchema \notin Nat /\ Down # NoSchema
  /\ None \notin Paths \cup Nat \cup {Down, NoSchema}

\* Every path is of one kind, and in one of the directories or folders; what exists
\* to begin with is in what exists.
ASSUME LayoutAssumption ==
  /\ Files \cap Folders = {} /\ Others \cap (Files \cup Folders) = {}
  /\ Directories \cap (Files \cup Folders \cup Others) = {}
  /\ \A p \in Paths \ Directories : In[p] \in Directories \cup Folders
  /\ InitialFiles \subseteq Files /\ InitialFolders \subseteq Folders \cup Others
  /\ \A p \in InitialFiles \cup InitialFolders : In[p] \in Directories \cup InitialFolders
  /\ \A o \in OptionsInUse : /\ {o.server, o.client, o.watch} \subseteq BOOLEAN
                             /\ o.introspection \in {"none", "url", "file"}

VARIABLES
  options,
  phase,             \* run(): "generating", "watching", "ended"
  clock,
  text,              \* of each file, 0 if there is none
  flaw,              \* of each text: "none", "syntax", or "schema" if it does not build
  folders,           \* and other files, that exist
  watched,           \* directories, folders and files with a watcher
  notices,           \* [path, event]: events that watchers are about to report
  timer,             \* the path that waits for 100 ms to pass, or None
  generations,
  cache,             \* of the reader: [mtime, document] for each file, or None
  out,               \* the texts that schema.ts and operations.ts were generated from
  endpoint,          \* what introspection answers: Down, NoSchema, or a schema: the time it is of
  kept,              \* introspection.file: None, NoSchema or a schema
  answered,          \* history: the last answer, NoSchema or a schema, or 0
  overlapped,        \* history: has a generation begun during another one, since the
                     \* last answer that was used by one on its own?
  hurdles            \* history: why changes may have been missed since the last
                     \* generation that had begun on its own

files == <<clock, text, flaw, folders, watched, notices>>
vars == <<options, phase, files, timer, generations, cache, out,
          endpoint, kept, answered, overlapped, hurdles>>

Idle == [stage |-> "idle"]

\* A generation that is to end yet; what it still reads after a failure is of no use.
Active(g) == generations[g].stage \notin {"idle", "failed"}
Running == {g \in DOMAIN generations : Active(g)}

\* Everything a path is in, itself included: the least set that leads from it to a
\* directory
Above ==
  [path \in Paths |->
     {p \in Paths : \A S \in SUBSET Paths :
        path \in S /\ (\A q \in S \ Directories : In[q] \in S) => p \in S}]

\* What exists in a directory or folder, itself included
Inside(folder) ==
  {folder} \cup {p \in (Folders \cap folders) \cup {f \in Files : text[f] # 0} : folder \in Above[p]}

Texts(directories) == [f \in Files \cap UNION {Inside(d) : d \in directories} |-> text[f]]

--------------------------------------------------------------------------------
(* The files and the endpoint *)

\* fs.watchFile() reports any change of the file; a watcher of a directory those of its list.
Reported(path, existed, exists) ==
  {[path |-> path, event |-> "change"] : w \in watched \cap {path} \cap Files}
    \cup IF existed = exists THEN {}
         ELSE {[path |-> path, event |-> "rename"] : w \in watched \cap {In[path]}}

Missed == hurdles' = IF phase = "generating" THEN hurdles \cup {"early"} ELSE hurdles

Tick == clock < MaxChanges /\ phase # "ended" /\ clock' = clock + 1

\* A file is created, edited or removed.
Change(f) ==
  /\ Tick
  /\ In[f] \in folders \cup Directories
  /\ \/ /\ text' = [text EXCEPT ![f] = clock + 1]
        /\ \E kind \in {"none", "syntax", "schema"} : flaw' = [flaw EXCEPT ![clock + 1] = kind]
        /\ notices' = notices \cup Reported(f, text[f] # 0, TRUE)
     \/ /\ text[f] # 0
        /\ text' = [text EXCEPT ![f] = 0]
        /\ notices' = notices \cup Reported(f, TRUE, FALSE)
        /\ UNCHANGED flaw
  /\ Missed
  /\ UNCHANGED <<options, phase, folders, watched, timer, generations, cache, out,
                 endpoint, kept, answered, overlapped>>

\* A folder with all that is in it, or another file, appears or disappears.
Move(p) ==
  /\ Tick
  /\ In[p] \in folders \cup Directories
  /\ LET moved == {q \in Paths : p \in Above[q]}
         appears == p \notin folders
     IN  /\ folders' = IF appears THEN folders \cup (moved \ Files) ELSE folders \ moved
         /\ text' = [f \in Files |-> IF f \notin moved THEN text[f]
                                     ELSE IF appears THEN clock + 1 ELSE 0]
         /\ watched' = watched \ (moved \ Files)
         /\ notices' = notices \cup Reported(p, ~appears, appears)
                         \cup UNION {Reported(f, appears, appears) :
                                       f \in {g \in moved \cap Files : appears \/ text[g] # 0}}
  /\ Missed
  /\ UNCHANGED <<options, phase, flaw, timer, generations, cache, out,
                 endpoint, kept, answered, overlapped>>

EndpointChanges ==
  /\ options.introspection # "none"
  /\ Tick
  /\ endpoint' \in {Down, NoSchema, clock + 1} \ {endpoint}
  /\ UNCHANGED <<options, phase, text, flaw, folders, watched, notices, timer, generations,
                 cache, out, kept, answered, overlapped, hurdles>>

--------------------------------------------------------------------------------
(* The reader *)

With(map, f, n) == [e \in DOMAIN map \cup {f} |-> IF e = f THEN n ELSE map[e]]

\* A reading stage begins with the list of its directory.
Reads(g, stage, directory) ==
  [generations[g] EXCEPT !.stage = stage, !.lists = {directory}]

\* What is left to read when another read fails goes on.
Fail(g) == [generations[g] EXCEPT !.stage = "failed", !.lists = {}]

\* readDir(): the files of a list first, its folders after them, side by side.
ReadDir(g) ==
  /\ generations[g].stage # "idle"
  /\ \E d \in generations[g].lists :
       LET here == {p \in Files : In[p] = d /\ text[p] # 0}
           inside == {p \in Folders \cap folders : In[p] = d}
           read == [generations[g] EXCEPT !.stats = @ \cup here, !.lists = (@ \ {d}) \cup inside]
       IN  /\ d \in Folders => \A f \in generations[g].stats \cup DOMAIN generations[g].reads :
                                In[f] # In[d]
           /\ generations' = [generations EXCEPT ![g] =
                IF d \notin folders \cup Directories THEN Fail(g) ELSE read]
  /\ UNCHANGED <<options, phase, files, timer, cache, out,
                 endpoint, kept, answered, overlapped, hurdles>>

\* readFile() up to its answer from the cache.
StatFile(g) ==
  /\ generations[g].stage # "idle"
  /\ \E f \in generations[g].stats :
       LET after == [generations[g] EXCEPT !.stats = @ \ {f}]
       IN  generations' = [generations EXCEPT ![g] =
             IF text[f] = 0 THEN [Fail(g) EXCEPT !.stats = @ \ {f}]
             ELSE IF cache[f] # None /\ cache[f].mtime >= text[f]
             THEN [after EXCEPT !.texts = With(@, f, cache[f].document)]
             ELSE [after EXCEPT !.reads = With(@, f, text[f])]]
  /\ UNCHANGED <<options, phase, files, timer, cache, out,
                 endpoint, kept, answered, overlapped, hurdles>>

\* readFile() from there: only what parses is cached, under the mtime from before.
FinishReadFile(g, f, entry) ==
  /\ LET reads == Restrict(generations[g].reads, DOMAIN generations[g].reads \ {f})
     IN  IF text[f] = 0 \/ flaw[text[f]] = "syntax"
         THEN /\ generations' = [generations EXCEPT ![g] = [Fail(g) EXCEPT !.reads = reads]]
              /\ UNCHANGED cache
         ELSE /\ generations' = [generations EXCEPT
                   ![g] = [generations[g] EXCEPT !.reads = reads, !.texts = With(@, f, text[f])]]
              /\ cache' = [cache EXCEPT ![f] = entry]
  /\ UNCHANGED <<options, phase, files, timer, out, endpoint, kept, answered, overlapped, hurdles>>

\* stat() after readFile(): what was read earlier gets the mtime of now.
Bug_ReadFile(g) ==
  /\ generations[g].stage # "idle"
  /\ \E f \in DOMAIN generations[g].reads :
       FinishReadFile(g, f, [mtime |-> text[f], document |-> generations[g].reads[f]])

ReadFile(g) ==
  /\ generations[g].stage # "idle"
  /\ \E f \in DOMAIN generations[g].reads :
       FinishReadFile(g, f, [mtime |-> generations[g].reads[f], document |-> text[f]])

AllRead(g) ==
  generations[g].lists = {} /\ generations[g].stats = {} /\ generations[g].reads = <<>>

Builds(texts) == \A f \in DOMAIN texts : flaw[texts[f]] = "none"

--------------------------------------------------------------------------------
(* Generations *)

NewGeneration ==
  [stage |-> "start", lists |-> {}, stats |-> {}, reads |-> <<>>, texts |-> <<>>,
   schema |-> 0, since |-> text]

StartServer(g) ==
  /\ generations[g].stage = "start"
  /\ generations' = [generations EXCEPT ![g] =
       IF options.server THEN Reads(g, "server", "schema") ELSE [@ EXCEPT !.stage = "next"]]
  /\ UNCHANGED <<options, phase, files, timer, cache, out,
                 endpoint, kept, answered, overlapped, hurdles>>

\* generateServer() when all files of the schema are read
BuildServer(g) ==
  /\ generations[g].stage = "server" /\ AllRead(g)
  /\ generations' = [generations EXCEPT ![g] =
       IF Builds(@.texts) THEN [@ EXCEPT !.stage = "writeServer"] ELSE Fail(g)]
  /\ UNCHANGED <<options, phase, files, timer, cache, out,
                 endpoint, kept, answered, overlapped, hurdles>>

\* writeServer(), then on to the client
WriteServer(g) ==
  /\ generations[g].stage = "writeServer"
  /\ out' = [out EXCEPT !.server = generations[g].texts]
  /\ generations' = [generations EXCEPT ![g] = [@ EXCEPT !.stage = "next", !.texts = <<>>]]
  /\ UNCHANGED <<options, phase, files, timer, cache,
                 endpoint, kept, answered, overlapped, hurdles>>

\* generateClient() begins
StartClient(g) ==
  /\ generations[g].stage = "next"
  /\ generations' = [generations EXCEPT ![g] =
       IF ~options.client THEN Idle
       ELSE IF options.introspection = "none" THEN Reads(g, "client", "schema")
       ELSE [@ EXCEPT !.stage = "introspect"]]
  /\ UNCHANGED <<options, phase, files, timer, cache, out,
                 endpoint, kept, answered, overlapped, hurdles>>

\* What comes back from the endpoint: nothing, something that is not JSON or not a
\* GraphQL result, a result with errors, one without data, or data.
Responses ==
  IF endpoint = Down THEN {"nothing", "noJson", "noResult", "errors", "noData"} ELSE {"data"}

\* post() returns a result with whatever data there is, or throws.
Posted(response) == response \in {"noData", "data"}

\* introspect() asks for data as well.
Introspected(response) == Posted(response) /\ response # "noData"

\* The endpoint answers; an error is caught if there is a file.
Introspect(g) ==
  /\ generations[g].stage = "introspect"
  /\ \E response \in Responses :
       generations' = [generations EXCEPT ![g] =
         IF Introspected(response) THEN [@ EXCEPT !.stage = "answered", !.schema = endpoint]
         ELSE IF options.introspection = "file" THEN [@ EXCEPT !.stage = "fallback"]
         ELSE Fail(g)]
  /\ answered' = IF endpoint # Down THEN endpoint ELSE answered
  /\ hurdles' = IF endpoint = Down THEN hurdles \cup {"endpoint"} ELSE hurdles
  /\ UNCHANGED <<options, phase, files, timer, cache, out, endpoint, kept, overlapped>>

\* Has no generation begun during the one that runs?
OnItsOwn == "overlap" \notin hurdles

Bug_UseAnswer(g) ==
  /\ generations[g].stage = "answered"
  /\ kept' = IF options.introspection = "file" /\ kept = None THEN generations[g].schema ELSE kept
  /\ generations' = [generations EXCEPT ![g] =
       IF @.schema # NoSchema THEN Reads(g, "operations", "operations")
       ELSE IF options.introspection = "file" THEN [@ EXCEPT !.stage = "fallback"]
       ELSE Fail(g)]
  /\ overlapped' = (overlapped /\ ~OnItsOwn)
  /\ hurdles' = IF generations[g].schema = NoSchema THEN hurdles \cup {"endpoint"} ELSE hurdles
  /\ UNCHANGED <<options, phase, files, timer, cache, out, endpoint, answered>>

\* The answer is written to the file before it is known to be a schema.
UseAnswer(g) ==
  /\ generations[g].stage = "answered"
  /\ kept' = IF options.introspection = "file" THEN generations[g].schema ELSE kept
  /\ generations' = [generations EXCEPT ![g] =
       IF @.schema # NoSchema THEN Reads(g, "operations", "operations")
       ELSE IF options.introspection = "file" THEN [@ EXCEPT !.stage = "fallback"]
       ELSE Fail(g)]
  /\ overlapped' = (overlapped /\ ~OnItsOwn)
  /\ hurdles' = IF generations[g].schema = NoSchema THEN hurdles \cup {"endpoint"} ELSE hurdles
  /\ UNCHANGED <<options, phase, files, timer, cache, out, endpoint, answered>>

\* The schema of the last answer, if the file has one.
FallBack(g) ==
  /\ generations[g].stage = "fallback"
  /\ generations' = [generations EXCEPT ![g] =
       IF kept \in {None, NoSchema} THEN Fail(g)
       ELSE [Reads(g, "operations", "operations") EXCEPT !.schema = kept]]
  /\ UNCHANGED <<options, phase, files, timer, cache, out,
                 endpoint, kept, answered, overlapped, hurdles>>

\* The schema for the client is built, on to the operations.
BuildClientSchema(g) ==
  /\ generations[g].stage = "client" /\ AllRead(g)
  /\ generations' = [generations EXCEPT ![g] =
       IF Builds(@.texts) THEN Reads(g, "operations", "operations") ELSE Fail(g)]
  /\ UNCHANGED <<options, phase, files, timer, cache, out,
                 endpoint, kept, answered, overlapped, hurdles>>

\* parseOperations() is done; validate() and generateClient()
BuildClient(g) ==
  /\ generations[g].stage = "operations" /\ AllRead(g)
  /\ generations' = [generations EXCEPT ![g] =
       IF Builds(@.texts) THEN [@ EXCEPT !.stage = "writeClient"] ELSE Fail(g)]
  /\ UNCHANGED <<options, phase, files, timer, cache, out,
                 endpoint, kept, answered, overlapped, hurdles>>

WriteClient(g) ==
  /\ generations[g].stage = "writeClient"
  /\ out' = [out EXCEPT !.client = generations[g].texts]
  /\ generations' = [generations EXCEPT ![g] = Idle]
  /\ UNCHANGED <<options, phase, files, timer, cache,
                 endpoint, kept, answered, overlapped, hurdles>>

\* The last read after a failure has ended.
EndFailed(g) ==
  /\ generations[g].stage = "failed" /\ AllRead(g)
  /\ generations' = [generations EXCEPT ![g] = Idle]
  /\ UNCHANGED <<options, phase, files, timer, cache, out,
                 endpoint, kept, answered, overlapped, hurdles>>

--------------------------------------------------------------------------------
(* run() and watch() *)

Init ==
  /\ options \in OptionsInUse
  /\ phase = "generating"
  /\ clock = 1
  /\ text = [f \in Files |-> IF f \in InitialFiles THEN 1 ELSE 0]
  /\ flaw = [t \in 1..MaxChanges |-> "none"]
  /\ folders = InitialFolders
  /\ watched = {}
  /\ notices = {}
  /\ timer = None
  /\ endpoint = IF options.introspection = "none" THEN Down ELSE 1
  /\ kept \in {None, 0}
  /\ answered = 0
  /\ generations = [g \in 1..MaxGenerations |-> IF g = 1 THEN NewGeneration ELSE Idle]
  /\ cache = [f \in Files |-> None]
  /\ out = [server |-> <<>>, client |-> <<>>]
  /\ overlapped = FALSE
  /\ hurdles = {}

WatchedDirectories ==
  {d \in Directories : IF d = "schema"
                       THEN options.server \/ (options.client /\ options.introspection = "none")
                       ELSE options.client}

\* The first generation has ended, or failed: on to watch(), where watchRecursive()
\* watches all there is, or out.
EndRun ==
  /\ phase = "generating"
  /\ Running = {}
  /\ phase' = IF options.watch THEN "watching" ELSE "ended"
  /\ watched' = IF options.watch THEN UNION {Inside(d) : d \in WatchedDirectories} ELSE {}
  /\ UNCHANGED <<options, clock, text, flaw, folders, notices, timer, generations, cache, out,
                 endpoint, kept, answered, overlapped, hurdles>>

Bug_Notice(n) ==
  /\ timer' = n.path
  /\ notices' = notices \ {n}
  /\ UNCHANGED <<options, phase, clock, text, flaw, folders, watched, generations, cache, out,
                 endpoint, kept, answered, overlapped, hurdles>>

\* The callback: what is new is watched first; the timer starts afresh and knows only
\* the last path.
Notice(n) ==
  /\ watched' = IF n.event = "rename" /\ (n.path \in Files => text[n.path] # 0)
                     /\ (n.path \in Folders => n.path \in folders)
                THEN watched \cup (Inside(n.path) \ Others) ELSE watched
  /\ timer' = n.path
  /\ notices' = notices \ {n}
  /\ UNCHANGED <<options, phase, clock, text, flaw, folders, generations, cache, out,
                 endpoint, kept, answered, overlapped, hurdles>>

\* 100 ms have passed: write() starts, whether or not another one is under way.
Fire ==
  /\ timer \in Files
  /\ timer' = None
  /\ \E g \in DOMAIN generations :
       /\ generations[g] = Idle
       /\ generations' = [generations EXCEPT ![g] = NewGeneration]
  /\ overlapped' = (overlapped \/ Running # {})
  /\ hurdles' = IF Running = {} THEN {} ELSE hurdles \cup {"overlap"}
  /\ UNCHANGED <<options, phase, files, cache, out, endpoint, kept, answered>>

\* Nothing is generated for other paths.
FireForNothing ==
  /\ timer \in Folders \cup Others
  /\ timer' = None
  /\ hurdles' = hurdles \cup {"other"}
  /\ UNCHANGED <<options, phase, files, generations, cache, out,
                 endpoint, kept, answered, overlapped>>

Environment ==
  \/ \E f \in Files : Change(f)
  \/ \E p \in Folders \cup Others : Move(p)
  \/ EndpointChanges

System ==
  \/ \E g \in DOMAIN generations :
       \/ ReadDir(g) \/ StatFile(g) \/ ReadFile(g)
       \/ StartServer(g) \/ BuildServer(g) \/ WriteServer(g)
       \/ StartClient(g) \/ Introspect(g) \/ UseAnswer(g) \/ FallBack(g)
       \/ BuildClientSchema(g) \/ BuildClient(g) \/ WriteClient(g)
       \/ EndFailed(g)
  \/ EndRun
  \/ \E n \in notices : Notice(n)
  \/ Fire
  \/ FireForNothing

Next == Environment \/ System

Spec == Init /\ [][Next]_vars

--------------------------------------------------------------------------------
(* No generation works with a text that was replaced before it began: the cache  *)
(* of the reader, which all generations share, stat() and readFile() in whatever *)
(* order with the changes, never bring back an old one.                          *)
ReadsAreFresh ==
  \A g \in Running :
    \A f \in DOMAIN generations[g].texts : generations[g].texts[f] >= generations[g].since[f]

AtRest ==
  phase = "watching" /\ notices = {} /\ timer = None /\ Running = {}

\* The client's schema is read from files, unless an endpoint has it.
ClientSources == IF options.introspection = "none" THEN Directories ELSE {"operations"}

\* Do the files build, and is the output made from them?
Reflected ==
  LET schema == Texts({"schema"})
      forClient == Texts(ClientSources)
  IN  /\ options.server /\ Builds(schema) => out.server = schema
      /\ options.client /\ Builds(forClient) /\ (options.server => Builds(schema)) =>
           out.client = forClient

(* At rest, the output is made from the files as they are, if they build: a      *)
(* generation that begins on its own makes up for all that was missed before,    *)
(* and after it changes are missed only if the endpoint had no schema, another   *)
(* generation began before one had ended, or the last event was for a path that  *)
(* is no GraphQL file.                                                           *)
ChangesAreReflected == AtRest /\ hurdles = {} => Reflected

(* With a file, the client is generated from the last answer of the endpoint, in *)
(* this generation or, if it gives none now, in an earlier one.  That is so even *)
(* if the last answer was no schema: then the file has lost the schema it had,   *)
(* and every generation fails until the endpoint answers with one again.  Of two *)
(* generations at the same time, the slower may write the older answer to the    *)
(* file; the next that is on its own and gets an answer makes up for it.         *)
FallbackIsLastAnswer ==
  \A g \in Running :
    options.introspection = "file" /\ ~overlapped /\ answered # 0 =>
      /\ generations[g].stage = "fallback" => kept = answered
      /\ generations[g].stage \in {"operations", "writeClient"} => generations[g].schema = answered

(* What the documentation promises: changes to the schema will be reflected in   *)
(* the generated types, and other files are ignored.                             *)
OtherFilesAreIgnored == AtRest /\ hurdles \subseteq {"other"} => Reflected

==================================================================================
