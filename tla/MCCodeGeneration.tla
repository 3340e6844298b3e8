----------------------------- MODULE MCCodeGeneration -----------------------------
(***************************************************************************)
(* A file in each directory, and one that may be written in a folder in a  *)
(* folder, which both come and go.                                         *)
(***************************************************************************)
EXTENDS CodeGeneration, TLC

MCFiles == {"schema.gql", "deep.gql", "operations.gql"}
MCFolders == {"types", "deep"}
MCOthers == {"notes.txt"}

MCIn ==
  "schema.gql" :> "schema" @@ "types" :> "schema" @@ "deep" :> "types"
    @@ "deep.gql" :> "deep" @@ "notes.txt" :> "schema" @@ "operations.gql" :> "operations"

MCInitialFiles == {"schema.gql", "operations.gql"}

MCOptions ==
  {[server |-> TRUE, client |-> TRUE, watch |-> TRUE, introspection |-> "none"],
   [server |-> FALSE, client |-> TRUE, watch |-> TRUE, introspection |-> "file"],
   [server |-> FALSE, client |-> TRUE, watch |-> FALSE, introspection |-> "url"]}

==================================================================================
