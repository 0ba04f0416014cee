---------------------------- MODULE TaskArtifacts ----------------------------
(***************************************************************************)
(* The business tasks of the legacy worker (internal/tasks): Execute       *)
(* resolves the business key, computes, and publishes one artifact per     *)
(* key.  A job may be executed by several attempts at once, and several    *)
(* jobs may carry one key.  The fingerprint of an input covers the corpus, *)
(* the schema and the model of the build that computes it.                 *)
(*                                                                         *)
(* An execution is [pc, key, build]; it ends with the reference to the     *)
(* artifact of its key, a permanent error or a retryable one.              *)
(***************************************************************************)
EXTENDS Naturals

CONSTANTS BusinessKeys

VARIABLE artifacts    \* key -> fingerprint of the published artifact, or "none"

ArtifactsInit == artifacts = [k \in BusinessKeys |-> "none"]

Execution(key, build) == [pc |-> "lookup", key |-> key, build |-> build]

Absent(x) == artifacts[x.key] = "none"

(* Mutant: any artifact of the key will do. *)
ReuseAny(x) == x.key

(* The stored artifact answers for an execution that computes the same. *)
Reuse(x) == IF artifacts[x.key] = x.build THEN x.key ELSE "permanent"

(* request: a refusal or an undecodable answer of the model is final, an
   unavailable or overloaded one can be tried again. *)
ModelErrors == {"permanent", "retryable"}

(* buildIndex: the corpus is unusable, or what is found in the index built from
   the model's vectors is not what is expected. *)
CorpusErrors == {"permanent"}
IndexErrors  == CorpusErrors \cup ModelErrors \cup {"permanent"}

(* extractOrder: two answers of the model do not fit the document. *)
ExtractErrors == ModelErrors \cup {"permanent"}

(* How an execution may end before it publishes: as above, by an input that is
   refused, by a failed lookup or with its context. *)
ExecuteErrors == IndexErrors \cup ExtractErrors \cup {"permanent", "retryable"}

(* Publish: insert ... on conflict do nothing, and the loser reads the winner's
   row; the answer may be lost. *)
Publish(x) == artifacts' = IF Absent(x) THEN [artifacts EXCEPT ![x.key] = x.build] ELSE artifacts

PublishResults(x) == {IF Absent(x) THEN x.key ELSE Reuse(x), "retryable"}
=============================================================================
