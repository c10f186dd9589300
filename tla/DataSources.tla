---------------------------- MODULE DataSources ----------------------------
(***************************************************************************)
(* cmd/postgres_exporter/datasource.go, getDataSources and loadSecrets:    *)
(* what main makes of its environment and of Vault before it does anything *)
(* else.                                                                   *)
(*                                                                         *)
(* An environment is a record:                                             *)
(*   name             whether DATA_SOURCE_NAME is set                      *)
(*   user, pass, uri  the two variables of each: a file ("unset", or its   *)
(*                    contents: "missing", "blank", "given") and the value *)
(*                    itself ("blank", "given")                            *)
(*   vault            whether a client can be made, and what reading each  *)
(*                    of its three paths returns: an "error", "nothing",   *)
(*                    or "data" with some of the two keys                  *)
(***************************************************************************)
EXTENDS Naturals

Variable == [file : {"unset", "missing", "blank", "given"}, value : {"blank", "given"}]

Path == [state : {"error", "nothing", "data"}, keys : SUBSET {"user", "pass"}]

Environments ==
    [name : BOOLEAN, user : Variable, pass : Variable, uri : Variable,
     vault : [client : BOOLEAN, application : Path, exporter : Path, credentials : Path]]

\* The file wins over the value; a blank file is not made up for by the value.
Contents(v) == IF v.file # "unset" THEN v.file ELSE v.value

\* loadSecrets dereferences the secret of the first and of the third path.
SecretsPanic(v) ==
    \/ ~v.client
    \/ v.application.state = "nothing"
    \/ v.credentials.state = "nothing"

Secrets(v) ==
    UNION {p.keys : p \in {q \in {v.application, v.exporter, v.credentials} : q.state = "data"}}

\* What Vault has to make up for, and panics if it does not.
Needed(e) ==
    {k \in {"user", "pass"} : Contents(e[k]) = "blank"}

VaultPanics(e) ==
    /\ Needed(e) # {}
    /\ SecretsPanic(e.vault) \/ ~(Needed(e) \subseteq Secrets(e.vault))

\* Mutant of GetDataSources: the secrets are loaded whether needed or not.
GetDataSourcesEager(e) ==
    CASE e.name -> "name"
      [] ~e.name /\ "missing" \in {Contents(e.user), Contents(e.pass)} -> "error"
      [] OTHER ->
           CASE SecretsPanic(e.vault) \/ VaultPanics(e) -> "panic"
             [] OTHER -> CASE Contents(e.uri) = "missing" -> "error"
                           [] Contents(e.uri) = "blank"   -> "none"
                           [] OTHER                       -> "uri"

\* Where the data sources come from, or how there are none: DATA_SOURCE_NAME,
\* then user and password, then Vault, and only then the URI.
GetDataSources(e) ==
    IF e.name THEN "name"
    ELSE IF "missing" \in {Contents(e.user), Contents(e.pass)} THEN "error"
    ELSE IF VaultPanics(e) THEN "panic"
    ELSE CASE Contents(e.uri) = "missing" -> "error"
           [] Contents(e.uri) = "blank"   -> "none"
           [] OTHER                       -> "uri"
=============================================================================
