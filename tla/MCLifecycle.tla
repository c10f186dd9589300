---------------------------- MODULE MCLifecycle ----------------------------
(***************************************************************************)
(* Instances of Lifecycle.tla for TLC.                                     *)
(***************************************************************************)
EXTENDS Lifecycle

Given == [file |-> "unset", value |-> "given"]

Vault(application, exporter, credentials) ==
    [client |-> TRUE, application |-> application, exporter |-> exporter,
     credentials |-> credentials]

Error == [state |-> "error", keys |-> {}]
Nothing == [state |-> "nothing", keys |-> {}]
Data(keys) == [state |-> "data", keys |-> keys]

\* Vault is out of reach, has no path, fails at every path, has one key at one
\* path and the other at another, or lacks one.
Vaults ==
    {[Vault(Error, Error, Error) EXCEPT !.client = FALSE],
     Vault(Nothing, Nothing, Nothing),
     Vault(Error, Error, Error),
     Vault(Data({"user"}), Nothing, Data({"pass"})),
     Vault(Data({"user", "pass"}), Error, Nothing),
     Vault(Error, Data({"user"}), Error)}

\* Every combination of the user's file and value with all of the URI's.
Varied ==
    {[name |-> n, user |-> u, pass |-> p, uri |-> r, vault |-> v] :
        n \in BOOLEAN, u \in Variable, p \in {Given, [Given EXCEPT !.value = "blank"]},
        r \in Variable, v \in Vaults}

\* Just DATA_SOURCE_NAME.
Named ==
    {[name |-> TRUE, user |-> Given, pass |-> Given, uri |-> Given,
      vault |-> Vault(Error, Error, Error)]}
=============================================================================
