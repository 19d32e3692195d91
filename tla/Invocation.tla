----------------------------- MODULE Invocation -----------------------------
(***************************************************************************)
(* What one call of libid-deploy makes of its arguments and its file,      *)
(* before it reads or sends anything: is the file valid, which endpoint,   *)
(* which key.  Operators only; Workflow runs them.                         *)
(***************************************************************************)
EXTENDS Naturals

CONSTANTS
  Chain,    \* the chains an endpoint may lead to
  Url,      \* the endpoints that parse
  Garbage,  \* a given value that does not: another scheme, an empty flag
  Account,
  Signer,   \* signer specifications
  None,     \* not given, not named, no answer
  At,       \* At[u]: the chain that answers at u, None if none does
  Shape,    \* Shape[s]: what a specification looks like
  SignsAs   \* SignsAs[s]: the account it signs as, None without access to the key

ASSUME InvocationConstants ==
  /\ None \notin Chain \cup Url \cup Account \cup Signer \cup {Garbage}
  /\ Garbage \notin Url
  /\ At \in [Url \cup {Garbage} -> Chain \cup {None}]
  /\ At[Garbage] = None
  /\ Shape \in [Signer -> {"blank", "hex64", "hex", "other"}]
  /\ SignsAs \in [Signer -> Account \cup {None}]

\* A file: the endpoint it names, its chain id, its KMS key, its deployer,
\* and the account its address table was predicted from.
File == [rpc_url : Url \cup {Garbage, None}, chain_id : Chain, kms : Signer,
         deployer : Account, table : Account]

Error == "error"

Parses(u) == u \in Url

\* Every declared address is the one predicted from the deployer.
Predicted(f) == f.table = f.deployer

\* NetworkConfig::validate: everything that can fail offline.
Valid(f) ==
  /\ f.rpc_url # None => Parses(f.rpc_url)
  /\ Shape[f.kms] # "blank"
  /\ Predicted(f)

\* Fault: a flag that does not parse falls back to the file.
NamedOr(f, flag) ==
  IF flag # None /\ Parses(flag) THEN flag
  ELSE IF f.rpc_url # None /\ ~Parses(f.rpc_url) THEN Error ELSE f.rpc_url

\* RpcEndpoint::named: the flag, else the file's; both have to parse.
Named(f, flag) ==
  CASE flag # None /\ ~Parses(flag)           -> Error
    [] f.rpc_url # None /\ ~Parses(f.rpc_url) -> Error
    [] OTHER -> IF flag # None THEN flag ELSE f.rpc_url

\* RpcEndpoint::resolve: a command that contacts the chain needs one.
Resolve(f, flag) == IF Named(f, flag) = None THEN Error ELSE Named(f, flag)

\* The chain that answers a command, None for no endpoint or no answer.
Reached(f, flag) ==
  IF Resolve(f, flag) = Error THEN None ELSE At[Resolve(f, flag)]

\* --signer, or the file's KMS key.
SpecOf(f, signer) == IF signer # None THEN signer ELSE f.kms

\* SignerSource::from_spec.
IsSigner(s) == Shape[s] \in {"hex64", "other"}

\* What `validate` and `plan` accept.
Validates(f, flag) == Valid(f) /\ Named(f, flag) # Error
Plans(f, flag)     == Valid(f) /\ Reached(f, flag) # None

\* What `apply` accepts before it asks for confirmation.
Asks(f, flag, signer) ==
  /\ Valid(f)
  /\ Resolve(f, flag) # Error
  /\ IsSigner(SpecOf(f, signer))

\* SignerSource::build_wallet: the account, None without access to the key.
Wallet(s) == IF IsSigner(s) THEN SignsAs[s] ELSE None

\* Applier::connect and the first check of run: the wallet, the chain id,
\* the deployer.
Connects(f, flag, signer) ==
  /\ Wallet(SpecOf(f, signer)) # None
  /\ Reached(f, flag) = f.chain_id
  /\ Wallet(SpecOf(f, signer)) = f.deployer
=============================================================================
