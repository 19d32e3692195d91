----------------------------- MODULE MCWorkflow -----------------------------
(* Two chains; a KMS key of the deployer, one nobody    *)
(* here may use, a private key of somebody else and one cut short.  Three   *)
(* versions of the file: one without an endpoint, one that names its own,   *)
(* and one whose key and deployer do not belong together.                   *)
EXTENDS Workflow

CONSTANTS main, test, rpcMain, rpcTest, deployer, other,
          kmsKey, kmsDenied, hexKey, hexShort

UrlVal     == {rpcMain, rpcTest}
SignerVal    == {kmsKey, kmsDenied, hexKey, hexShort}
AtVal      == [u \in UrlVal \cup {Garbage} |->
                 CASE u = rpcMain -> main [] u = rpcTest -> test [] OTHER -> None]
ShapeVal   == [s \in SignerVal |->
                 CASE s = hexKey -> "hex64" [] s = hexShort -> "hex" [] OTHER -> "other"]
SignsAsVal == [s \in SignerVal |->
                 CASE s = kmsKey -> deployer [] s = hexKey -> other [] OTHER -> None]

Good     == [rpc_url |-> None, chain_id |-> main, kms |-> kmsKey,
             deployer |-> deployer, table |-> deployer]
FilesVal == <<Good, [Good EXCEPT !.rpc_url = rpcMain], [Good EXCEPT !.deployer = other, !.table = other]>>
=============================================================================
