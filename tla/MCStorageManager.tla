--------------------------- MODULE MCStorageManager ---------------------------
(* Instances of the storage manager for TLC.                               *)
EXTENDS StorageManager

CONSTANTS A, B, C, proof, basket, tx, output, req

ThreeStores == {A, B, C}
AandB == <<A, B>>
JustC == {C}

FourRows == {proof, basket, tx, output}

MCTable ==
  [r \in Rows |-> CASE r = proof -> "provenTx" [] r = basket -> "outputBasket"
                    [] r = tx -> "transaction" [] r = output -> "output"
                    [] r = req -> "provenTxReq"]
MCNeeds == [r \in Rows |-> IF r = output THEN {tx} ELSE {}]
MCLinks ==
  [r \in Rows |-> Rows \cap CASE r = tx -> {proof} [] r = output -> {basket}
                              [] r = req -> {tx, proof} [] OTHER -> {}]
=============================================================================
