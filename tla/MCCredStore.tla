---------------------------- MODULE MCCredStore ----------------------------
(* Small instances of CredStore for TLC: two handlers and, for each         *)
(* question, the requests that bear on it.                                  *)
EXTENDS CredStore, TLC

(* Administrators who create, delete and rewrite items while others lock    *)
(* and unlock the vault.                                                    *)
AdminRequests ==
    [rpc : {"unlock"}, pass : Passphrases]
    \cup [rpc : {"lock"}]
    \cup [rpc : {"recipient"}, pass : Passphrases, recipient : Recipients]
    \cup [rpc : {"create"}, pass : Passphrases, val : Values]
    \cup [rpc : {"delete"}, pass : Passphrases, ids : {Ids}]

(* Every RPC.                                                               *)
MixedRequests ==
    AdminRequests
    \cup [rpc : {"client"}, pass : Passphrases, val : Values]
    \cup [rpc : {"list"}, pass : Passphrases]
    \cup [rpc : {"info"}]
    \cup [rpc : {"read"}, cred : Ids \cup {Nil}, id : Ids \cup {Nil}]
    \cup [rpc : {"recipient"}, pass : Passphrases, recipient : {Nil}]
    \cup [rpc : {"delete"}, pass : Passphrases, ids : {Ids \cup {Nil}}]

(* An item gets its value once, so creations with other values would be the *)
(* same again.                                                              *)
SomeValue == CHOOSE v \in Values : TRUE

(* Every RPC but LockVault.  Listings, and reads of an id that parses, are  *)
(* left to the export, which makes them all the time.                       *)
UnlockedRequests ==
    [rpc : {"unlock"}, pass : Passphrases]
    \cup [rpc : {"info"}]
    \cup [rpc : {"recipient"}, pass : Passphrases, recipient : Recipients \cup {Nil}]
    \cup [rpc : {"create"}, pass : Passphrases, val : {SomeValue, Nil}]
    \cup [rpc : {"client"}, pass : Passphrases, val : {SomeValue}]
    \cup [rpc : {"delete"}, pass : Passphrases, ids : {Ids, Ids \cup {Nil}}]
    \cup [rpc : {"read"}, cred : Ids \cup {Nil}, id : {Nil}]
=============================================================================
