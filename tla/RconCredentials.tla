----------------------------- MODULE RconCredentials -----------------------------
(***************************************************************************)
(* The RCON credentials: an encrypted row, and the copy in memory that     *)
(* commands are sent with.  An update writes the row and then, under a     *)
(* lock that does not cover the row, the copy (integration.go).            *)
(***************************************************************************)
EXTENDS Integers

CONSTANTS
  Credentials,  \* valid credentials
  Environment,  \* those of the environment, used as long as there is no row
  Updates       \* updates under way at once

NoRow == "no row"

ASSUME CredentialConstants == NoRow \notin Credentials \union {Environment}

VARIABLES
  secret,       \* the row
  credentials,  \* the copy
  source,       \* where Status says the copy is from
  update,       \* of each update, what it has done and its credentials
  crossed       \* an update wrote the row between another's two writes

rconVars == <<secret, credentials, source, update, crossed>>

Waiting == [state |-> "none", value |-> NoRow]

RconInit ==
  /\ secret = NoRow
  /\ credentials = Environment /\ source = "environment"
  /\ update = [u \in Updates |-> Waiting]
  /\ crossed = FALSE

(* NewIntegration: what a process begins with. *)
Stored == IF secret = NoRow THEN Environment ELSE secret

Restart ==
  /\ credentials' = Stored
  /\ source' = IF secret = NoRow THEN "environment" ELSE "encrypted database"
  /\ update' = [u \in Updates |-> Waiting]
  /\ crossed' = FALSE
  /\ UNCHANGED secret

(* Update: the credentials are valid and are encrypted, ... *)
BeginUpdate(u, value) ==
  /\ update[u] = Waiting
  /\ update' = [update EXCEPT ![u] = [state |-> "encrypted", value |-> value]]
  /\ UNCHANGED <<secret, credentials, source, crossed>>

SetServerSecretLast(u) ==  \* variant: the copy is replaced whether the row is written or not
  /\ update[u].state = "encrypted"
  /\ credentials' = update[u].value /\ source' = "encrypted database"
  /\ update' = [update EXCEPT ![u] = Waiting]
  /\ secret' \in {secret, update[u].value}
  /\ UNCHANGED crossed

(* ... the row is written, or writing it fails, ... *)
SetServerSecret(u) ==
  /\ update[u].state = "encrypted"
  /\ \/ /\ secret' = update[u].value
        /\ update' = [update EXCEPT ![u].state = "written"]
        /\ crossed' = \E w \in Updates \ {u} : update[w].state = "written"
     \/ update' = [update EXCEPT ![u] = Waiting] /\ UNCHANGED <<secret, crossed>>
  /\ UNCHANGED <<credentials, source>>

(* ... and the copy is replaced. *)
ReplaceCopy(u) ==
  /\ update[u].state = "written"
  /\ credentials' = update[u].value /\ source' = "encrypted database"
  /\ update' = [update EXCEPT ![u] = Waiting]
  /\ UNCHANGED <<secret, crossed>>

RconNext ==
  \/ \E u \in Updates :
       \/ \E value \in Credentials : BeginUpdate(u, value)
       \/ SetServerSecret(u) \/ ReplaceCopy(u)
  \/ Restart

RconSpec == RconInit /\ [][RconNext]_rconVars

-----------------------------------------------------------------------------
(* Properties *)

RconTypeOK ==
  /\ secret \in Credentials \union {NoRow}
  /\ credentials \in Credentials \union {Environment}
  /\ source = "environment" => credentials = Environment
  /\ \A u \in Updates :
       \/ update[u] = Waiting
       \/ update[u].state \in {"encrypted", "written"} /\ update[u].value \in Credentials
  /\ crossed \in BOOLEAN

(* While no update is between its two writes, commands are sent with what a restart
   would load, so that a restart changes nothing, also after updates that failed
   or were cut short; excepted are updates whose two writes crossed, the last of
   which may differ in the row and in the copy (integration.go:96-102). *)
CredentialsAgree ==
  (\A u \in Updates : update[u].state # "written") /\ ~crossed => credentials = Stored

=============================================================================
