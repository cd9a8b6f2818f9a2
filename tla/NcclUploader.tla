---------------------------- MODULE NcclUploader ----------------------------
(***************************************************************************)
(* NcclUploader: one blocking attempt to send a message, with the state    *)
(* that decides when the next attempt is allowed and when to give up.  Time*)
(* is reduced to whether next_execute_time_ is past, ahead or infinite; the*)
(* client behind it is the ACS agent, which may refuse a creation, fail a  *)
(* send or die at any moment.  Its minimal wait is finite.                 *)
(***************************************************************************)
EXTENDS Naturals

CONSTANTS
  MaxSendAttempts,    \* send_messages_backoff_.max_attempts, or Unlimited
  MaxCreateAttempts,  \* create_client_backoff_.max_attempts, or Unlimited
  Unlimited           \* stands for INT64_MAX, a count that is never reached

ASSUME AttemptsAssumption ==
  {MaxSendAttempts, MaxCreateAttempts} \subseteq (Nat \ {0}) \cup {Unlimited}

\* client_, attempts_send_message_, attempts_create_client_,
\* next_execute_time_, is_dead_
UploaderInit ==
  [client |-> "none", sendAttempts |-> 0, createAttempts |-> 0,
   due |-> "past", dead |-> FALSE]

\* counting towards a limit that cannot be reached is left out
Count(n, limit) == IF limit = Unlimited THEN n ELSE n + 1
Exhausted(n, limit) == limit # Unlimited /\ n >= limit

\* mutant: giving up does not mark the uploader dead
GiveUpRetryAlive(u) ==
  [u EXCEPT !.due = "never", !.client = "none"]

GiveUpRetry(u) ==
  [u EXCEPT !.due = "never", !.client = "none", !.dead = TRUE]

Result(u, ok, sent) == [up |-> u, ok |-> ok, sent |-> sent]

SendSucceeds(u) ==
  Result([u EXCEPT !.sendAttempts = 0, !.due = "future"], TRUE, TRUE)

\* "client" is what is left of the client: a dead one is released
SendFails(u, client) ==
  LET n == Count(u.sendAttempts, MaxSendAttempts)
      v == [u EXCEPT !.client = client, !.sendAttempts = n]
  IN  Result(IF Exhausted(n, MaxSendAttempts) THEN GiveUpRetry(v)
             ELSE [v EXCEPT !.due = "future"],
             FALSE, TRUE)

UploadMessage(u) ==
  {SendSucceeds(u)} \cup {SendFails(u, client) : client \in {"live", "none"}}

CreateFails(u) ==
  LET n == Count(u.createAttempts, MaxCreateAttempts)
      v == [u EXCEPT !.createAttempts = n]
  IN  Result(IF Exhausted(n, MaxCreateAttempts) THEN GiveUpRetry(v)
             ELSE [v EXCEPT !.due = "future"],
             FALSE, FALSE)

CreateClientAndUploadMessage(u) ==
  {CreateFails(u)}
    \cup UploadMessage([u EXCEPT !.client = "live", !.createAttempts = 0])

(***************************************************************************)
(* The possible results of Upload: the uploader afterwards, the status, and*)
(* whether the message was handed to the client.                           *)
(***************************************************************************)
Upload(u, ignoreNextExecuteTime) ==
  IF u.dead \/ (~ignoreNextExecuteTime /\ u.due # "past")
  THEN {Result(u, FALSE, FALSE)}
  ELSE IF u.client = "live" THEN UploadMessage(u)
  ELSE CreateClientAndUploadMessage(u)

\* what happens to the uploader on its own: time passes, the client dies
TimePasses(u) == IF u.due = "future" THEN [u EXCEPT !.due = "past"] ELSE u
ClientDies(u) == IF u.client = "live" THEN [u EXCEPT !.client = "dead"] ELSE u

Uploader ==
  [client : {"none", "live", "dead"}, sendAttempts : Nat, createAttempts : Nat,
   due : {"past", "future", "never"}, dead : BOOLEAN]
=============================================================================
