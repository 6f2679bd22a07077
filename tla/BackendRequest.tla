--------------------------- MODULE BackendRequest ---------------------------
(***************************************************************************)
(* What a request of src/dinemeter/client/BackendRequest.hx makes of the   *)
(* way the HTTP exchange ended, in the native build, where send blocks     *)
(* until responce or error has run and requestCred is never assigned.      *)
(*                                                                         *)
(* Exchanges, as the daemon can meet them:                                 *)
(*   ok          the action was executed and its results came back         *)
(*   fail        no connection, a time out, an HTTP error, or a body that  *)
(*               cannot be unserialized                                    *)
(*   eof         the connection was closed early: the error text is "Eof"  *)
(*   serverError the backend serialized a SERVER_ERROR or INVALID_REQUEST  *)
(*   badCred     it serialized NO_USER, INVALID_CRED or a session error    *)
(*   forbidden   it serialized any other UNAUTHORISED error                *)
(***************************************************************************)
Exchange == {"ok", "fail", "eof", "serverError", "badCred", "forbidden"}

\* Whether the exchange calls onReply at all: responce returns without doing
\* so for an UNAUTHORISED error that is none of those it logs in again for.
Replies(x) == x # "forbidden"

\* The items onReply gets, of those the callbacks tell apart.  error passes
\* the class Eof itself, responce only traces a SERVER_ERROR, and send reports
\* CANT_GET_CRED when it has no way to ask for credentials.
Reply(x) == CASE x \in {"ok", "serverError"} -> {}
              [] x \in {"fail", "badCred"}   -> {"a Fatal"}
              [] x = "eof"                   -> {"the class Eof"}

\* After that report send calls requestCred, which is null: an exception.
Throws(x) == x = "badCred"

\* The test of outputResponce and of sendResponce on the items: Std.is holds
\* of instances, not of the class itself.
Failed(items) == items \cap {"a Fatal", "an Eof"} # {}

\* What the backend may have done with the data when the exchange ends so;
\* "late" is a request still being executed when the daemon gives up on it.
Execution(x) == CASE x = "ok"                       -> {"stored"}
                  [] x \in {"fail", "eof"}          -> {"stored", "late", "not"}
                  [] x = "serverError"              -> {"stored", "not"}
                  [] x \in {"badCred", "forbidden"} -> {"not"}
=============================================================================
