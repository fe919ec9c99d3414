---------------------------- MODULE RequestDispatch ----------------------------
(***************************************************************************)
(* RequestHandler (onvif_services/IOnvifService.cpp) and the check of a    *)
(* caller's rights (utility/AuthHelper.{h,cpp}, HttpDigestHelper.cpp), as  *)
(* operators: who may call a handler, and which answer the exception of a  *)
(* handler becomes.                                                        *)
(***************************************************************************)
EXTENDS Integers

CONSTANTS
  Digest,   \* is auth_scheme_ DIGEST?  No other scheme is checked at all.
  Users     \* the type of each login of "users" in common.config

SECURITY_LEVELS == [PRE_AUTH |-> 0, READ_MEDIA |-> 1, ACTUATE |-> 2, WRITE_SYSTEM |-> 3]
USER_TYPE == [ANON |-> 0, USER |-> 1, OPERATOR |-> 2, ADMIN |-> 3]

\* Assumed by OnvifServer.
UsersAssumption ==
  /\ Digest \in BOOLEAN
  /\ \A login \in DOMAIN Users : Users[login] \in {USER_TYPE.USER, USER_TYPE.OPERATOR, USER_TYPE.ADMIN}

\* The Authorization header names a login, or there is none.
NoHeader == "no header"

\* verifyDigest looks for the login only.
CurrentUser(header) == IF header \in DOMAIN Users THEN Users[header] ELSE USER_TYPE.ANON

\* Mutant: the rights are looked at only when there is a header.
AdmittedWithoutHeader(header, level) == Digest /\ header # NoHeader => CurrentUser(header) >= level
Admitted(header, level) == Digest => CurrentUser(header) >= level

\* The answer: its status, and the last subcode of its fault.  The catch clauses are
\* tried in their order; the last one takes every other std::exception.
\* Mutant: the clause for std::exception comes first.
CaughtFirst(exception) ==
  IF exception = "" THEN [status |-> 200, fault |-> ""] ELSE [status |-> 500, fault |-> ""]
Answer(exception) ==
  LET fault == [well_formed |-> "WellFormed", no_such_profile |-> "NoProfile",
                invalid_token |-> "NoConfig", no_config |-> "NoConfig",
                incomplete_configuration |-> "IncompleteConfiguration",
                no_entity |-> "NoEntity"] IN
  CASE exception = "" -> [status |-> 200, fault |-> ""]
    [] exception = "digest_failed" -> [status |-> 401, fault |-> ""]
    [] exception \in DOMAIN fault -> [status |-> 400, fault |-> fault[exception]]
    [] OTHER -> [status |-> 500, fault |-> ""]

===============================================================================
