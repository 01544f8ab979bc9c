------------------------------ MODULE ErrorMap ------------------------------
(***************************************************************************)
(* The errors of the port (errors.h, ll_port_error), the tables a failure  *)
(* goes through on its way from an HTTP status to the application, and the *)
(* errors that cost the machine its cached token.                          *)
(***************************************************************************)
EXTENDS Integers

\* The errors a call to the server can end with.
Errors == {"NETWORK", "SERVER", "LICENSE_NOT_FOUND", "LICENSE_INACTIVE_OR_EXPIRED",
           "INVALID_LICENSE", "INVALID_PROJECT_KEY", "SEAT_LIMIT_REACHED",
           "DEACTIVATION_BLOCKED"}

\* status_error (client.c)
StatusError(code) ==
    CASE code = 404                -> "LICENSE_NOT_FOUND"
      [] code = 403                -> "LICENSE_INACTIVE_OR_EXPIRED"
      [] code = 409                -> "SEAT_LIMIT_REACHED"
      [] code = 401                -> "INVALID_PROJECT_KEY"
      [] code \in {429} \cup 500 .. 599 -> "SERVER"
      [] OTHER                     -> "INVALID_LICENSE"

\* Mutant of MapNetworkError: the server's error is returned as it is.
RawNetworkError(e) == e

\* map_network_error (errors.c)
MapNetworkError(e) ==
    CASE e = "LICENSE_INACTIVE_OR_EXPIRED" -> "LICENSE_EXPIRED"
      [] e = "INVALID_PROJECT_KEY"         -> "INVALID_PROJECT_KEY"
      [] e = "LICENSE_NOT_FOUND"           -> "LICENSE_NOT_FOUND"
      [] e = "SEAT_LIMIT_REACHED"          -> "SEAT_LIMIT"
      [] e = "NETWORK"                     -> "NETWORK"
      [] e = "DEACTIVATION_BLOCKED"        -> "DEACTIVATION_BLOCKED"
      [] OTHER                             -> "INTERNAL"

\* Mutant of WipingErrors: a renewal that failed for any reason empties the cache.
AnyErrorWipes == Errors

\* Errors of a renewal that empty the cache: renew_thread_fn, lines 220-222.
WipingErrors == {"LICENSE_INACTIVE_OR_EXPIRED", "LICENSE_NOT_FOUND", "INVALID_LICENSE"}
=============================================================================
