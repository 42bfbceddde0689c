---------------------------- MODULE PortalErrors ----------------------------
(***************************************************************************)
(* From a failure in the Fabric network to the sentence the user reads:    *)
(* the backend's exception filter and the portal's humanizeBackendError.   *)
(*                                                                         *)
(* A chaincode message stands for all with its wording; what both sides    *)
(* know of it is that wording, matched in a fixed order.  The wordings the *)
(* filter lumps together are one set here, and an error is                 *)
(*   by       the class of the exception: "endorse", "commit", "gateway",  *)
(*   message  what it says,                                                *)
(*   code     the gRPC code.                                               *)
(***************************************************************************)
EXTENDS Integers

NotFound == {"certificate does not exist", "institution does not exist", "proposal does not exist"}

Forbidden ==
  {"is not the issuer of certificate", "is not an active institution",
   "is not a registered institution", "is not a founding institution",
   "is the applicant and cannot vote on its own proposal"}

AlreadyDone ==
  {"certificate is already revoked", "is already registered", "is already a member institution",
   "has already voted on proposal", "open or already-approved membership proposal exists",
   "proposal is not open"}

BadRequest == {"revocation reason must not be empty", "decision must be"}

\* Every message of an error the portal is told.
Message ==
  NotFound \cup Forbidden \cup AlreadyDone \cup BadRequest
    \cup {"failed to commit with status code", "transport failure", "read-only credential",
          "Unable to reach the system"}

GrpcCode == {"ABORTED", "UNAVAILABLE", "DEADLINE_EXCEEDED", "UNKNOWN"}

\* The chaincode's error comes with the details of the peer.
Refused(reason) == [by |-> "endorse", message |-> reason, code |-> "ABORTED"]

NotValid == [by |-> "commit", message |-> "failed to commit with status code", code |-> "UNKNOWN"]

Transport(code) == [by |-> "gateway", message |-> "transport failure", code |-> code]

\* Mutant: a commit status that does not come in time is taken for a conflict.
MapToHttpStatus_Deadline(e) ==
  IF e.by = "commit" \/ e.code = "DEADLINE_EXCEEDED" THEN 409
  ELSE IF e.message \in NotFound THEN 404
  ELSE IF e.message \in Forbidden THEN 403
  ELSE IF e.message \in AlreadyDone THEN 409
  ELSE IF e.code = "UNAVAILABLE" THEN 503 ELSE 422

MapToHttpStatus(e) ==
  IF e.by = "commit" THEN 409 ELSE
  CASE e.message \in NotFound -> 404
    [] e.message \in Forbidden -> 403
    [] e.message \in AlreadyDone -> 409
    [] e.message \in BadRequest -> 400
    [] e.code = "UNAVAILABLE" -> 503
    [] e.code = "DEADLINE_EXCEEDED" -> 504
    [] OTHER -> 422

Catch(e) == [status |-> MapToHttpStatus(e), message |-> e.message]

\* ApiKeyGuard's ForbiddenException, and backendFetch's own error for an answer that
\* never comes; neither passes the filter.
ReadOnlyError == [status |-> 403, message |-> "read-only credential"]
UnreachableError == [status |-> 503, message |-> "Unable to reach the system"]

Generic == "Something went wrong. Please try again."

HumanizeBackendError(message) ==
  CASE message = "certificate does not exist" -> "We couldn't find a certificate with that ID."
    [] message = "is not the issuer of certificate" ->
         "This certificate wasn't issued by your institution."
    [] message = "certificate is already revoked" -> "This certificate has already been revoked."
    [] message = "revocation reason must not be empty" ->
         "Please provide a reason for the revocation."
    [] message = "institution does not exist" -> "We couldn't find that institution."
    [] message \in {"is not an active institution", "is not a registered institution"} ->
         "That institution isn't an active member of the consortium."
    [] message = "proposal does not exist" -> "We couldn't find a proposal with that ID."
    [] message = "is already a member institution" -> "That institution is already a member."
    [] message = "open or already-approved membership proposal exists" ->
         "There's already an open or approved proposal for that institution."
    [] message = "is the applicant and cannot vote on its own proposal" ->
         "You can't vote on your own membership proposal."
    [] message = "has already voted on proposal" -> "You've already voted on this proposal."
    [] message = "proposal is not open" -> "This proposal is no longer open for voting."
    [] message = "read-only credential" -> "This is a read-only account."
    [] OTHER -> Generic

=============================================================================
