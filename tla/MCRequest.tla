------------------------------ MODULE MCRequest ------------------------------
(***************************************************************************)
(* Threads and responses for the runs of Request.                          *)
(***************************************************************************)
EXTENDS Request

CONSTANTS t1, t2

OneThread  == {t1}
TwoThreads == {t1, t2}

Reply(status, form) ==
  [status |-> status,
   body |-> [form |-> form,
             fields |-> IF form = "object" THEN [NoFields EXCEPT !.code = "string"]
                        ELSE NoFields]]

\* One response of each kind, for two threads.
FewReplies == {Reply(200, "object"), Reply(404, "text")}

\* Every class of status with every body, for one thread.
AllReplies ==
  [status : {200, 204, 302, 400, 401, 403, 404, 409, 422, 429, 500, 503, 505},
   body : Bodies]

BothClients == {"formation", "server"}
AllClients  == {"formation", "server", "transport"}
=============================================================================
