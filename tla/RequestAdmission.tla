-------------------------- MODULE RequestAdmission --------------------------
(***************************************************************************)
(* How a request gets into the API and out of it again: the two boundaries *)
(* (request_boundary.py, upload_boundary.py) around authentication and the *)
(* handlers of api.py.  Each boundary has a few slots; a request holds one *)
(* from before its body is read until its response is sent.  A connection  *)
(* carries one request at a time.  Coroutines interleave at every await;   *)
(* between two awaits one runs alone, so looking at locked() and taking a  *)
(* slot are one step, as nobody ever waits for a slot.                     *)
(***************************************************************************)
EXTENDS Naturals, FiniteSets

CONSTANTS
    Connections,
    Capacity,     \* slots of each boundary
    Limit,        \* largest body, in units of data
    MaxStrays     \* bound: temporary files whose write may fail

ASSUME ConnectionsAssumption == IsFiniteSet(Connections)
ASSUME CapacityAssumption == Capacity \in Nat \ {0}
ASSUME LimitsAssumption == Limit \in Nat /\ MaxStrays \in Nat

\* POST documents/analyze; any other POST, PUT, PATCH or DELETE; the rest.  All
\* are of routes that ask for an API key.
Bounded == {"upload", "command"}
Kinds == Bounded \cup {"query"}

Chunks == 0..Limit + 1

\* a usable limit and an honest enough Content-Length, or not
Envelopes == {"admissible", "refused"}

VARIABLES
    free,       \* free slots per boundary
    request,    \* the request each connection carries
    worker,     \* the child process that works for it
    file,       \* its temporary file exists
    strays      \* temporary files that nobody will remove

vars == <<free, request, worker, file, strays>>

Steps == {"idle", "authenticating", "rejected", "reading", "handling", "working",
          "inspecting", "analysing", "replying"}

\* memo: UPLOAD_PRINCIPAL is in the scope; charges: calls of the rate limiter
\* that were admitted
Idle == [kind |-> "query", envelope |-> "admissible", step |-> "idle",
         bytes |-> 0, memo |-> FALSE, charges |-> 0]

Requests == [kind : Kinds, envelope : Envelopes, step : Steps, bytes : 0..Limit,
             memo : BOOLEAN, charges : 0..2]

TypeOK ==
    /\ free \in [Bounded -> 0..Capacity]
    /\ request \in [Connections -> Requests]
    /\ worker \in [Connections -> {"none", "inspect", "analyse"}]
    /\ file \in [Connections -> BOOLEAN]
    /\ strays \in 0..MaxStrays

Init ==
    /\ free = [k \in Bounded |-> Capacity]
    /\ request = [c \in Connections |-> Idle]
    /\ worker = [c \in Connections |-> "none"]
    /\ file = [c \in Connections |-> FALSE]
    /\ strays = 0

-----------------------------------------------------------------------------
(* Slots. *)

At(c, s) == request[c].step = s

\* c is between `slots.acquire()` and the end of the `finally` that releases
Inside(c) ==
    /\ request[c].kind \in Bounded
    /\ request[c].step \notin {"idle", "authenticating", "rejected"}

Holders(k) == {c \in Connections : Inside(c) /\ request[c].kind = k}

Locked(k) == free[k] = 0

Goto(c, s) == request' = [request EXCEPT ![c].step = s]

\* The boundary's `finally`, when there is one to run, and the end of the request.
End(c) ==
    /\ request' = [request EXCEPT ![c] = Idle]
    /\ free' = IF Inside(c) THEN [free EXCEPT ![request[c].kind] = @ + 1] ELSE free

-----------------------------------------------------------------------------
(* The boundaries. *)

\* RequestBodyBoundary lets a query through untouched.
QueryArrives(c) ==
    /\ At(c, "idle")
    /\ request' = [request EXCEPT ![c].kind = "query", ![c].step = "handling"]
    /\ UNCHANGED <<free, worker, file, strays>>

\* ... turns a command away for its envelope, or for want of a slot ...
CommandRejected(c) ==
    /\ At(c, "idle")
    /\ \E e \in Envelopes :
          /\ e = "refused" \/ Locked("command")
          /\ request' = [request EXCEPT ![c].kind = "command", ![c].envelope = e,
                                        ![c].step = "rejected"]
    /\ UNCHANGED <<free, worker, file, strays>>

\* ... or gives it a slot and starts to read.
CommandAdmitted(c) ==
    /\ At(c, "idle")
    /\ ~Locked("command")
    /\ free' = [free EXCEPT !["command"] = @ - 1]
    /\ request' = [request EXCEPT ![c].kind = "command", ![c].step = "reading"]
    /\ UNCHANGED <<worker, file, strays>>

\* UploadBoundary authenticates first, on a thread of the pool.
UploadArrives(c, e) ==
    /\ At(c, "idle")
    /\ request' = [request EXCEPT ![c].kind = "upload", ![c].envelope = e,
                                  ![c].step = "authenticating"]
    /\ UNCHANGED <<free, worker, file, strays>>

\* 401, 429 or 503: no valid key, over the limit, or a limiter that cannot say.
Unauthenticated(c) ==
    /\ At(c, "authenticating")
    /\ Goto(c, "rejected")
    /\ UNCHANGED <<free, worker, file, strays>>

\* The caller has paid when there turns out to be no slot.
UploadTurnedAway(c) ==
    /\ At(c, "authenticating")
    /\ Locked("upload")
    /\ request' = [request EXCEPT ![c].step = "rejected", ![c].charges = @ + 1]
    /\ UNCHANGED <<free, worker, file, strays>>

\* The envelope of an upload is looked at inside the slot.
UploadAdmitted(c) ==
    /\ At(c, "authenticating")
    /\ ~Locked("upload")
    /\ free' = [free EXCEPT !["upload"] = @ - 1]
    /\ request' = [request EXCEPT
                      ![c].charges = @ + 1,
                      ![c].step = IF request[c].envelope = "refused" THEN "replying"
                                  ELSE "reading"]
    /\ UNCHANGED <<worker, file, strays>>

\* A chunk, counted before it is kept.
Receive(c) ==
    /\ At(c, "reading")
    /\ \E n \in Chunks :
          request' = IF request[c].bytes + n > Limit
                     THEN [request EXCEPT ![c].step = "replying"]
                     ELSE [request EXCEPT ![c].bytes = @ + n]
    /\ UNCHANGED <<free, worker, file, strays>>

\* The last chunk; an upload's principal is left for the handler's dependency.
ReceiveLast(c) ==
    /\ At(c, "reading")
    /\ \E n \in Chunks :
          /\ request[c].bytes + n <= Limit
          /\ request' = [request EXCEPT ![c].bytes = @ + n, ![c].step = "handling",
                                        ![c].memo = (request[c].kind = "upload")]
    /\ UNCHANGED <<free, worker, file, strays>>

\* Mutant: the return is outside the try whose finally releases the slot.
Disconnect_Leaks(c) ==
    /\ At(c, "reading")
    /\ request' = [request EXCEPT ![c] = Idle]
    /\ UNCHANGED <<free, worker, file, strays>>

\* http.disconnect while the body is read: a silent return.
Disconnect(c) ==
    /\ At(c, "reading")
    /\ End(c)
    /\ UNCHANGED <<worker, file, strays>>

\* Mutant: the clock guards the first chunk only.
ReadTimesOut_Idle(c) ==
    /\ At(c, "reading")
    /\ request[c].bytes = 0
    /\ Goto(c, "replying")
    /\ UNCHANGED <<free, worker, file, strays>>

\* asyncio.timeout is over the whole loop, not over a chunk.
ReadTimesOut(c) ==
    /\ At(c, "reading")
    /\ Goto(c, "replying")
    /\ UNCHANGED <<free, worker, file, strays>>

-----------------------------------------------------------------------------
(* Inside: FastAPI parses the body, then solves the dependencies, then calls *)
(* the handler.                                                              *)

Unparsable(c) ==
    /\ At(c, "handling")
    /\ request[c].kind \in Bounded
    /\ Goto(c, "replying")
    /\ UNCHANGED <<free, worker, file, strays>>

\* Mutant: the dependency does not look for the boundary's principal.
Identify_Again(c) ==
    /\ At(c, "handling")
    /\ request' = [request EXCEPT ![c].step = "working", ![c].charges = @ + 1]
    /\ UNCHANGED <<free, worker, file, strays>>

\* authenticated_principal: the boundary's principal, or authenticate now
Identify(c) ==
    /\ At(c, "handling")
    /\ \/ request[c].memo /\ Goto(c, "working")
       \/ /\ ~request[c].memo
          /\ request' = [request EXCEPT ![c].step = "working", ![c].charges = @ + 1]
    /\ UNCHANGED <<free, worker, file, strays>>

\* ... and a 401, 429 or 503 from the dependency
NotIdentified(c) ==
    /\ At(c, "handling")
    /\ ~request[c].memo
    /\ Goto(c, "replying")
    /\ UNCHANGED <<free, worker, file, strays>>

\* Every other handler returns or raises; analyze_document also turns a file
\* away for its entity, the limits, its name, its size or its first bytes.
HandlerEnds(c) ==
    /\ At(c, "working")
    /\ Goto(c, "replying")
    /\ UNCHANGED <<free, worker, file, strays>>

StartInspection(c) ==
    /\ At(c, "working")
    /\ request[c].kind = "upload"
    /\ worker' = [worker EXCEPT ![c] = "inspect"]
    /\ Goto(c, "inspecting")
    /\ UNCHANGED <<free, file, strays>>

\* Rejected, timed out, crashed, or no temporary file could be created.
InspectionFails(c) ==
    /\ At(c, "inspecting")
    /\ worker' = [worker EXCEPT ![c] = "none"]
    /\ Goto(c, "replying")
    /\ UNCHANGED <<free, file, strays>>

\* The copy to disk fails before the try that would remove it is entered.
WriteFails(c) ==
    /\ At(c, "inspecting")
    /\ strays < MaxStrays
    /\ strays' = strays + 1
    /\ worker' = [worker EXCEPT ![c] = "none"]
    /\ Goto(c, "replying")
    /\ UNCHANGED <<free, file>>

StartAnalysis(c) ==
    /\ At(c, "inspecting")
    /\ file' = [file EXCEPT ![c] = TRUE]
    /\ worker' = [worker EXCEPT ![c] = "analyse"]
    /\ Goto(c, "analysing")
    /\ UNCHANGED <<free, strays>>

\* Whatever came of it, persisted or not, the finally removes the file.
AnalysisEnds(c) ==
    /\ At(c, "analysing")
    /\ worker' = [worker EXCEPT ![c] = "none"]
    /\ file' = [file EXCEPT ![c] = FALSE]
    /\ Goto(c, "replying")
    /\ UNCHANGED <<free, strays>>

-----------------------------------------------------------------------------
(* The way out. *)

\* The response is sent: inside the slot, unless the request never got one.
Reply(c) ==
    /\ At(c, "replying") \/ At(c, "rejected")
    /\ End(c)
    /\ UNCHANGED <<worker, file, strays>>

\* Mutant: cancellation is not waited for, the file is left.
Cancel_Abandons(c) ==
    /\ ~At(c, "idle")
    /\ End(c)
    /\ UNCHANGED <<worker, file, strays>>

\* The server shuts down and cancels the task: a child is reclaimed before the
\* cancellation goes on (see WorkerIsolation), then every finally runs.
Cancel(c) ==
    /\ ~At(c, "idle")
    /\ worker' = [worker EXCEPT ![c] = "none"]
    /\ file' = [file EXCEPT ![c] = FALSE]
    /\ End(c)
    /\ UNCHANGED strays

\* What the server does of itself, sooner or later; the client's part is Receive,
\* ReceiveLast and Disconnect.
Progress(c) ==
    \/ Unauthenticated(c) \/ UploadTurnedAway(c) \/ UploadAdmitted(c)
    \/ ReadTimesOut(c)
    \/ Unparsable(c) \/ Identify(c) \/ NotIdentified(c)
    \/ HandlerEnds(c) \/ StartInspection(c)
    \/ InspectionFails(c) \/ WriteFails(c) \/ StartAnalysis(c)
    \/ AnalysisEnds(c)
    \/ Reply(c)

Next ==
    \E c \in Connections :
        \/ QueryArrives(c) \/ CommandRejected(c) \/ CommandAdmitted(c)
        \/ \E e \in Envelopes : UploadArrives(c, e)
        \/ Receive(c) \/ ReceiveLast(c) \/ Disconnect(c)
        \/ Progress(c)
        \/ Cancel(c)

Spec == Init /\ [][Next]_vars

\* The pool's threads return, the read clock and the workers' deadlines ring,
\* and a response is taken or its connection dropped.
FairSpec == Spec /\ \A c \in Connections : WF_vars(Progress(c))

-----------------------------------------------------------------------------
(* Properties. *)

\* No exit of a request - rejection, disconnect, timeout, error, cancellation -
\* loses a slot or returns it twice.
SlotsAreConserved ==
    \A k \in Bounded : free[k] + Cardinality(Holders(k)) = Capacity

\* What a request costs the server, buffered bytes, a child process or a
\* temporary file, is only ever held inside a slot: with SlotsAreConserved,
\* never more than Capacity bodies of Limit, children and files at once.
CostsAreHeldInside ==
    \A c \in Connections :
        (request[c].bytes > 0 \/ request[c].memo \/ worker[c] # "none" \/ file[c])
            => Inside(c)

\* No byte of an upload is read for a caller who has not been identified and
\* charged, nothing works for one, and nobody pays for a request twice.
ChargedOnceAndFirst ==
    \A c \in Connections :
        /\ request[c].charges <= 1
        /\ request[c].step \in {"working", "inspecting", "analysing"}
              => request[c].charges = 1
        /\ (request[c].kind = "upload" /\ Inside(c)) => request[c].charges = 1

\* A request ends and gives its slot back, however its client dawdles: it may
\* send empty chunks for ever, or nothing at all.
RequestsEnd == \A c \in Connections : ~At(c, "idle") ~> At(c, "idle")
=============================================================================
