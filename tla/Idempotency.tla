---------------------------- MODULE Idempotency ----------------------------
(***************************************************************************)
(* POST requests that carry one Idempotency-Key of one user.  The first    *)
(* reserves the key in Redis and runs; the others wait for what it leaves  *)
(* there.  Reservations lapse and what a key holds may change between any  *)
(* two commands of a request, since no command spans more than one step.   *)
(***************************************************************************)
EXTENDS Naturals, FiniteSets

CONSTANTS
    Posts,   \* bound: the requests
    Bodies   \* fingerprints of method, path and body

VARIABLES
    key,         \* what Redis holds: nothing, a reservation, or a stored response
    post,        \* the requests
    done,        \* history: requests that took effect, answered with 2xx and JSON
    unreserved,  \* history: requests that ran without the reservation
    lapsed       \* history: a reservation or a stored response has reached its end of life

vars == <<key, post, done, unreserved, lapsed>>

Nothing == [kind |-> "nothing"]

Init ==
    /\ key = Nothing
    /\ post \in [Posts -> {[at |-> "new", body |-> b, of |-> "none"] : b \in Bodies}]
    /\ done = {} /\ unreserved = {} /\ lapsed = FALSE

At(p, at) == post[p].at = at

Goes(p, at) == post' = [post EXCEPT ![p].at = at]

HasResponse(p) == key.kind = "stored" /\ key.body = post[p].body

\* _response_from_cached: a conflict, or the response of the request whose it is.
Answer(p) ==
    IF HasResponse(p)
    THEN post' = [post EXCEPT ![p].at = "replayed", ![p].of = key.of]
    ELSE Goes(p, "conflict")

-----------------------------------------------------------------------------
(* Before the handler.                                                     *)

Look(p) ==
    /\ At(p, "new")
    /\ IF key = Nothing THEN Goes(p, "reserve") ELSE Answer(p)
    /\ UNCHANGED <<key, done, unreserved, lapsed>>

\* Fault: the reservation is set whatever the key holds by now.
FreeWhenLooked == TRUE

Free == key = Nothing

\* SET NX.
Reserve(p) ==
    /\ At(p, "reserve")
    /\ IF Free
       THEN key' = [kind |-> "in flight", body |-> post[p].body] /\ Goes(p, "run")
       ELSE Goes(p, "poll") /\ UNCHANGED key
    /\ UNCHANGED <<done, unreserved, lapsed>>

\* A request that finds the key gone while it waits runs as well, and reserves nothing.
\* While the key is in flight it waits, and takes that for the answer in the end.
Poll(p) ==
    /\ At(p, "poll")
    /\ \/ key = Nothing /\ Goes(p, "run") /\ unreserved' = unreserved \cup {p}
       \/ key # Nothing /\ Answer(p) /\ UNCHANGED unreserved
    /\ UNCHANGED <<key, done, lapsed>>

-----------------------------------------------------------------------------
(* The handler, and IdempotencyStoreMiddleware after it.                   *)

Succeed(p) ==
    /\ At(p, "run")
    /\ done' = done \cup {p}
    /\ Goes(p, "store")
    /\ UNCHANGED <<key, unreserved, lapsed>>

\* An error answer releases the reservation; a crash leaves it to lapse.
Error(p) ==
    /\ At(p, "run")
    /\ \E at \in {"release", "crashed"} : Goes(p, at)
    /\ UNCHANGED <<key, done, unreserved, lapsed>>

Store(p) ==
    /\ At(p, "store")
    /\ key' = [kind |-> "stored", body |-> post[p].body, of |-> p]
    /\ Goes(p, "answered")
    /\ UNCHANGED <<done, unreserved, lapsed>>

\* release_idempotency_reservation reads the key, and deletes it in a second command.
Deletable(p) == key.kind = "in flight" /\ key.body = post[p].body

Release(p) ==
    /\ At(p, "release")
    /\ Goes(p, IF Deletable(p) THEN "delete" ELSE "answered")
    /\ UNCHANGED <<key, done, unreserved, lapsed>>

Delete(p) ==
    /\ At(p, "delete")
    /\ key' = Nothing
    /\ Goes(p, "answered")
    /\ UNCHANGED <<done, unreserved, lapsed>>

\* IDEMPOTENCY_IN_FLIGHT_TTL_SECONDS, IDEMPOTENCY_TTL_SECONDS.
Lapse ==
    /\ key # Nothing
    /\ key' = Nothing
    /\ lapsed' = TRUE
    /\ UNCHANGED <<post, done, unreserved>>

Next ==
    \/ \E p \in Posts :
          \/ Look(p) \/ Reserve(p) \/ Poll(p) \/ Succeed(p) \/ Error(p) \/ Store(p) \/ Release(p) \/ Delete(p)
    \/ Lapse

Spec == Init /\ [][Next]_vars

-----------------------------------------------------------------------------
(* Properties.                                                             *)

Places == {"new", "reserve", "poll", "run", "store", "release", "delete", "crashed",
           "answered", "replayed", "conflict"}

\* The key and the requests are of their types.
TypeOK ==
    /\ \/ key = Nothing
       \/ key \in [kind : {"in flight"}, body : Bodies]
       \/ key \in [kind : {"stored"}, body : Bodies, of : Posts]
    /\ post \in [Posts -> [at : Places, body : Bodies, of : Posts \cup {"none"}]]
    /\ done \subseteq Posts /\ unreserved \subseteq Posts
    /\ lapsed \in BOOLEAN

\* "Return cached POST response when Idempotency-Key matches": of the requests under one
\* key one takes effect, through failures, crashes and retries, as long as no reservation
\* lapses under a request and none was let through after the wait.
TakesEffectOnce == Cardinality(done) > 1 => lapsed \/ unreserved # {}

\* A response that is replayed is that of a request of the same body which took effect.
ReplayIsOwn ==
    \A p \in Posts : At(p, "replayed") =>
        /\ post[p].of \in done
        /\ post[post[p].of].body = post[p].body

\* A stored response stays for the later requests until it lapses, whatever the others do
\* meanwhile; again only a request that was let through after the wait may undo this.
StoredStaysStep == key.kind = "stored" => key' = key \/ lapsed' \/ unreserved # {}

=============================================================================
