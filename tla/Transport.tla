------------------------------ MODULE Transport ------------------------------
(***************************************************************************)
(* One pooled connection behind one lock (class Transport), as the actions *)
(* a client is composed from.  The lock is held over a whole exchange, so  *)
(* whatever else the transport does happens between two exchanges.         *)
(*                                                                         *)
(* `conn' is the object in `_conn'; while the lock is held, it is the local*)
(* `conn' of the holder, which with keep-alive off goes with the lock.     *)
(***************************************************************************)
CONSTANTS
    Endpoints,  \* host, port and scheme: a change of any of them reconnects
    KeepAlive,  \* the config's keep_alive, fixed at construction
    None

\* http.client.HTTPConnection's private state: idle, a request begun but
\* not sent, a request sent and not answered.
Connection == [to : Endpoints, http : {"idle", "started", "sent"}]

ASSUME TransportAssumption ==
    /\ KeepAlive \in BOOLEAN
    /\ None \notin Endpoints \cup Connection

VARIABLES
    config,     \* _config
    conn,       \* _conn
    lock,       \* the thread that holds _lock, or None
    shut        \* _closed

transport == <<config, conn, lock, shut>>

TransportInit(c) ==
    /\ config = c
    /\ conn = None
    /\ lock = None
    /\ shut = FALSE

Fresh == [to |-> config.endpoint, http |-> "idle"]

\* _connection()
Taken == IF conn # None /\ KeepAlive THEN conn ELSE Fresh

-----------------------------------------------------------------------------
(* post                                                                    *)

\* After close(): IntemptApiError, "client is closed".
PostIsRefused ==
    /\ lock = None
    /\ shut
    /\ UNCHANGED transport

\* Mutant: the flag is not read again once the lock is held.
PostIsAllowed == TRUE

PostIsOpen == ~shut

PostStarts(t) ==
    /\ lock = None
    /\ PostIsOpen
    /\ Taken.http = "idle"
    /\ lock' = t
    /\ conn' = [Taken EXCEPT !.http = "sent"]
    /\ UNCHANGED <<config, shut>>

\* A connection left in the middle of an earlier request: CannotSendRequest,
\* an HTTPException, and the connection is dropped.
PostCannotStart ==
    /\ lock = None
    /\ ~shut
    /\ Taken.http # "idle"
    /\ conn' = None
    /\ UNCHANGED <<config, lock, shut>>

\* A request line outside ASCII: putrequest raises UnicodeEncodeError after
\* it has begun the request.  No clause catches that, and nothing is dropped.
PostCannotEncode ==
    /\ lock = None
    /\ ~shut
    /\ Taken.http = "idle"
    /\ conn' = IF KeepAlive THEN [Taken EXCEPT !.http = "started"] ELSE None
    /\ UNCHANGED <<config, lock, shut>>

\* The response was read.  With keep-alive off the connection is dropped.
Answered(t) ==
    /\ lock = t
    /\ conn' = IF KeepAlive THEN [conn EXCEPT !.http = "idle"] ELSE None
    /\ lock' = None
    /\ UNCHANGED <<config, shut>>

\* Mutant: the connection that failed stays in the pool.
LostKeepsConnection(t) ==
    /\ lock = t
    /\ lock' = None
    /\ UNCHANGED <<config, conn, shut>>

\* A timeout, an HTTPException or an OSError, as when the other end has
\* closed a connection that was idle: the connection is dropped.
Lost(t) ==
    /\ lock = t
    /\ conn' = None
    /\ lock' = None
    /\ UNCHANGED <<config, shut>>

-----------------------------------------------------------------------------
(* set_config and close                                                    *)

\* Mutant: the pooled connection survives a change of host.
KeepsConnection(c) == TRUE

SameEndpoint(c) == c.endpoint = config.endpoint

Reconfigured(c) ==
    /\ lock = None
    /\ config' = c
    /\ conn' = IF SameEndpoint(c) THEN conn ELSE None
    /\ UNCHANGED <<lock, shut>>

Shuts ==
    /\ lock = None
    /\ shut' = TRUE
    /\ conn' = None
    /\ UNCHANGED <<config, lock>>
=============================================================================
