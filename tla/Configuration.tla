--------------------------- MODULE Configuration ---------------------------
(***************************************************************************)
(* resolve_config and merge_config: which options make a client, and which *)
(* patches a client takes.  An option is None when it is not given and Junk*)
(* when it is of the wrong type, blank or unparseable; `path' and `debug', *)
(* which nothing checks and no other option depends on, are left out.      *)
(***************************************************************************)
EXTENDS Integers

CONSTANTS
    DefaultHost, DefaultTimeout, DefaultLimit, DefaultLogger,
    Loggers,  \* loggers that have the four levels
    None,     \* not given; no port
    Junk      \* given, and no value of its kind

Required == {"org", "project", "api_key"}

\* _FIXED
Fixed == {"org", "project", "api_key", "source_id", "batch", "keep_alive"}

\* Fields of ResolvedConfig that no branch of merge_config reads.
Unread == {"port", "credentials"}

Ports == 1..65535

\* A host option is split at its first colon: the name is Junk when it is
\* blank or no string at all, the port None when there is none.
HostIsUsable(h) == h.name # Junk /\ (h.port = None \/ h.port \in Ports)

SchemeIsUsable(s) == s \in {"http", "https"}

IsPositive(n) == n \in Nat \ {0}

BatchIsUsable(b) == b.size >= 1 /\ b.flushMs >= 1 /\ b.maxQueue >= b.size

-----------------------------------------------------------------------------
(* Construction                                                            *)

OrElse(v, default) == IF v = None THEN default ELSE v

HostOption(o) == OrElse(o.host, [name |-> DefaultHost, port |-> None])

\* `usable' are the required options that are non-blank strings, the key of
\* the form "<prefix>.<secret>".
ResolveAccepts(o) ==
    /\ o.usable = Required
    /\ o.source_id # Junk
    /\ HostIsUsable(HostOption(o))
    /\ SchemeIsUsable(OrElse(o.scheme, "https"))
    /\ IsPositive(OrElse(o.timeout, DefaultTimeout))
    /\ IsPositive(OrElse(o.max_request_events, DefaultLimit))
    /\ IsPositive(OrElse(o.max_concurrent_requests, 1))
    /\ o.batch # None => o.batch # Junk /\ BatchIsUsable(o.batch)
    /\ OrElse(o.logger, DefaultLogger) \in Loggers

Resolved(o) ==
    [host      |-> HostOption(o).name,
     port      |-> HostOption(o).port,
     scheme    |-> OrElse(o.scheme, "https"),
     timeout   |-> OrElse(o.timeout, DefaultTimeout),
     source_id |-> o.source_id,
     batch     |-> o.batch,
     max_request_events      |-> OrElse(o.max_request_events, DefaultLimit),
     max_concurrent_requests |-> OrElse(o.max_concurrent_requests, 1),
     logger    |-> OrElse(o.logger, DefaultLogger)]

-----------------------------------------------------------------------------
(* A patch.  `others' are the names it gives besides the ones it may set.  *)

\* Definitions marked "Mutant" are deliberate slips: substituted for the
\* definition that follows them, they show that a property notices.

\* Mutant: a patch is not held to what the constructor asks of a timeout.
TimeoutUnchecked(v) == TRUE

TimeoutIsAccepted(v) == v = None \/ IsPositive(v)

\* Neither max_request_events nor max_concurrent_requests is checked here.
MergeAccepts(p) ==
    /\ p.others \subseteq Unread
    /\ p.host = None \/ HostIsUsable(p.host)
    /\ p.scheme = None \/ SchemeIsUsable(p.scheme)
    /\ TimeoutIsAccepted(p.timeout)
    /\ p.logger = None \/ p.logger \in Loggers

\* Mutant: a host without a port leaves the old port in place.
PortKept(c, p) == IF p.host = None \/ p.host.port = None THEN c.port ELSE p.host.port

\* A new host brings its own port, or none.
PortOf(c, p) == IF p.host = None THEN c.port ELSE p.host.port

Merged(c, p) ==
    [c EXCEPT !.host    = IF p.host = None THEN @ ELSE p.host.name,
              !.port    = PortOf(c, p),
              !.scheme  = OrElse(p.scheme, @),
              !.timeout = OrElse(p.timeout, @),
              !.max_request_events      = OrElse(p.max_request_events, @),
              !.max_concurrent_requests = OrElse(p.max_concurrent_requests, @),
              !.logger  = OrElse(p.logger, @)]
=============================================================================
