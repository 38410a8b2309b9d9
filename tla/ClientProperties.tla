-------------------------- MODULE ClientProperties --------------------------
(***************************************************************************)
(* What a shared client must never do, and what its documentation says.    *)
(***************************************************************************)
EXTENDS Client

(* Every variable has a value of its type.                                 *)
TypeOK ==
    /\ {config, cfg} \subseteq Configs \cup {FirstConfig}
    /\ conn \in Connection \cup {None}
    /\ {lock, drainer} \subseteq Threads \cup {None}
    /\ {shut, optedIn, closed, buffered, accepting} \subseteq BOOLEAN
    /\ Range(line) \subseteq Events /\ Len(line) <= MaxEvents
    /\ pc \in [Threads -> Labels]
    /\ call \in [Threads -> {"none", "send"} \cup Methods]
    /\ \A t \in Threads : Range(todo[t]) \subseteq Events
    /\ body \in [Threads -> SUBSET Events]
    /\ seen \in [Threads -> Configs \cup {FirstConfig, None}]
    /\ owner \in [Workers -> Callers \cup {None}]
    /\ erred \in [Callers -> BOOLEAN]
    /\ issued \in 0..MaxEvents
    /\ mine \in [Callers -> SUBSET Events]
    /\ taken \cup delivered \cup dropped \cup discarded \subseteq Events
    /\ revoked \cup silenced \cup cutOff \subseteq Events

-----------------------------------------------------------------------------
(* Safety                                                                  *)

(* One exchange at a time, on a connection that was opened for it or left  *)
(* idle by the one before, and to the host of the configuration of now:    *)
(* set_config, close and the other threads wait for it to end.             *)
ExchangesAreExclusive ==
    \A t \in Threads : pc[t] = "wait" =>
        /\ lock = t
        /\ conn # None
        /\ conn.http = "sent"
        /\ conn.to = config.endpoint

(* Once the transport is closed nothing is sent and no connection is left  *)
(* open, however many threads were waiting for it ("The client is unusable *)
(* after").                                                                *)
ClosedIsQuiet == shut => conn = None /\ lock = None

(* A connection on which a request went unanswered is never used again: the*)
(* answer it may still bring would be taken for the next request's.        *)
NoLateAnswers == lock = None /\ conn # None => conn.http # "sent"

(* The client and its transport agree on the configuration whenever no     *)
(* set_config is between its two assignments.  It holds while one thread   *)
(* calls set_config: two of them may leave the transport with the older.   *)
ConfigsAgree == (\A c \in Callers : pc[c] \notin {"arg", "apply"}) => cfg = config

(* "Errors surface.  Nothing is swallowed": a write that has returned was  *)
(* accepted by the service or the buffer, or announced as dropped, or held *)
(* back by the opt-out gate, chunk by chunk; whatever else became of one   *)
(* of them, the call has raised, and no chunk of it is still under way.    *)
NothingSwallowed ==
    \A c \in Callers : pc[c] = "idle" =>
        /\ mine[c] \subseteq taken \cup delivered \cup dropped \cup discarded
        /\ \A w \in Workers : owner[w] # c

(* CHANGELOG.md:88 "events buffered before opt_out() are discarded rather  *)
(* than transmitted by a later flush": those no request had taken up when  *)
(* opt_out() was called are not delivered, unless somebody opts in again.  *)
OptOutHolds == delivered \cap revoked = {}

(* What close() drains, it sends: the client does not count as closed until*)
(* its buffer is.  It holds while one thread closes.                       *)
CloseStillSends == cutOff = {}

-----------------------------------------------------------------------------
(* What the documentation says                                             *)

(* _client.py:581 "a closed client raises; an opted-out client returns     *)
(* quietly": _submit discards without a word only what nobody wants sent.  *)
QuietOnlyIfOptedOut == silenced = {}

(* _transport.py:166 "so the retry gets a fresh socket rather than failing *)
(* again on the same dead one": between two exchanges, what is in the pool *)
(* can begin a request.                                                    *)
FailuresDoNotSpread == lock = None /\ conn # None => conn.http = "idle"
=============================================================================
