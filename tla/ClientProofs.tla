---------------------------- MODULE ClientProofs ----------------------------
(***************************************************************************)
(* For any number of threads and configurations: exchanges with the service*)
(* do not overlap, each goes to the host of the configuration in force, no *)
(* connection with an answer outstanding is used again, and nothing is sent*)
(* once the transport is closed.                                           *)
(***************************************************************************)
EXTENDS ClientProperties, TLAPS

-----------------------------------------------------------------------------
(* The inductive invariant                                                 *)

Known == Configs \cup {FirstConfig}

WireType ==
    /\ pc \in [Threads -> Labels]
    /\ cfg \in Known /\ config \in Known
    /\ seen \in [Threads -> Known \cup {None}]
    /\ conn \in Connection \cup {None}
    /\ lock \in Threads \cup {None}
    /\ shut \in BOOLEAN

(* The lock is held exactly over an exchange; the connection leads to the  *)
(* current host; a thread about to hand on a configuration has one.        *)
WireInv ==
    /\ WireType
    /\ \A t \in Threads : pc[t] = "wait" <=> lock = t
    /\ conn # None => conn.to = config.endpoint
    /\ lock # None => conn # None /\ conn.http = "sent"
    /\ lock = None /\ conn # None => conn.http # "sent"
    /\ shut => conn = None /\ lock = None
    /\ \A t \in Threads : pc[t] \in {"assign", "apply"} => seen[t] # None

-----------------------------------------------------------------------------
(* Steps that the wire does not notice                                     *)

\* Thread t moves from one label to another without touching the transport.
Moves(t) ==
    /\ UNCHANGED <<transport, cfg>>
    /\ pc[t] # "wait"
    /\ \E to \in Labels \ {"wait", "assign", "apply"} : pc' = [pc EXCEPT ![t] = to]
    /\ seen' = seen \/ seen' = [seen EXCEPT ![t] = None]

LEMMA QuietSteps ==
    ASSUME WireInv, NEW t \in Threads, Moves(t) \/ UNCHANGED <<transport, cfg, pc, seen>>
    PROVE  WireInv'
<1>1. CASE UNCHANGED <<transport, cfg, pc, seen>>
  BY <1>1 DEF WireInv, WireType, transport
<1>2. CASE Moves(t)
  <2>1. PICK to \in Labels \ {"wait", "assign", "apply"} : pc' = [pc EXCEPT ![t] = to]
    BY <1>2 DEF Moves
  <2>2. UNCHANGED <<config, conn, lock, shut, cfg>>
    BY <1>2 DEF Moves, transport
  <2>3. seen' \in [Threads -> Known \cup {None}]
    BY <1>2 DEF Moves, WireInv, WireType
  <2>4. WireType'
    BY <2>1, <2>2, <2>3 DEF WireInv, WireType
  <2>5. \A u \in Threads : pc'[u] = "wait" <=> lock' = u
    BY <1>2, <2>1, <2>2 DEF Moves, WireInv, WireType
  <2>6. \A u \in Threads : pc'[u] \in {"assign", "apply"} => seen'[u] # None
    BY <1>2, <2>1 DEF Moves, WireInv, WireType
  <2> QED
    BY <2>2, <2>4, <2>5, <2>6 DEF WireInv
<1> QED
  BY <1>1, <1>2

(* What a request is made on leads to the current host.                    *)
LEMMA TakenType ==
    ASSUME WireInv
    PROVE  Taken \in Connection /\ Taken.to = config.endpoint
<1>1. Fresh \in Connection /\ Fresh.to = config.endpoint
  BY ConfigAssumption DEF Fresh, Connection, WireInv, WireType, Known
<1> QED
  BY <1>1 DEF Taken, WireInv, WireType

(* However an exchange ends, the lock is free, and the connection has no   *)
(* answer outstanding or is gone.                                          *)
LEMMA ExchangeEnds ==
    ASSUME WireInv, NEW t \in Threads, NEW to \in {"sent", "failed"},
           Answered(t) \/ Lost(t), pc' = [pc EXCEPT ![t] = to], UNCHANGED <<cfg, seen>>
    PROVE  WireInv'
<1>1. lock = t /\ lock' = None /\ UNCHANGED <<config, shut>> /\ ~shut
  BY ClientAssumption DEF Answered, Lost, WireInv
<1>2. conn \in Connection /\ conn.to = config.endpoint
  BY <1>1, ClientAssumption DEF WireInv, WireType
<1>3. conn' # None => /\ conn' \in Connection
                      /\ conn'.http = "idle"
                      /\ conn'.to = config.endpoint
  BY <1>2 DEF Answered, Lost, Connection
<1>4. to \in Labels \ {"wait", "assign", "apply"}
  BY DEF Labels
<1>5. \A u \in Threads : pc'[u] # "wait"
  BY <1>1, <1>4 DEF WireInv, WireType
<1>6. \A u \in Threads : pc'[u] \in {"assign", "apply"} => seen'[u] # None
  BY <1>4 DEF WireInv, WireType
<1>7. WireType'
  BY <1>1, <1>3, <1>4 DEF WireInv, WireType
<1>8. \A u \in Threads : lock' # u
  BY <1>1, ClientAssumption
<1> QED
  BY <1>1, <1>3, <1>5, <1>6, <1>7, <1>8 DEF WireInv

-----------------------------------------------------------------------------
(* The invariant holds at first and is kept by every step                  *)

LEMMA WireInit == Init => WireInv
BY ClientAssumption, ConfigAssumption
   DEF Init, TransportInit, WireInv, WireType, Known, Labels, Threads

LEMMA WireNext ==
    ASSUME WireInv, Next
    PROVE  WireInv'
<1>1. ASSUME NEW c \in Callers, WriteOrRead(c)
      PROVE  WireInv'
  <2> c \in Threads
    BY DEF Threads
  <2>1. CASE WriteBegins(c)
    <3>1. Moves(c)
      BY <2>1 DEF WriteBegins, Calls, Step, Moves, Labels, state
    <3> QED
      BY <3>1, QuietSteps
  <2>2. CASE ReadBegins(c)
    <3>1. Moves(c)
      BY <2>2 DEF ReadBegins, Calls, Step, Moves, Labels, state
    <3> QED
      BY <3>1, QuietSteps
  <2>3. CASE AssertsOpen(c)
    <3>1. Moves(c)
      BY <2>3 DEF AssertsOpen, Ends, Step, Moves, Labels, state
    <3> QED
      BY <3>1, QuietSteps
  <2>4. CASE PassesGate(c)
    <3>1. Moves(c)
      BY <2>4 DEF PassesGate, Step, Moves, Labels, state
    <3> QED
      BY <3>1, QuietSteps
  <2>5. CASE DiscardsQuietly(c)
    <3>1. Moves(c)
      BY <2>5 DEF DiscardsQuietly, Ends, Step, Moves, Labels, state
    <3> QED
      BY <3>1, QuietSteps
  <2>6. CASE Enqueues(c)
    <3>1. Moves(c) \/ UNCHANGED <<transport, cfg, pc, seen>>
      BY <2>6 DEF Enqueues, MovesOn, Ends, Step, Moves, Labels, state
    <3> QED
      BY <3>1, QuietSteps
  <2>7. CASE TurnedAway(c)
    <3>1. Moves(c) \/ UNCHANGED <<transport, cfg, pc, seen>>
      BY <2>7 DEF TurnedAway, MovesOn, Ends, Step, Moves, Labels, state
    <3> QED
      BY <3>1, QuietSteps
  <2>8. CASE Returns(c)
    <3>1. Moves(c)
      BY <2>8 DEF Returns, Ends, Step, Moves, Labels, state
    <3> QED
      BY <3>1, QuietSteps
  <2>9. CASE ServesDefault(c)
    <3>1. Moves(c)
      BY <2>9 DEF ServesDefault, Ends, Step, Moves, Labels, state
    <3> QED
      BY <3>1, QuietSteps
  <2>10. CASE Raises(c)
    <3>1. Moves(c)
      BY <2>10 DEF Raises, Ends, Step, Moves, Labels, state
    <3> QED
      BY <3>1, QuietSteps
  <2>11. CASE Catches(c)
    <3>1. Moves(c)
      BY <2>11 DEF Catches, Step, Moves, Labels, state
    <3> QED
      BY <3>1, QuietSteps
  <2> QED
    BY <1>1, <2>1, <2>2, <2>3, <2>4, <2>5, <2>6, <2>7, <2>8, <2>9, <2>10, <2>11 DEF WriteOrRead
<1>2. ASSUME NEW c \in Callers, Batch(c)
      PROVE  WireInv'
  <2> c \in Threads
    BY DEF Threads
  <2>1. CASE BatchBegins(c)
    <3>1. Moves(c)
      BY <2>1 DEF BatchBegins, Calls, Step, Moves, Labels, state
    <3> QED
      BY <3>1, QuietSteps
  <2>2. CASE SendsNext(c)
    <3>1. Moves(c)
      BY <2>2 DEF SendsNext, Ends, Step, Moves, Labels, state
    <3> QED
      BY <3>1, QuietSteps
  <2>3. CASE PoolEnds(c)
    <3>1. Moves(c)
      BY <2>3 DEF PoolEnds, Step, Moves, Labels, state
    <3> QED
      BY <3>1, QuietSteps
  <2>4. ASSUME NEW w \in Workers, WorkerTakes(w, c)
        PROVE  WireInv'
    <3> w \in Threads
      BY DEF Threads
    <3>1. Moves(w)
      BY <2>4 DEF WorkerTakes, Step, Moves, Labels, state
    <3> QED
      BY <3>1, QuietSteps
  <2> QED
    BY <1>2, <2>1, <2>2, <2>3, <2>4 DEF Batch
<1>3. ASSUME NEW c \in Callers, Drain(c)
      PROVE  WireInv'
  <2> c \in Threads
    BY DEF Threads
  <2>1. CASE FlushBegins(c)
    <3>1. Moves(c)
      BY <2>1 DEF FlushBegins, Calls, Step, Moves, Labels, state
    <3> QED
      BY <3>1, QuietSteps
  <2>2. CASE DrainLocks(c)
    <3>1. Moves(c)
      BY <2>2 DEF DrainLocks, Step, Moves, Labels, state
    <3> QED
      BY <3>1, QuietSteps
  <2>3. CASE DrainTakes(c)
    <3>1. Moves(c)
      BY <2>3 DEF DrainTakes, Step, Moves, Labels, state
    <3> QED
      BY <3>1, QuietSteps
  <2>4. CASE DrainSent(c)
    <3>1. Moves(c)
      BY <2>4 DEF DrainSent, Again, Step, Moves, Labels, state
    <3> QED
      BY <3>1, QuietSteps
  <2>5. CASE DrainRetries(c)
    <3>1. Moves(c)
      BY <2>5 DEF DrainRetries, Again, Step, Moves, Labels, state
    <3> QED
      BY <3>1, QuietSteps
  <2>6. CASE DrainDrops(c)
    <3>1. Moves(c)
      BY <2>6 DEF DrainDrops, Again, Step, Moves, Labels, state
    <3> QED
      BY <3>1, QuietSteps
  <2>7. CASE DrainEnds(c)
    <3>1. Moves(c)
      BY <2>7 DEF DrainEnds, Unlocks, Ends, Step, Moves, Labels, state
    <3> QED
      BY <3>1, QuietSteps
  <2>8. CASE DrainStops(c)
    <3>1. Moves(c)
      BY <2>8 DEF DrainStops, Unlocks, Ends, Step, Moves, Labels, state
    <3> QED
      BY <3>1, QuietSteps
  <2>9. CASE DrainRaises(c)
    <3>1. Moves(c)
      BY <2>9 DEF DrainRaises, Ends, Step, Moves, Labels, state
    <3> QED
      BY <3>1, QuietSteps
  <2> QED
    BY <1>3, <2>1, <2>2, <2>3, <2>4, <2>5, <2>6, <2>7, <2>8, <2>9 DEF Drain
<1>4. ASSUME NEW c \in Callers, Close(c)
      PROVE  WireInv'
  <2> c \in Threads
    BY DEF Threads
  <2>1. CASE CloseBegins(c)
    <3>1. Moves(c)
      BY <2>1 DEF CloseBegins, Calls, Step, Moves, Labels, state
    <3> QED
      BY <3>1, QuietSteps
  <2>2. CASE StopsBuffer(c)
    <3>1. Moves(c)
      BY <2>2 DEF StopsBuffer, Step, Moves, Labels, state
    <3> QED
      BY <3>1, QuietSteps
  <2>3. CASE Marks(c)
    <3>1. Moves(c)
      BY <2>3 DEF Marks, Step, Moves, Labels, state
    <3> QED
      BY <3>1, QuietSteps
  <2>4. CASE Releases(c)
    <3>1. pc[c] = "release" /\ lock = None
      BY <2>4 DEF Releases, Shuts, Ends, Step
    <3>2. pc' = [pc EXCEPT ![c] = "idle"] /\ seen' = [seen EXCEPT ![c] = None]
      BY <2>4 DEF Releases, Ends, Step
    <3>3. lock' = None /\ conn' = None /\ cfg' = cfg /\ config' = config /\ shut'
      BY <2>4, <3>1 DEF Releases, Shuts, state
    <3> QED
      BY <3>1, <3>2, <3>3 DEF WireInv, WireType, Labels
  <2> QED
    BY <1>4, <2>1, <2>2, <2>3, <2>4 DEF Close
<1>5. ASSUME NEW c \in Callers, Settings(c)
      PROVE  WireInv'
  <2> c \in Threads
    BY DEF Threads
  <2>1. CASE OptsOut(c)
    <3>1. Moves(c)
      BY <2>1 DEF OptsOut, Calls, Step, Moves, Labels, state
    <3> QED
      BY <3>1, QuietSteps
  <2>2. CASE OptsIn(c)
    <3>1. Moves(c)
      BY <2>2 DEF OptsIn, Calls, Step, Moves, Labels, state
    <3> QED
      BY <3>1, QuietSteps
  <2>3. CASE SetConfigBegins(c)
    <3>1. PICK new \in Configs : seen' = [seen EXCEPT ![c] = new]
      BY <2>3 DEF SetConfigBegins
    <3>2. pc[c] = "idle" /\ pc' = [pc EXCEPT ![c] = "assign"]
      BY <2>3 DEF SetConfigBegins, Calls, Step
    <3>3. UNCHANGED <<transport, cfg>>
      BY <2>3 DEF SetConfigBegins, state
    <3> QED
      BY <3>1, <3>2, <3>3, ConfigAssumption DEF WireInv, WireType, Labels, Known, transport
  <2>4. CASE Assigns(c)
    <3>1. pc[c] = "assign" /\ pc' = [pc EXCEPT ![c] = "arg"]
      BY <2>4 DEF Assigns, Step
    <3>2. cfg' = seen[c] /\ UNCHANGED <<transport, seen>>
      BY <2>4 DEF Assigns
    <3>3. cfg' \in Known
      BY <3>1, <3>2 DEF WireInv, WireType
    <3> QED
      BY <3>1, <3>2, <3>3 DEF WireInv, WireType, Labels, transport
  <2>5. CASE PassesOn(c)
    <3>1. pc[c] = "arg" /\ pc' = [pc EXCEPT ![c] = "apply"]
      BY <2>5 DEF PassesOn, Step
    <3>2. seen' = [seen EXCEPT ![c] = cfg] /\ UNCHANGED <<transport, cfg>>
      BY <2>5 DEF PassesOn, state
    <3> QED
      BY <3>1, <3>2, ConfigAssumption DEF WireInv, WireType, Labels, Known, transport
  <2>6. CASE Applies(c)
    <3>1. pc[c] = "apply" /\ pc' = [pc EXCEPT ![c] = "idle"] /\ seen' = [seen EXCEPT ![c] = None]
      BY <2>6 DEF Applies, Ends, Step
    <3>2. /\ lock = None /\ lock' = None /\ shut' = shut /\ cfg' = cfg
          /\ config' = seen[c]
          /\ conn' = IF seen[c].endpoint = config.endpoint THEN conn ELSE None
      BY <2>6 DEF Applies, Reconfigured, SameEndpoint, state
    <3>3. config' \in Known
      BY <3>1, <3>2 DEF WireInv, WireType
    <3>4. conn' \in {conn, None} /\ (conn' # None => conn' = conn /\ conn.to = config'.endpoint)
      BY <3>2 DEF WireInv
    <3> QED
      BY <3>1, <3>2, <3>3, <3>4 DEF WireInv, WireType, Labels
  <2> QED
    BY <1>5, <2>1, <2>2, <2>3, <2>4, <2>5, <2>6 DEF Settings
<1>6. ASSUME NEW t \in Threads, Send(t)
      PROVE  WireInv'
  <2>1. CASE PassesSendGate(t)
    <3>1. Moves(t)
      BY <2>1 DEF PassesSendGate, Step, Moves, Labels, state
    <3> QED
      BY <3>1, QuietSteps
  <2>2. CASE Discards(t)
    <3>1. Moves(t)
      BY <2>2 DEF Discards, Step, Moves, Labels, state
    <3> QED
      BY <3>1, QuietSteps
  <2>3. CASE ReadsPath(t)
    <3>1. pc[t] = "path" /\ pc' = [pc EXCEPT ![t] = "post"]
      BY <2>3 DEF ReadsPath, Step
    <3>2. seen' = [seen EXCEPT ![t] = cfg] /\ UNCHANGED <<transport, cfg>>
      BY <2>3 DEF ReadsPath, state
    <3> QED
      BY <3>1, <3>2 DEF WireInv, WireType, Labels, transport
  <2>4. CASE Begins(t)
    <3>1. pc[t] = "post" /\ pc' = [pc EXCEPT ![t] = "wait"]
      BY <2>4 DEF Begins, Posts, Step
    <3>2. /\ lock = None /\ lock' = t /\ ~shut
          /\ conn' = [Taken EXCEPT !.http = "sent"]
          /\ UNCHANGED <<config, shut, cfg, seen>>
      BY <2>4 DEF Begins, Posts, PostStarts, PostIsOpen, state
    <3>3. conn' \in Connection /\ conn'.http = "sent" /\ conn'.to = config.endpoint
      BY <3>2, TakenType DEF Connection
    <3>4. \A u \in Threads : u # None
      BY ClientAssumption
    <3>5. WireType'
      BY <3>1, <3>2, <3>3 DEF WireInv, WireType, Labels
    <3>6. \A u \in Threads : pc'[u] = "wait" <=> lock' = u
      BY <3>1, <3>2, <3>4 DEF WireInv, WireType
    <3>7. \A u \in Threads : pc'[u] \in {"assign", "apply"} => seen'[u] # None
      BY <3>1, <3>2 DEF WireInv, WireType
    <3> QED
      BY <3>2, <3>3, <3>4, <3>5, <3>6, <3>7, TransportAssumption DEF WireInv
  <2>5. CASE Unserialisable(t)
    <3>1. Moves(t)
      BY <2>5 DEF Unserialisable, Posts, Step, Moves, Labels, state
    <3> QED
      BY <3>1, QuietSteps
  <2>6. CASE Refused(t)
    <3>1. Moves(t)
      BY <2>6 DEF Refused, Posts, PostIsRefused, Step, Moves, Labels, state
    <3> QED
      BY <3>1, QuietSteps
  <2>7. CASE CannotStart(t)
    <3>1. pc[t] = "post" /\ pc' = [pc EXCEPT ![t] = "failed"]
      BY <2>7 DEF CannotStart, Posts, Step
    <3>2. lock = None /\ conn' = None /\ UNCHANGED <<config, lock, shut, cfg, seen>>
      BY <2>7 DEF CannotStart, Posts, PostCannotStart, state
    <3> QED
      BY <3>1, <3>2 DEF WireInv, WireType, Labels
  <2>8. CASE CannotEncode(t)
    <3>1. pc[t] = "post" /\ pc' = [pc EXCEPT ![t] = "failed"]
      BY <2>8 DEF CannotEncode, Posts, Step
    <3>2. /\ lock = None /\ ~shut /\ UNCHANGED <<config, lock, shut, cfg, seen>>
          /\ conn' = IF KeepAlive THEN [Taken EXCEPT !.http = "started"] ELSE None
      BY <2>8 DEF CannotEncode, Posts, PostCannotEncode, state
    <3>3. conn' # None => /\ conn' \in Connection
                          /\ conn'.http = "started"
                          /\ conn'.to = config.endpoint
      BY <3>2, TakenType DEF Connection
    <3> QED
      BY <3>1, <3>2, <3>3 DEF WireInv, WireType, Labels
  <2>9. CASE Accepted(t)
    <3>1. Answered(t) /\ pc[t] = "wait" /\ pc' = [pc EXCEPT ![t] = "sent"]
      BY <2>9 DEF Accepted, Step
    <3>2. UNCHANGED <<cfg, seen>>
      BY <2>9 DEF Accepted, state
    <3> QED
      BY <3>1, <3>2, ExchangeEnds
  <2>10. CASE Rejected(t)
    <3>1. (Answered(t) \/ Lost(t)) /\ pc[t] = "wait" /\ pc' = [pc EXCEPT ![t] = "failed"]
      BY <2>10 DEF Rejected, Step
    <3>2. UNCHANGED <<cfg, seen>>
      BY <2>10 DEF Rejected, state
    <3> QED
      BY <3>1, <3>2, ExchangeEnds
  <2> QED
    BY <1>6, <2>1, <2>2, <2>3, <2>4, <2>5, <2>6, <2>7, <2>8, <2>9, <2>10 DEF Send
<1>7. ASSUME NEW w \in Workers, WorkerEnds(w)
      PROVE  WireInv'
  <2> w \in Threads
    BY DEF Threads
  <2>1. Moves(w)
    BY <1>7 DEF WorkerEnds, Step, Moves, Labels, state
  <2> QED
    BY <2>1, QuietSteps
<1>8. CASE Quiescent
  BY <1>8 DEF Quiescent, vars, state, local, WireInv, WireType, transport
<1> QED
  BY <1>1, <1>2, <1>3, <1>4, <1>5, <1>6, <1>7, <1>8 DEF Next

THEOREM WireInvariant == Spec => []WireInv
<1>1. WireInv /\ [Next]_vars => WireInv'
  BY WireNext DEF vars, state, local, WireInv, WireType, transport
<1> QED
  BY <1>1, WireInit, PTL DEF Spec

(* Requests of all threads go one at a time over a connection to the host  *)
(* of the configuration in force, whatever was reconfigured meanwhile.     *)
THEOREM RequestsAreExclusive == Spec => []ExchangesAreExclusive
<1>1. WireInv => ExchangesAreExclusive
  BY ClientAssumption DEF WireInv, ExchangesAreExclusive
<1> QED
  BY <1>1, WireInvariant, PTL

(* No request begins, and no connection stays open, after the transport was*)
(* closed, however many threads were waiting for it.                       *)
THEOREM NothingAfterClose == Spec => []ClosedIsQuiet
<1>1. WireInv => ClosedIsQuiet
  BY DEF WireInv, ClosedIsQuiet
<1> QED
  BY <1>1, WireInvariant, PTL

(* No answer is ever read as the answer to a later request.                *)
THEOREM AnswersMatch == Spec => []NoLateAnswers
<1>1. WireInv => NoLateAnswers
  BY DEF WireInv, NoLateAnswers
<1> QED
  BY <1>1, WireInvariant, PTL
=============================================================================
