------------------------- MODULE ClientLedgerProofs -------------------------
(***************************************************************************)
(* What becomes of events, for any number of threads and configurations: a *)
(* write that returns is accounted for, an event opted out of is not       *)
(* delivered, close() sends what it drains; and the client and its         *)
(* transport agree on the configuration.                                   *)
(*                                                                         *)
(* Each rests on an inductive invariant of its own over those of           *)
(* ClientPlacesProofs: what an opt-out has revoked (RevokedInv), what has  *)
(* been accounted for (AccountInv), who closes (CloserInv), who            *)
(* reconfigures (SetterInv).                                               *)
(***************************************************************************)
EXTENDS ClientPlacesProofs

-----------------------------------------------------------------------------
(* The invariants                                                          *)

HistType ==
    /\ mine \in [Callers -> SUBSET Events]
    /\ taken \cup dropped \cup discarded \subseteq Events
    /\ revoked \cup silenced \cup cutOff \subseteq Events

Accounted == taken \cup delivered \cup dropped \cup discarded

(* A request that returned is accounted for; a caller's latest write is, up*)
(* to what it, or its pool, has yet to hand over, or it raises.            *)
Settled(c) ==
    \/ pc[c] = "raised"
    \/ erred[c]
    \/ \A e \in mine[c] :
           \/ e \in Accounted \cup Range(todo[c])
           \/ call[c] \in Writing /\ e \in body[c]
           \/ \E w \in Workers : owner[w] = c /\ e \in body[w]

AccountInv ==
    /\ \A t \in Threads : pc[t] = "sent" => body[t] \subseteq Accounted
    /\ \A c \in Callers : Settled(c)

RevokedInv ==
    /\ optedIn => revoked = {}
    /\ delivered \cap revoked = {}
    /\ \A t \in Threads : pc[t] \in {"path", "post", "wait"} => body[t] \cap revoked = {}

-----------------------------------------------------------------------------
(* What an opt-out has revoked                                             *)

(* At first nothing is revoked.                                            *)
LEMMA RevokedInit == Init => RevokedInv
BY DEF Init, RevokedInv

\* Thread t sets off, if it does, with nothing that was revoked.
Clears(t) ==
    /\ UNCHANGED <<optedIn, revoked, delivered>>
    /\ \A u \in Threads \ {t} : pc'[u] = pc[u] /\ body'[u] = body[u]
    /\ \/ optedIn
       \/ pc'[t] \notin {"path", "post", "wait"}
       \/ body'[t] = {}
       \/ pc[t] \in {"path", "post", "wait"} /\ body'[t] = body[t]

(* So nobody does.                                                         *)
LEMMA ClearsStep ==
    ASSUME RevokedInv, NEW t \in Threads, Clears(t)
    PROVE  RevokedInv'
BY DEF RevokedInv, Clears

(* What an opt-out revokes is in line and in no request past the gate.     *)
LEMMA OptsOutRevokes ==
    ASSUME ShapeInv, PlaceInv, RevokedInv, NEW c \in Callers, OptsOut(c)
    PROVE  RevokedInv'
<1>1. /\ ~optedIn' /\ delivered' = delivered
      /\ \A t \in Threads : pc'[t] = pc[t] /\ body'[t] = body[t]
  BY DEF OptsOut, Calls, Step, ShapeInv, LedgerType
<1>2. revoked' = Range(line) \ UNION {body[t] : t \in {u \in Threads : PastGate(u)}}
  BY DEF OptsOut
<1>3. \A t \in Threads : PastGate(t) => body[t] \cap revoked' = {}
  BY <1>2
<1>4. delivered \cap revoked' = {}
  BY <1>2, <1>3 DEF PlaceInv, PastGate
<1> QED
  BY <1>1, <1>3, <1>4 DEF RevokedInv, PastGate

-----------------------------------------------------------------------------
(* What has been accounted for                                             *)

(* At first nobody has written.                                            *)
LEMMA AccountInit == Init => AccountInv
<1> SUFFICES ASSUME Init PROVE AccountInv
  OBVIOUS
<1>1. \A c \in Callers : mine[c] = {}
  BY DEF Init
<1>2. \A t \in Threads : pc[t] # "sent"
  BY DEF Init
<1> QED
  BY <1>1, <1>2 DEF AccountInv, Settled

\* What a caller has yet to hand over itself.
Hands(c) == Range(todo[c]) \cup (IF call[c] \in Writing THEN body[c] ELSE {})

\* Caller c raises, or begins or forgets a write, or hands over no more
\* than is accounted for.
Accounts(c) ==
    /\ owner' = owner
    /\ \A d \in Callers \ {c} : erred'[d] = erred[d] /\ mine'[d] = mine[d]
    /\ \A t \in Threads \ {c} : /\ pc'[t] = pc[t] /\ call'[t] = call[t]
                                /\ todo'[t] = todo[t] /\ body'[t] = body[t]
    /\ Accounted \subseteq Accounted'
    /\ pc'[c] = "sent" => body'[c] \subseteq Accounted'
    /\ \/ pc'[c] = "raised"
       \/ mine'[c] \subseteq Accounted' \cup Hands(c)'
       \/ /\ mine'[c] = mine[c] /\ erred'[c] = erred[c] /\ pc[c] # "raised"
          /\ Hands(c) \subseteq Accounted' \cup Hands(c)'

(* Then its write is settled, and the others' stay so.                     *)
LEMMA AccountsStep ==
    ASSUME AccountInv, NEW c \in Callers, Accounts(c)
    PROVE  AccountInv'
<1> c \in Threads
  BY DEF Threads
<1>1. \A t \in Threads : pc'[t] = "sent" => body'[t] \subseteq Accounted'
  BY DEF AccountInv, Accounts
<1>2. \A w \in Workers \ {c} : body'[w] = body[w] /\ owner'[w] = owner[w]
  BY DEF Accounts, Threads
<1>3. c \notin Workers
  BY ClientAssumption
<1>4. Settled(c)'
  <2>1. CASE pc'[c] = "raised"
    BY <2>1 DEF Settled
  <2>2. CASE mine'[c] \subseteq Accounted' \cup Hands(c)'
    BY <2>2 DEF Settled, Hands
  <2>3. CASE /\ mine'[c] = mine[c] /\ erred'[c] = erred[c] /\ pc[c] # "raised"
             /\ Hands(c) \subseteq Accounted' \cup Hands(c)'
    <3>1. CASE erred[c]
      BY <2>3, <3>1 DEF Settled
    <3>2. ASSUME NEW e \in mine[c], ~erred[c]
          PROVE  \/ e \in Accounted' \cup Hands(c)'
                 \/ \E w \in Workers : owner'[w] = c /\ e \in body'[w]
      <4>1. \/ e \in Accounted \cup Hands(c)
            \/ \E w \in Workers : owner[w] = c /\ e \in body[w]
        BY <2>3, <3>2 DEF AccountInv, Settled, Hands
      <4> QED
        BY <1>2, <1>3, <2>3, <4>1 DEF Accounts
    <3> QED
      BY <2>3, <3>1, <3>2 DEF Settled, Hands
  <2> QED
    BY <2>1, <2>2, <2>3 DEF Accounts
<1>5. ASSUME NEW d \in Callers \ {c}
      PROVE  Settled(d)'
  <2>1. /\ d \in Threads /\ pc'[d] = pc[d] /\ call'[d] = call[d] /\ todo'[d] = todo[d]
        /\ body'[d] = body[d] /\ mine'[d] = mine[d] /\ erred'[d] = erred[d]
    BY DEF Accounts, Threads
  <2>2. Accounted \subseteq Accounted'
    BY DEF Accounts
  <2> QED
    BY <1>2, <1>3, <2>1, <2>2 DEF AccountInv, Settled
<1> QED
  BY <1>1, <1>4, <1>5 DEF AccountInv

(* A request goes on: what its thread is to hand over stays with it.       *)
LEMMA RequestAccounts ==
    ASSUME ShapeInv, AccountInv, NEW t \in Threads, NEW p \in Sending,
           pc[t] \in Sending, pc' = [pc EXCEPT ![t] = p],
           UNCHANGED <<call, todo, body, owner, erred, mine>>,
           Accounted \subseteq Accounted', p = "sent" => body[t] \subseteq Accounted'
    PROVE  AccountInv'
<1>1. pc'[t] = p /\ \A u \in Threads \ {t} : pc'[u] = pc[u]
  BY DEF ShapeInv, LedgerType
<1>2. \A u \in Threads : pc'[u] = "sent" => body'[u] \subseteq Accounted'
  BY <1>1 DEF AccountInv
<1>3. ASSUME NEW c \in Callers
      PROVE  Settled(c)'
  <2>1. pc[c] = "raised" => pc'[c] = "raised"
    BY <1>1 DEF Sending, Threads
  <2> QED
    BY <2>1 DEF AccountInv, Settled
<1> QED
  BY <1>2, <1>3 DEF AccountInv

(* A worker's request counts for the caller that owns the worker.          *)
LEMMA TakesAccounts ==
    ASSUME ShapeInv, PlaceInv, AccountInv, NEW c \in Callers, NEW w \in Workers, WorkerTakes(w, c)
    PROVE  AccountInv'
<1> DEFINE e == Head(todo[c])
<1>1. /\ c \in Threads /\ w \in Threads /\ c # w /\ todo[c] # <<>> /\ owner[w] = None
      /\ owner'[w] = c /\ \A x \in Workers \ {w} : owner'[x] = owner[x]
      /\ pc'[w] = "sendGate"
      /\ \A t \in Threads \ {w} : pc'[t] = pc[t] /\ call'[t] = call[t] /\ body'[t] = body[t]
      /\ \A t \in Threads \ {c} : todo'[t] = todo[t]
      /\ todo'[c] = Tail(todo[c]) /\ body'[w] = {e}
      /\ UNCHANGED <<erred, mine, taken, delivered, dropped, discarded>>
  <2>1. c \in Threads /\ w \in Threads /\ c # w /\ pc[w] = "unused"
    BY ClientAssumption DEF WorkerTakes, Step, Threads
  <2>2. owner[w] = None
    BY <2>1 DEF ShapeInv
  <2> QED
    BY <2>1, <2>2 DEF WorkerTakes, Step, ShapeInv, LedgerType, history
<1>2. Range(Tail(todo[c])) = Range(todo[c]) \ {e}
  BY <1>1, TailOne DEF PlaceInv
<1> HIDE DEF e
<1>3. Accounted' = Accounted
  BY <1>1 DEF Accounted
<1>4. \A t \in Threads : pc'[t] = "sent" => body'[t] \subseteq Accounted'
  BY <1>1, <1>3 DEF AccountInv
<1>5. ASSUME NEW d \in Callers
      PROVE  Settled(d)'
  <2>1. /\ d \in Threads /\ d # w /\ d # None
    BY ClientAssumption DEF Threads
  <2>2. /\ pc'[d] = pc[d] /\ call'[d] = call[d] /\ body'[d] = body[d]
        /\ erred'[d] = erred[d] /\ mine'[d] = mine[d]
    BY <1>1, <2>1
  <2>3. \A x \in Workers : owner[x] = d => x # w /\ owner'[x] = d /\ body'[x] = body[x]
    BY <1>1, <2>1 DEF Threads
  <2>4. Range(todo[d]) \subseteq Range(todo'[d]) \cup (IF d = c THEN {e} ELSE {})
    BY <1>1, <1>2, <2>1
  <2>5. d = c => \E x \in Workers : owner'[x] = d /\ e \in body'[x]
    BY <1>1
  <2> QED
    BY <1>3, <2>2, <2>3, <2>4, <2>5 DEF AccountInv, Settled
<1> QED
  BY <1>4, <1>5 DEF AccountInv

(* A worker ends with its request accounted for, or its caller will raise. *)
LEMMA EndsAccounts ==
    ASSUME ShapeInv, AccountInv, NEW w \in Workers, WorkerEnds(w)
    PROVE  AccountInv'
<1> DEFINE c == owner[w]
<1>1. /\ w \in Threads /\ pc[w] \in {"sent", "failed"} /\ pc'[w] = "unused"
      /\ \A x \in Workers \ {w} : owner'[x] = owner[x]
      /\ \A t \in Threads \ {w} : pc'[t] = pc[t] /\ call'[t] = call[t] /\ body'[t] = body[t]
      /\ UNCHANGED <<todo, mine, taken, delivered, dropped, discarded>>
  BY DEF WorkerEnds, Step, ShapeInv, LedgerType, Threads, history
<1>2. c \in Callers
  BY <1>1, ClientAssumption DEF ShapeInv, LedgerType
<1>3. /\ \A d \in Callers \ {c} : erred'[d] = erred[d]
      /\ pc[w] = "failed" => erred'[c]
      /\ erred[c] => erred'[c]
  <2>1. CASE pc[w] = "sent"
    BY <2>1 DEF WorkerEnds, Step
  <2>2. CASE pc[w] = "failed"
    <3>1. erred' = [erred EXCEPT ![c] = TRUE]
      BY <2>2 DEF WorkerEnds, Step
    <3>2. erred \in [Callers -> BOOLEAN]
      BY DEF ShapeInv, LedgerType
    <3> HIDE DEF c
    <3>3. erred'[c] /\ \A d \in Callers \ {c} : erred'[d] = erred[d]
      BY <1>2, <3>1, <3>2
    <3> QED
      BY <3>3
  <2> QED
    BY <1>1, <2>1, <2>2
<1>4. Accounted' = Accounted
  BY <1>1 DEF Accounted
<1>5. pc[w] = "sent" => body[w] \subseteq Accounted
  BY <1>1 DEF AccountInv
<1> HIDE DEF c
<1>6. \A t \in Threads : pc'[t] = "sent" => body'[t] \subseteq Accounted'
  BY <1>1, <1>4 DEF AccountInv
<1>7. ASSUME NEW d \in Callers
      PROVE  Settled(d)'
  <2>1. d \in Threads /\ d # w
    BY ClientAssumption DEF Threads
  <2>2. /\ pc'[d] = pc[d] /\ call'[d] = call[d] /\ body'[d] = body[d]
        /\ todo'[d] = todo[d] /\ mine'[d] = mine[d]
    BY <1>1, <2>1
  <2>3. erred[d] => erred'[d]
    BY <1>3
  <2>4. CASE pc[w] = "failed" /\ d = c
    BY <1>3, <2>4 DEF Settled
  <2>5. CASE pc[w] = "sent" \/ d # c
    <3>1. \A x \in Workers : owner[x] = d =>
              \/ body[x] \subseteq Accounted
              \/ owner'[x] = d /\ body'[x] = body[x]
      BY <1>1, <1>5, <2>5 DEF c, Threads
    <3> QED
      BY <1>4, <2>2, <2>3, <3>1 DEF AccountInv, Settled
  <2> QED
    BY <1>1, <2>4, <2>5
<1> QED
  BY <1>6, <1>7 DEF AccountInv


(* No step delivers what an opt-out has revoked.                           *)
LEMMA RevokedNext ==
    ASSUME ShapeInv, PlaceInv, RevokedInv, Next
    PROVE  RevokedInv'
<1>1. ASSUME NEW c \in Callers, WriteOrRead(c)
      PROVE  RevokedInv'
  <2> c \in Threads
    BY DEF Threads
  <2>1. CASE WriteBegins(c)
    <3>1. Clears(c)
      BY <2>1 DEF WriteBegins, Calls, Step, Writes, Numbers, Clears, state, history,
         ShapeInv, LedgerType
    <3> QED
      BY <3>1, ClearsStep
  <2>2. CASE ReadBegins(c)
    <3>1. Clears(c)
      BY <2>2 DEF ReadBegins, Calls, Step, Clears, state, history,
         ShapeInv, LedgerType
    <3> QED
      BY <3>1, ClearsStep
  <2>3. CASE AssertsOpen(c)
    <3>1. Clears(c)
      BY <2>3 DEF AssertsOpen, Ends, Step, Clears, state, history,
         ShapeInv, LedgerType, Fits, Sending
    <3> QED
      BY <3>1, ClearsStep
  <2>4. CASE PassesGate(c)
    <3>1. Clears(c)
      BY <2>4 DEF PassesGate, Step, Clears, state, history,
         ShapeInv, LedgerType, Fits, Sending, IsOptedIn
    <3> QED
      BY <3>1, ClearsStep
  <2>5. CASE DiscardsQuietly(c)
    <3>1. Clears(c)
      BY <2>5 DEF DiscardsQuietly, Ends, Step, Clears, state, history,
         ShapeInv, LedgerType
    <3> QED
      BY <3>1, ClearsStep
  <2>6. CASE Enqueues(c)
    <3>1. Clears(c)
      BY <2>6 DEF Enqueues, MovesOn, Ends, Step, Clears, state, history,
         ShapeInv, LedgerType, Fits, Sending
    <3> QED
      BY <3>1, ClearsStep
  <2>7. CASE TurnedAway(c)
    <3>1. Clears(c)
      BY <2>7 DEF TurnedAway, MovesOn, Ends, Step, Clears, state, history,
         ShapeInv, LedgerType, Fits, Sending
    <3> QED
      BY <3>1, ClearsStep
  <2>8. CASE Returns(c)
    <3>1. Clears(c)
      BY <2>8 DEF Returns, Ends, Step, Clears, state, history,
         ShapeInv, LedgerType
    <3> QED
      BY <3>1, ClearsStep
  <2>9. CASE ServesDefault(c)
    <3>1. Clears(c)
      BY <2>9 DEF ServesDefault, Ends, Step, Clears, state, history,
         ShapeInv, LedgerType
    <3> QED
      BY <3>1, ClearsStep
  <2>10. CASE Raises(c)
    <3>1. Clears(c)
      BY <2>10 DEF Raises, Ends, Step, Clears, state, history,
         ShapeInv, LedgerType
    <3> QED
      BY <3>1, ClearsStep
  <2>11. CASE Catches(c)
    <3>1. Clears(c)
      BY <2>11 DEF Catches, Step, Clears, state, history,
         ShapeInv, LedgerType
    <3> QED
      BY <3>1, ClearsStep
  <2> QED
    BY <1>1, <2>1, <2>2, <2>3, <2>4, <2>5, <2>6, <2>7, <2>8, <2>9, <2>10, <2>11 DEF WriteOrRead
<1>2. ASSUME NEW c \in Callers, Batch(c)
      PROVE  RevokedInv'
  <2> c \in Threads
    BY DEF Threads
  <2>1. CASE BatchBegins(c)
    <3>1. Clears(c)
      BY <2>1 DEF BatchBegins, Calls, Step, Writes, Numbers, Clears, state, history,
         ShapeInv, LedgerType
    <3> QED
      BY <3>1, ClearsStep
  <2>2. CASE SendsNext(c)
    <3>1. Clears(c)
      BY <2>2 DEF SendsNext, Ends, Step, Clears, state, history,
         ShapeInv, LedgerType
    <3> QED
      BY <3>1, ClearsStep
  <2>3. CASE PoolEnds(c)
    <3>1. Clears(c)
      BY <2>3 DEF PoolEnds, AllSettled, Step, Clears, state, history,
         ShapeInv, LedgerType
    <3> QED
      BY <3>1, ClearsStep
  <2>4. ASSUME NEW w \in Workers, WorkerTakes(w, c)
        PROVE  RevokedInv'
    <3>1. Clears(w)
      BY <2>4 DEF WorkerTakes, Step, Clears, state, history, ShapeInv, LedgerType, Threads
    <3> w \in Threads
      BY DEF Threads
    <3> QED
      BY <3>1, ClearsStep
  <2> QED
    BY <1>2, <2>1, <2>2, <2>3, <2>4 DEF Batch
<1>3. ASSUME NEW c \in Callers, Drain(c)
      PROVE  RevokedInv'
  <2> c \in Threads
    BY DEF Threads
  <2>1. CASE FlushBegins(c)
    <3>1. Clears(c)
      BY <2>1 DEF FlushBegins, Calls, Step, Clears, state, history,
         ShapeInv, LedgerType
    <3> QED
      BY <3>1, ClearsStep
  <2>2. CASE DrainLocks(c)
    <3>1. Clears(c)
      BY <2>2 DEF DrainLocks, Step, Clears, state, history,
         ShapeInv, LedgerType
    <3> QED
      BY <3>1, ClearsStep
  <2>3. CASE DrainTakes(c)
    <3>1. Clears(c)
      BY <2>3 DEF DrainTakes, Step, First, Clears, state, history,
         ShapeInv, LedgerType
    <3> QED
      BY <3>1, ClearsStep
  <2>4. CASE DrainSent(c)
    <3>1. Clears(c)
      BY <2>4 DEF DrainSent, Drains, Again, Step, LeaveLine, Clears, state, history,
         ShapeInv, LedgerType
    <3> QED
      BY <3>1, ClearsStep
  <2>5. CASE DrainRetries(c)
    <3>1. Clears(c)
      BY <2>5 DEF DrainRetries, Drains, Again, Step, Clears, state, history,
         ShapeInv, LedgerType
    <3> QED
      BY <3>1, ClearsStep
  <2>6. CASE DrainDrops(c)
    <3>1. Clears(c)
      BY <2>6 DEF DrainDrops, Drains, Again, Step, LeaveLine, Clears, state, history,
         ShapeInv, LedgerType
    <3> QED
      BY <3>1, ClearsStep
  <2>7. CASE DrainEnds(c)
    <3>1. Clears(c)
      BY <2>7 DEF DrainEnds, Unlocks, Ends, Step, Clears, state, history,
         ShapeInv, LedgerType
    <3> QED
      BY <3>1, ClearsStep
  <2>8. CASE DrainStops(c)
    <3>1. Clears(c)
      BY <2>8 DEF DrainStops, Drains, Unlocks, Ends, Step, Clears, state, history,
         ShapeInv, LedgerType
    <3> QED
      BY <3>1, ClearsStep
  <2>9. CASE DrainRaises(c)
    <3>1. Clears(c)
      BY <2>9 DEF DrainRaises, Drains, Ends, Step, Clears, state, history,
         ShapeInv, LedgerType
    <3> QED
      BY <3>1, ClearsStep
  <2> QED
    BY <1>3, <2>1, <2>2, <2>3, <2>4, <2>5, <2>6, <2>7, <2>8, <2>9 DEF Drain
<1>4. ASSUME NEW c \in Callers, Close(c)
      PROVE  RevokedInv'
  <2> c \in Threads
    BY DEF Threads
  <2>1. CASE CloseBegins(c)
    <3>1. Clears(c)
      BY <2>1 DEF CloseBegins, Calls, Step, Clears, state, history,
         ShapeInv, LedgerType
    <3> QED
      BY <3>1, ClearsStep
  <2>2. CASE StopsBuffer(c)
    <3>1. Clears(c)
      BY <2>2 DEF StopsBuffer, Step, Clears, state, history,
         ShapeInv, LedgerType
    <3> QED
      BY <3>1, ClearsStep
  <2>3. CASE Marks(c)
    <3>1. Clears(c)
      BY <2>3 DEF Marks, Step, Clears, state, history,
         ShapeInv, LedgerType
    <3> QED
      BY <3>1, ClearsStep
  <2>4. CASE Releases(c)
    <3>1. Clears(c)
      BY <2>4 DEF Releases, Ends, Step, Clears, state, history,
         ShapeInv, LedgerType
    <3> QED
      BY <3>1, ClearsStep
  <2> QED
    BY <1>4, <2>1, <2>2, <2>3, <2>4 DEF Close
<1>5. ASSUME NEW c \in Callers, Settings(c)
      PROVE  RevokedInv'
  <2> c \in Threads
    BY DEF Threads
  <2>1. CASE OptsOut(c)
    BY <2>1, OptsOutRevokes
  <2>2. CASE OptsIn(c)
    <3>1. revoked' = {}
      BY <2>2 DEF OptsIn
    <3> QED
      BY <3>1 DEF RevokedInv
  <2>3. CASE SetConfigBegins(c)
    <3>1. Clears(c)
      BY <2>3 DEF SetConfigBegins, Calls, Step, Clears, state, history,
         ShapeInv, LedgerType
    <3> QED
      BY <3>1, ClearsStep
  <2>4. CASE Assigns(c)
    <3>1. Clears(c)
      BY <2>4 DEF Assigns, Step, Clears, state, history,
         ShapeInv, LedgerType
    <3> QED
      BY <3>1, ClearsStep
  <2>5. CASE PassesOn(c)
    <3>1. Clears(c)
      BY <2>5 DEF PassesOn, Step, Clears, state, history,
         ShapeInv, LedgerType
    <3> QED
      BY <3>1, ClearsStep
  <2>6. CASE Applies(c)
    <3>1. Clears(c)
      BY <2>6 DEF Applies, Ends, Step, Clears, state, history,
         ShapeInv, LedgerType
    <3> QED
      BY <3>1, ClearsStep
  <2> QED
    BY <1>5, <2>1, <2>2, <2>3, <2>4, <2>5, <2>6 DEF Settings
<1>6. ASSUME NEW t \in Threads, Send(t)
      PROVE  RevokedInv'
  <2>1. CASE PassesSendGate(t)
    <3>1. Clears(t)
      BY <2>1 DEF PassesSendGate, Step, Clears, state, history,
         ShapeInv, LedgerType, SendIsOpen, IsOptedIn
    <3> QED
      BY <3>1, ClearsStep
  <2>2. CASE Discards(t)
    <3>1. Clears(t)
      BY <2>2 DEF Discards, Step, Clears, state, history,
         ShapeInv, LedgerType
    <3> QED
      BY <3>1, ClearsStep
  <2>3. CASE ReadsPath(t)
    <3>1. Clears(t)
      BY <2>3 DEF ReadsPath, Step, Clears, state, history,
         ShapeInv, LedgerType
    <3> QED
      BY <3>1, ClearsStep
  <2>4. CASE Begins(t)
    <3>1. Clears(t)
      BY <2>4 DEF Begins, Posts, Step, Clears, state, history,
         ShapeInv, LedgerType
    <3> QED
      BY <3>1, ClearsStep
  <2>5. CASE Unserialisable(t)
    <3>1. Clears(t)
      BY <2>5 DEF Unserialisable, Posts, Step, Clears, state, history,
         ShapeInv, LedgerType
    <3> QED
      BY <3>1, ClearsStep
  <2>6. CASE Refused(t)
    <3>1. Clears(t)
      BY <2>6 DEF Refused, Posts, Step, Clears, state, history,
         ShapeInv, LedgerType
    <3> QED
      BY <3>1, ClearsStep
  <2>7. CASE CannotStart(t)
    <3>1. Clears(t)
      BY <2>7 DEF CannotStart, Posts, Step, Clears, state, history,
         ShapeInv, LedgerType
    <3> QED
      BY <3>1, ClearsStep
  <2>8. CASE CannotEncode(t)
    <3>1. Clears(t)
      BY <2>8 DEF CannotEncode, Posts, Step, Clears, state, history,
         ShapeInv, LedgerType
    <3> QED
      BY <3>1, ClearsStep
  <2>9. CASE Accepted(t)
    <3>1. /\ pc[t] = "wait" /\ delivered' = delivered \cup body[t]
          /\ UNCHANGED <<optedIn, revoked, body>>
          /\ pc'[t] = "sent" /\ \A u \in Threads \ {t} : pc'[u] = pc[u]
      BY <2>9 DEF Accepted, Step, state, ShapeInv, LedgerType
    <3> QED
      BY <3>1 DEF RevokedInv
  <2>10. CASE Rejected(t)
    <3>1. Clears(t)
      BY <2>10 DEF Rejected, Step, Clears, state, history,
         ShapeInv, LedgerType
    <3> QED
      BY <3>1, ClearsStep
  <2> QED
    BY <1>6, <2>1, <2>2, <2>3, <2>4, <2>5, <2>6, <2>7, <2>8, <2>9, <2>10 DEF Send
<1>7. ASSUME NEW w \in Workers, WorkerEnds(w)
      PROVE  RevokedInv'
  <2>1. Clears(w)
    BY <1>7 DEF WorkerEnds, Step, Clears, state, history, ShapeInv, LedgerType, Threads
  <2> w \in Threads
    BY DEF Threads
  <2> QED
    BY <2>1, ClearsStep
<1>8. CASE Quiescent
  BY <1>8 DEF Quiescent, vars, state, local, history, RevokedInv
<1> QED
  BY <1>1, <1>2, <1>3, <1>4, <1>5, <1>6, <1>7, <1>8 DEF Next

(* A sequence with something in it is its head and its tail.               *)
LEMMA HeadAndTail ==
    ASSUME NEW S, NEW s \in Seq(S), s # <<>>, IsInjective(s)
    PROVE  /\ Range(s) = {Head(s)} \cup Range(Tail(s))
           /\ Len(s) = 1 => Range(s) = {Head(s)}
<1>1. Range(s) = {Head(s)} \cup Range(Tail(s))
  BY TailOne
<1>2. Len(s) = 1 => DOMAIN s = {1} /\ Head(s) = s[1]
  BY LenProperties, HeadTailProperties
<1> QED
  BY <1>1, <1>2 DEF Range

(* Nothing is in the empty sequence.                                       *)
LEMMA NothingToHand == Range(<<>>) = {}
BY EmptySeq DEF Range

(* No step loses sight of a write.                                         *)
LEMMA AccountNext ==
    ASSUME ShapeInv, PlaceInv, HistType, AccountInv, Next
    PROVE  AccountInv'
<1>1. ASSUME NEW c \in Callers, WriteOrRead(c)
      PROVE  AccountInv'
  <2> c \in Threads
    BY DEF Threads
  <2>1. CASE WriteBegins(c)
    <3>1. /\ issued' = issued + 1 /\ issued' <= MaxEvents
          /\ mine' = [mine EXCEPT ![c] = (issued + 1)..issued']
          /\ todo' = [todo EXCEPT ![c] = Numbers(1)]
          /\ UNCHANGED <<owner, erred, taken, delivered, dropped, discarded, body>>
          /\ pc'[c] = "open"
          /\ \A t \in Threads \ {c} : pc'[t] = pc[t] /\ call'[t] = call[t]
      BY <2>1 DEF WriteBegins, Calls, Step, Writes, ShapeInv, LedgerType
    <3>2. issued \in Nat
      BY DEF ShapeInv, LedgerType
    <3>3. Range(Numbers(1)) = (issued + 1)..issued'
      BY <3>1, <3>2, NumbersFit
    <3>4. /\ todo'[c] = Numbers(1) /\ \A t \in Threads \ {c} : todo'[t] = todo[t]
          /\ mine'[c] = (issued + 1)..issued' /\ \A d \in Callers \ {c} : mine'[d] = mine[d]
      BY <3>1 DEF ShapeInv, LedgerType, HistType
    <3>5. Accounts(c)
      BY <3>1, <3>3, <3>4 DEF Accounts, Hands, Accounted
    <3> QED
      BY <3>5, AccountsStep
  <2>2. CASE ReadBegins(c)
    <3>1. Accounts(c)
      BY <2>2, NothingToHand DEF ReadBegins, Calls, Step, Accounts, Hands, Accounted,
         state, history, ShapeInv, LedgerType, Fits, Sending, Reads, Writing, Drainers
    <3> QED
      BY <3>1, AccountsStep
  <2>3. CASE AssertsOpen(c)
    <3>1. Accounts(c)
      BY <2>3, NothingToHand DEF AssertsOpen, Ends, Step, Accounts, Hands, Accounted,
         state, history, ShapeInv, LedgerType, Fits, Sending, Reads, Writing, Drainers
    <3> QED
      BY <3>1, AccountsStep
  <2>4. CASE PassesGate(c)
    <3>1. /\ pc[c] = "gate" /\ call' = call
          /\ UNCHANGED <<owner, erred, mine, taken, delivered, dropped, discarded>>
          /\ pc'[c] # "sent" /\ \A t \in Threads \ {c} : pc'[t] = pc[t]
          /\ \/ UNCHANGED <<todo, body>>
             \/ /\ todo' = [todo EXCEPT ![c] = <<>>]
                /\ body' = [body EXCEPT ![c] = Range(todo[c])]
      BY <2>4 DEF PassesGate, Step, history, ShapeInv, LedgerType
    <3>2. body[c] = {} /\ call[c] \in Writing
      BY <3>1 DEF ShapeInv, Fits, Sending
    <3>3. /\ \A t \in Threads \ {c} : todo'[t] = todo[t] /\ body'[t] = body[t]
          /\ \/ todo'[c] = todo[c] /\ body'[c] = body[c]
             \/ body'[c] = Range(todo[c])
      BY <3>1 DEF ShapeInv, LedgerType
    <3>4. Hands(c) \subseteq Hands(c)'
      BY <3>1, <3>2, <3>3 DEF Hands
    <3>5. Accounts(c)
      BY <3>1, <3>3, <3>4 DEF Accounts, Accounted
    <3> QED
      BY <3>5, AccountsStep
  <2>5. CASE DiscardsQuietly(c)
    <3>1. Accounts(c)
      BY <2>5, NothingToHand DEF DiscardsQuietly, Ends, Step, Accounts, Hands, Accounted,
         state, history, ShapeInv, LedgerType, Fits, Sending, Reads, Writing, Drainers
    <3> QED
      BY <3>1, AccountsStep
  <2>6. CASE Enqueues(c)
    <3>1. /\ pc[c] = "enqueue" /\ taken' = taken \cup {Head(todo[c])}
          /\ UNCHANGED <<owner, erred, mine, delivered, dropped, discarded>>
          /\ MovesOn(c)
      BY <2>6 DEF Enqueues, MovesOn, Ends, Step
    <3>2. body[c] = {} /\ todo[c] # <<>>
      BY <3>1 DEF ShapeInv, Fits, Sending
    <3>3. /\ Range(todo[c]) = {Head(todo[c])} \cup Range(Tail(todo[c]))
          /\ Len(todo[c]) = 1 => Range(todo[c]) = {Head(todo[c])}
      BY <3>2, HeadAndTail DEF PlaceInv
    <3>4. /\ \A t \in Threads \ {c} : /\ pc'[t] = pc[t] /\ call'[t] = call[t]
                                      /\ todo'[t] = todo[t] /\ body'[t] = body[t]
          /\ \/ pc'[c] = "idle" /\ Len(todo[c]) = 1
             \/ pc'[c] = "enqueue" /\ todo'[c] = Tail(todo[c])
      BY <3>1 DEF MovesOn, Ends, Step, ShapeInv, LedgerType
    <3>5. Hands(c) \subseteq Accounted' \cup Hands(c)'
      BY <3>1, <3>2, <3>3, <3>4 DEF Hands, Accounted
    <3>6. Accounts(c)
      BY <3>1, <3>4, <3>5 DEF Accounts, Accounted
    <3> QED
      BY <3>6, AccountsStep
  <2>7. CASE TurnedAway(c)
    <3>1. /\ pc[c] = "enqueue" /\ dropped' = dropped \cup {Head(todo[c])}
          /\ UNCHANGED <<owner, erred, mine, taken, delivered, discarded>>
          /\ MovesOn(c) \/ Ends(c, "enqueue", "raised")
      BY <2>7 DEF TurnedAway, MovesOn, Ends, Step
    <3>2. body[c] = {} /\ todo[c] # <<>>
      BY <3>1 DEF ShapeInv, Fits, Sending
    <3>3. /\ Range(todo[c]) = {Head(todo[c])} \cup Range(Tail(todo[c]))
          /\ Len(todo[c]) = 1 => Range(todo[c]) = {Head(todo[c])}
      BY <3>2, HeadAndTail DEF PlaceInv
    <3>4. /\ \A t \in Threads \ {c} : /\ pc'[t] = pc[t] /\ call'[t] = call[t]
                                      /\ todo'[t] = todo[t] /\ body'[t] = body[t]
          /\ \/ pc'[c] = "idle" /\ Len(todo[c]) = 1
             \/ pc'[c] = "enqueue" /\ todo'[c] = Tail(todo[c])
             \/ pc'[c] = "raised"
      BY <3>1 DEF MovesOn, Ends, Step, ShapeInv, LedgerType
    <3>5. pc'[c] # "raised" => Hands(c) \subseteq Accounted' \cup Hands(c)'
      BY <3>1, <3>2, <3>3, <3>4 DEF Hands, Accounted
    <3>6. Accounts(c)
      BY <3>1, <3>4, <3>5 DEF Accounts, Accounted
    <3> QED
      BY <3>6, AccountsStep
  <2>8. CASE Returns(c)
    <3>1. Accounts(c)
      BY <2>8, NothingToHand DEF Returns, Ends, Step, Accounts, Hands, Accounted,
         state, history, ShapeInv, LedgerType, Fits, Sending, Reads, Writing, Drainers,
         AccountInv, Settled
    <3> QED
      BY <3>1, AccountsStep
  <2>9. CASE ServesDefault(c)
    <3>1. Accounts(c)
      BY <2>9, NothingToHand DEF ServesDefault, Ends, Step, Accounts, Hands, Accounted,
         state, history, ShapeInv, LedgerType, Fits, Sending, Reads, Writing, Drainers
    <3> QED
      BY <3>1, AccountsStep
  <2>10. CASE Raises(c)
    <3>1. Accounts(c)
      BY <2>10, NothingToHand DEF Raises, Ends, Step, Accounts, Hands, Accounted,
         state, history, ShapeInv, LedgerType, Fits, Sending, Reads, Writing, Drainers
    <3> QED
      BY <3>1, AccountsStep
  <2>11. CASE Catches(c)
    <3>1. mine'[c] = {} /\ \A d \in Callers \ {c} : mine'[d] = mine[d]
      BY <2>11 DEF Catches, HistType
    <3>2. Accounts(c)
      BY <2>11, <3>1 DEF Catches, Step, Accounts, Accounted, ShapeInv, LedgerType
    <3> QED
      BY <3>2, AccountsStep
  <2> QED
    BY <1>1, <2>1, <2>2, <2>3, <2>4, <2>5, <2>6, <2>7, <2>8, <2>9, <2>10, <2>11 DEF WriteOrRead
<1>2. ASSUME NEW c \in Callers, Batch(c)
      PROVE  AccountInv'
  <2> c \in Threads
    BY DEF Threads
  <2>1. CASE BatchBegins(c)
    <3>1. PICK n \in 1..MaxEvents :
              /\ Writes(c, n)
              /\ UNCHANGED <<owner, erred>>
              /\ call' = [call EXCEPT ![c] = "track_batch"]
              /\ \E p \in {"open", "sendGate", "pool"} : pc' = [pc EXCEPT ![c] = p]
              /\ \/ todo' = [todo EXCEPT ![c] = Numbers(n)] /\ UNCHANGED body
                 \/ /\ todo' = [todo EXCEPT ![c] = Tail(Numbers(n))]
                    /\ body' = [body EXCEPT ![c] = {Head(Numbers(n))}]
      BY <2>1 DEF BatchBegins, Calls, Step
    <3>2. /\ issued' = issued + n /\ issued' <= MaxEvents
          /\ mine' = [mine EXCEPT ![c] = (issued + 1)..issued']
          /\ UNCHANGED <<owner, erred, taken, delivered, dropped, discarded>>
      BY <3>1 DEF Writes
    <3>3. issued \in Nat
      BY DEF ShapeInv, LedgerType
    <3>4. /\ Range(Numbers(n)) = (issued + 1)..issued'
          /\ Range(Tail(Numbers(n))) = (issued + 1)..issued' \ {Head(Numbers(n))}
      BY <3>2, <3>3, NumbersFit
    <3>5. /\ mine'[c] = (issued + 1)..issued' /\ \A d \in Callers \ {c} : mine'[d] = mine[d]
          /\ call'[c] = "track_batch" /\ pc'[c] # "sent"
          /\ \A t \in Threads \ {c} : /\ pc'[t] = pc[t] /\ call'[t] = call[t]
                                      /\ todo'[t] = todo[t] /\ body'[t] = body[t]
          /\ \/ todo'[c] = Numbers(n)
             \/ todo'[c] = Tail(Numbers(n)) /\ body'[c] = {Head(Numbers(n))}
      BY <3>1, <3>2 DEF ShapeInv, LedgerType, HistType
    <3>6. mine'[c] \subseteq Hands(c)'
      BY <3>4, <3>5 DEF Hands, Writing
    <3>7. Accounts(c)
      BY <3>2, <3>5, <3>6 DEF Accounts, Accounted
    <3> QED
      BY <3>7, AccountsStep
  <2>2. CASE SendsNext(c)
    <3>1. pc[c] = "sent" /\ call[c] = "track_batch" /\ body[c] \subseteq Accounted
      BY <2>2 DEF SendsNext, Ends, Step, AccountInv, Threads
    <3>2. UNCHANGED <<owner, erred, mine, taken, delivered, dropped, discarded>>
      BY <2>2 DEF SendsNext, Ends, history
    <3>3. /\ \A t \in Threads \ {c} : /\ pc'[t] = pc[t] /\ call'[t] = call[t]
                                      /\ todo'[t] = todo[t] /\ body'[t] = body[t]
          /\ pc'[c] # "sent"
          /\ \/ todo[c] = <<>>
             \/ /\ todo[c] # <<>> /\ call'[c] = call[c]
                /\ todo'[c] = Tail(todo[c]) /\ body'[c] = {Head(todo[c])}
      BY <2>2 DEF SendsNext, Ends, Step, ShapeInv, LedgerType
    <3>4. todo[c] # <<>> => Range(todo[c]) = {Head(todo[c])} \cup Range(Tail(todo[c]))
      BY HeadAndTail DEF PlaceInv
    <3>5. Hands(c) \subseteq Accounted' \cup Hands(c)'
      BY <3>1, <3>2, <3>3, <3>4, NothingToHand DEF Hands, Accounted, Writing
    <3>6. Accounts(c)
      BY <3>1, <3>2, <3>3, <3>5 DEF Accounts, Accounted
    <3> QED
      BY <3>6, AccountsStep
  <2>3. CASE PoolEnds(c)
    <3>1. /\ pc[c] = "pool" /\ todo[c] = <<>> /\ body[c] = {}
          /\ UNCHANGED <<owner, mine, todo, body, taken, delivered, dropped, discarded>>
          /\ \A t \in Threads \ {c} : pc'[t] = pc[t] /\ call'[t] = call[t]
          /\ pc'[c] = IF erred[c] THEN "raised" ELSE "idle"
      BY <2>3 DEF PoolEnds, AllSettled, Step, history, ShapeInv, LedgerType, Fits, Sending
    <3>2. erred' = [erred EXCEPT ![c] = FALSE] /\ erred \in [Callers -> BOOLEAN]
      BY <2>3 DEF PoolEnds, ShapeInv, LedgerType
    <3>3. erred'[c] = FALSE /\ \A d \in Callers \ {c} : erred'[d] = erred[d]
      BY <3>2
    <3>4. erred[c] \/ erred[c] = FALSE
      BY <3>2
    <3>5. Hands(c) = {}
      BY <3>1, NothingToHand DEF Hands
    <3>6. Accounts(c)
      BY <3>1, <3>3, <3>4, <3>5 DEF Accounts, Accounted
    <3> QED
      BY <3>6, AccountsStep
  <2>4. ASSUME NEW w \in Workers, WorkerTakes(w, c)
        PROVE  AccountInv'
    BY <2>4, TakesAccounts
  <2> QED
    BY <1>2, <2>1, <2>2, <2>3, <2>4 DEF Batch
<1>3. ASSUME NEW c \in Callers, Drain(c)
      PROVE  AccountInv'
  <2> c \in Threads
    BY DEF Threads
  <2>1. CASE FlushBegins(c)
    <3>1. Accounts(c)
      BY <2>1, NothingToHand DEF FlushBegins, Calls, Step, Accounts, Hands, Accounted,
         state, history, ShapeInv, LedgerType, Fits, Sending, Reads, Writing, Drainers
    <3> QED
      BY <3>1, AccountsStep
  <2>2. CASE DrainLocks(c)
    <3>1. Accounts(c)
      BY <2>2, NothingToHand DEF DrainLocks, Step, Accounts, Hands, Accounted,
         state, history, ShapeInv, LedgerType, Fits, Sending, Reads, Writing, Drainers
    <3> QED
      BY <3>1, AccountsStep
  <2>3. CASE DrainTakes(c)
    <3>1. /\ pc[c] = "drain" /\ pc' = [pc EXCEPT ![c] = "sendGate"]
          /\ UNCHANGED <<call, todo, owner, erred, mine, taken, delivered, dropped, discarded>>
          /\ \E b : body' = [body EXCEPT ![c] = b]
      BY <2>3 DEF DrainTakes, Step, history
    <3>2. /\ pc'[c] = "sendGate" /\ \A t \in Threads \ {c} : pc'[t] = pc[t]
          /\ \A t \in Threads \ {c} : body'[t] = body[t]
      BY <3>1 DEF ShapeInv, LedgerType
    <3>3. call[c] \notin Writing
      BY <3>1 DEF ShapeInv, Fits, Drainers, Writing
    <3>4. Hands(c)' = Hands(c)
      BY <3>1, <3>3 DEF Hands
    <3>5. Accounts(c)
      BY <3>1, <3>2, <3>4 DEF Accounts, Accounted, ShapeInv, Fits
    <3> QED
      BY <3>5, AccountsStep
  <2>4. CASE DrainSent(c)
    <3>1. Accounts(c)
      BY <2>4, NothingToHand DEF DrainSent, Drains, Again, Step, LeaveLine, Accounts,
         Hands, Accounted,
         state, history, ShapeInv, LedgerType, Fits, Sending, Reads, Writing, Drainers
    <3> QED
      BY <3>1, AccountsStep
  <2>5. CASE DrainRetries(c)
    <3>1. Accounts(c)
      BY <2>5, NothingToHand DEF DrainRetries, Drains, Again, Step, Accounts, Hands, Accounted,
         state, history, ShapeInv, LedgerType, Fits, Sending, Reads, Writing, Drainers
    <3> QED
      BY <3>1, AccountsStep
  <2>6. CASE DrainDrops(c)
    <3>1. Accounts(c)
      BY <2>6, NothingToHand DEF DrainDrops, Drains, Again, Step, LeaveLine, Accounts,
         Hands, Accounted,
         state, history, ShapeInv, LedgerType, Fits, Sending, Reads, Writing, Drainers
    <3> QED
      BY <3>1, AccountsStep
  <2>7. CASE DrainEnds(c)
    <3>1. Accounts(c)
      BY <2>7, NothingToHand DEF DrainEnds, Unlocks, Ends, Step, Accounts, Hands, Accounted,
         state, history, ShapeInv, LedgerType, Fits, Sending, Reads, Writing, Drainers
    <3> QED
      BY <3>1, AccountsStep
  <2>8. CASE DrainStops(c)
    <3>1. Accounts(c)
      BY <2>8, NothingToHand DEF DrainStops, Drains, Unlocks, Ends, Step, Accounts, Hands,
         Accounted,
         state, history, ShapeInv, LedgerType, Fits, Sending, Reads, Writing, Drainers
    <3> QED
      BY <3>1, AccountsStep
  <2>9. CASE DrainRaises(c)
    <3>1. Accounts(c)
      BY <2>9, NothingToHand DEF DrainRaises, Drains, Ends, Step, Accounts, Hands, Accounted,
         state, history, ShapeInv, LedgerType, Fits, Sending, Reads, Writing, Drainers
    <3> QED
      BY <3>1, AccountsStep
  <2> QED
    BY <1>3, <2>1, <2>2, <2>3, <2>4, <2>5, <2>6, <2>7, <2>8, <2>9 DEF Drain
<1>4. ASSUME NEW c \in Callers, Close(c)
      PROVE  AccountInv'
  <2> c \in Threads
    BY DEF Threads
  <2>1. CASE CloseBegins(c)
    <3>1. Accounts(c)
      BY <2>1, NothingToHand DEF CloseBegins, Calls, Step, Accounts, Hands, Accounted,
         state, history, ShapeInv, LedgerType, Fits, Sending, Reads, Writing, Drainers
    <3> QED
      BY <3>1, AccountsStep
  <2>2. CASE StopsBuffer(c)
    <3>1. Accounts(c)
      BY <2>2, NothingToHand DEF StopsBuffer, Step, Accounts, Hands, Accounted,
         state, history, ShapeInv, LedgerType, Fits, Sending, Reads, Writing, Drainers
    <3> QED
      BY <3>1, AccountsStep
  <2>3. CASE Marks(c)
    <3>1. Accounts(c)
      BY <2>3, NothingToHand DEF Marks, Step, Accounts, Hands, Accounted,
         state, history, ShapeInv, LedgerType, Fits, Sending, Reads, Writing, Drainers
    <3> QED
      BY <3>1, AccountsStep
  <2>4. CASE Releases(c)
    <3>1. Accounts(c)
      BY <2>4, NothingToHand DEF Releases, Ends, Step, Accounts, Hands, Accounted,
         state, history, ShapeInv, LedgerType, Fits, Sending, Reads, Writing, Drainers
    <3> QED
      BY <3>1, AccountsStep
  <2> QED
    BY <1>4, <2>1, <2>2, <2>3, <2>4 DEF Close
<1>5. ASSUME NEW c \in Callers, Settings(c)
      PROVE  AccountInv'
  <2> c \in Threads
    BY DEF Threads
  <2>1. CASE OptsOut(c)
    <3>1. Accounts(c)
      BY <2>1, NothingToHand DEF OptsOut, Calls, Step, Accounts, Hands, Accounted,
         state, history, ShapeInv, LedgerType, Fits, Sending, Reads, Writing, Drainers
    <3> QED
      BY <3>1, AccountsStep
  <2>2. CASE OptsIn(c)
    <3>1. Accounts(c)
      BY <2>2, NothingToHand DEF OptsIn, Calls, Step, Accounts, Hands, Accounted,
         state, history, ShapeInv, LedgerType, Fits, Sending, Reads, Writing, Drainers
    <3> QED
      BY <3>1, AccountsStep
  <2>3. CASE SetConfigBegins(c)
    <3>1. Accounts(c)
      BY <2>3, NothingToHand DEF SetConfigBegins, Calls, Step, Accounts, Hands, Accounted,
         state, history, ShapeInv, LedgerType, Fits, Sending, Reads, Writing, Drainers
    <3> QED
      BY <3>1, AccountsStep
  <2>4. CASE Assigns(c)
    <3>1. Accounts(c)
      BY <2>4, NothingToHand DEF Assigns, Step, Accounts, Hands, Accounted,
         state, history, ShapeInv, LedgerType, Fits, Sending, Reads, Writing, Drainers
    <3> QED
      BY <3>1, AccountsStep
  <2>5. CASE PassesOn(c)
    <3>1. Accounts(c)
      BY <2>5, NothingToHand DEF PassesOn, Step, Accounts, Hands, Accounted,
         state, history, ShapeInv, LedgerType, Fits, Sending, Reads, Writing, Drainers
    <3> QED
      BY <3>1, AccountsStep
  <2>6. CASE Applies(c)
    <3>1. Accounts(c)
      BY <2>6, NothingToHand DEF Applies, Ends, Step, Accounts, Hands, Accounted,
         state, history, ShapeInv, LedgerType, Fits, Sending, Reads, Writing, Drainers
    <3> QED
      BY <3>1, AccountsStep
  <2> QED
    BY <1>5, <2>1, <2>2, <2>3, <2>4, <2>5, <2>6 DEF Settings
<1>6. ASSUME NEW t \in Threads, Send(t)
      PROVE  AccountInv'
  <2>1. CASE PassesSendGate(t)
    <3>1. /\ pc[t] \in Sending /\ pc' = [pc EXCEPT ![t] = "path"] /\ "path" \in Sending
          /\ UNCHANGED <<call, todo, body, owner, erred, mine>>
          /\ Accounted \subseteq Accounted'
      BY <2>1 DEF PassesSendGate, Step, Sending, Accounted, history
    <3> QED
      BY <3>1, RequestAccounts
  <2>2. CASE Discards(t)
    <3>1. /\ pc[t] \in Sending /\ pc' = [pc EXCEPT ![t] = "sent"] /\ "sent" \in Sending
          /\ UNCHANGED <<call, todo, body, owner, erred, mine>>
          /\ Accounted \subseteq Accounted'
          /\ body[t] \subseteq Accounted'
      BY <2>2 DEF Discards, Step, Sending, Accounted, history
    <3> QED
      BY <3>1, RequestAccounts
  <2>3. CASE ReadsPath(t)
    <3>1. /\ pc[t] \in Sending /\ pc' = [pc EXCEPT ![t] = "post"] /\ "post" \in Sending
          /\ UNCHANGED <<call, todo, body, owner, erred, mine>>
          /\ Accounted \subseteq Accounted'
      BY <2>3 DEF ReadsPath, Step, Sending, Accounted, history
    <3> QED
      BY <3>1, RequestAccounts
  <2>4. CASE Begins(t)
    <3>1. /\ pc[t] \in Sending /\ pc' = [pc EXCEPT ![t] = "wait"] /\ "wait" \in Sending
          /\ UNCHANGED <<call, todo, body, owner, erred, mine>>
          /\ Accounted \subseteq Accounted'
      BY <2>4 DEF Begins, Posts, Step, Sending, Accounted, history
    <3> QED
      BY <3>1, RequestAccounts
  <2>5. CASE Unserialisable(t)
    <3>1. /\ pc[t] \in Sending /\ pc' = [pc EXCEPT ![t] = "failed"] /\ "failed" \in Sending
          /\ UNCHANGED <<call, todo, body, owner, erred, mine>>
          /\ Accounted \subseteq Accounted'
      BY <2>5 DEF Unserialisable, Posts, Step, Sending, Accounted, history
    <3> QED
      BY <3>1, RequestAccounts
  <2>6. CASE Refused(t)
    <3>1. /\ pc[t] \in Sending /\ pc' = [pc EXCEPT ![t] = "failed"] /\ "failed" \in Sending
          /\ UNCHANGED <<call, todo, body, owner, erred, mine>>
          /\ Accounted \subseteq Accounted'
      BY <2>6 DEF Refused, Posts, Step, Sending, Accounted, history
    <3> QED
      BY <3>1, RequestAccounts
  <2>7. CASE CannotStart(t)
    <3>1. /\ pc[t] \in Sending /\ pc' = [pc EXCEPT ![t] = "failed"] /\ "failed" \in Sending
          /\ UNCHANGED <<call, todo, body, owner, erred, mine>>
          /\ Accounted \subseteq Accounted'
      BY <2>7 DEF CannotStart, Posts, Step, Sending, Accounted, history
    <3> QED
      BY <3>1, RequestAccounts
  <2>8. CASE CannotEncode(t)
    <3>1. /\ pc[t] \in Sending /\ pc' = [pc EXCEPT ![t] = "failed"] /\ "failed" \in Sending
          /\ UNCHANGED <<call, todo, body, owner, erred, mine>>
          /\ Accounted \subseteq Accounted'
      BY <2>8 DEF CannotEncode, Posts, Step, Sending, Accounted, history
    <3> QED
      BY <3>1, RequestAccounts
  <2>9. CASE Accepted(t)
    <3>1. /\ pc[t] \in Sending /\ pc' = [pc EXCEPT ![t] = "sent"] /\ "sent" \in Sending
          /\ UNCHANGED <<call, todo, body, owner, erred, mine>>
          /\ Accounted \subseteq Accounted'
          /\ body[t] \subseteq Accounted'
      BY <2>9 DEF Accepted, Step, Sending, Accounted, history
    <3> QED
      BY <3>1, RequestAccounts
  <2>10. CASE Rejected(t)
    <3>1. /\ pc[t] \in Sending /\ pc' = [pc EXCEPT ![t] = "failed"] /\ "failed" \in Sending
          /\ UNCHANGED <<call, todo, body, owner, erred, mine>>
          /\ Accounted \subseteq Accounted'
      BY <2>10 DEF Rejected, Step, Sending, Accounted, history
    <3> QED
      BY <3>1, RequestAccounts
  <2> QED
    BY <1>6, <2>1, <2>2, <2>3, <2>4, <2>5, <2>6, <2>7, <2>8, <2>9, <2>10 DEF Send
<1>7. ASSUME NEW w \in Workers, WorkerEnds(w)
      PROVE  AccountInv'
  BY <1>7, EndsAccounts
<1>8. CASE Quiescent
  BY <1>8 DEF Quiescent, vars, local, history, AccountInv, Settled, Accounted
<1> QED
  BY <1>1, <1>2, <1>3, <1>4, <1>5, <1>6, <1>7, <1>8 DEF Next

-----------------------------------------------------------------------------
(* The histories are of events                                             *)

(* At first the histories are empty.                                       *)
LEMMA HistInit == Init => HistType
<1> SUFFICES ASSUME Init PROVE HistType
  OBVIOUS
<1>1. {} \in SUBSET Events
  OBVIOUS
<1>2. mine \in [Callers -> SUBSET Events]
  BY <1>1 DEF Init
<1> QED
  BY <1>2 DEF Init, HistType

(* A write numbers its events up to MaxEvents.                             *)
LEMMA WritesAreEvents ==
    ASSUME ShapeInv, HistType, NEW c \in Callers, NEW n \in Nat, Writes(c, n)
    PROVE  HistType'
<1>1. issued \in Nat /\ issued' = issued + n /\ issued' <= MaxEvents
  BY DEF Writes, ShapeInv, LedgerType
<1>2. (issued + 1)..issued' \in SUBSET Events
  BY <1>1, ClientAssumption DEF Events
<1> QED
  BY <1>2 DEF Writes, HistType

(* No step puts anything else into a history.                              *)
LEMMA HistNext ==
    ASSUME ShapeInv, HistType, Next
    PROVE  HistType'
<1>1. ASSUME NEW c \in Callers, WriteOrRead(c)
      PROVE  HistType'
  <2> c \in Threads
    BY DEF Threads
  <2>1. CASE WriteBegins(c)
    <3>1. PICK n \in Nat : Writes(c, n)
      BY <2>1 DEF WriteBegins
    <3> QED
      BY <3>1, WritesAreEvents
  <2>2. CASE ReadBegins(c)
    BY <2>2 DEF ReadBegins, Calls, Step, HistType, history
  <2>3. CASE AssertsOpen(c)
    BY <2>3 DEF AssertsOpen, Ends, Step, HistType, history
  <2>4. CASE PassesGate(c)
    BY <2>4 DEF PassesGate, Step, HistType, history
  <2>5. CASE DiscardsQuietly(c)
    <3>1. Range(todo[c]) \subseteq Events
      BY CallerTypes, RangeOfSeq
    <3> QED
      BY <2>5, <3>1 DEF DiscardsQuietly, HistType
  <2>6. CASE Enqueues(c)
    <3>1. pc[c] = "enqueue"
      BY <2>6 DEF Enqueues, MovesOn, Ends, Step
    <3>2. Head(todo[c]) \in Events
      BY <3>1, TodoIsMore DEF ShapeInv, Fits
    <3> QED
      BY <2>6, <3>2 DEF Enqueues, HistType
  <2>7. CASE TurnedAway(c)
    <3>1. pc[c] = "enqueue"
      BY <2>7 DEF TurnedAway, MovesOn, Ends, Step
    <3>2. Head(todo[c]) \in Events
      BY <3>1, TodoIsMore DEF ShapeInv, Fits
    <3> QED
      BY <2>7, <3>2 DEF TurnedAway, HistType
  <2>8. CASE Returns(c)
    BY <2>8 DEF Returns, Ends, Step, HistType, history
  <2>9. CASE ServesDefault(c)
    BY <2>9 DEF ServesDefault, Ends, Step, HistType, history
  <2>10. CASE Raises(c)
    BY <2>10 DEF Raises, Ends, Step, HistType, history
  <2>11. CASE Catches(c)
    BY <2>11 DEF Catches, Step, HistType, history
  <2> QED
    BY <1>1, <2>1, <2>2, <2>3, <2>4, <2>5, <2>6, <2>7, <2>8, <2>9, <2>10, <2>11 DEF WriteOrRead
<1>2. ASSUME NEW c \in Callers, Batch(c)
      PROVE  HistType'
  <2> c \in Threads
    BY DEF Threads
  <2>1. CASE BatchBegins(c)
    <3>1. PICK n \in Nat : Writes(c, n)
      BY <2>1 DEF BatchBegins
    <3> QED
      BY <3>1, WritesAreEvents
  <2>2. CASE SendsNext(c)
    BY <2>2 DEF SendsNext, Ends, Step, HistType, history
  <2>3. CASE PoolEnds(c)
    BY <2>3 DEF PoolEnds, AllSettled, Step, HistType, history
  <2>4. ASSUME NEW w \in Workers, WorkerTakes(w, c)
        PROVE  HistType'
    BY <2>4 DEF WorkerTakes, HistType, history
  <2> QED
    BY <1>2, <2>1, <2>2, <2>3, <2>4 DEF Batch
<1>3. ASSUME NEW c \in Callers, Drain(c)
      PROVE  HistType'
  <2> c \in Threads
    BY DEF Threads
  <2>1. CASE FlushBegins(c)
    BY <2>1 DEF FlushBegins, Calls, Step, HistType, history
  <2>2. CASE DrainLocks(c)
    BY <2>2 DEF DrainLocks, Step, HistType, history
  <2>3. CASE DrainTakes(c)
    BY <2>3 DEF DrainTakes, Step, First, HistType, history
  <2>4. CASE DrainSent(c)
    BY <2>4 DEF DrainSent, Drains, Again, Step, LeaveLine, HistType, history
  <2>5. CASE DrainRetries(c)
    BY <2>5 DEF DrainRetries, Drains, Again, Step, HistType, history
  <2>6. CASE DrainDrops(c)
    <3>1. body[c] \subseteq Events
      BY CallerTypes
    <3> QED
      BY <2>6, <3>1 DEF DrainDrops, HistType
  <2>7. CASE DrainEnds(c)
    BY <2>7 DEF DrainEnds, Unlocks, Ends, Step, HistType, history
  <2>8. CASE DrainStops(c)
    BY <2>8 DEF DrainStops, Drains, Unlocks, Ends, Step, HistType, history
  <2>9. CASE DrainRaises(c)
    BY <2>9 DEF DrainRaises, Drains, Ends, Step, HistType, history
  <2> QED
    BY <1>3, <2>1, <2>2, <2>3, <2>4, <2>5, <2>6, <2>7, <2>8, <2>9 DEF Drain
<1>4. ASSUME NEW c \in Callers, Close(c)
      PROVE  HistType'
  <2> c \in Threads
    BY DEF Threads
  <2>1. CASE CloseBegins(c)
    BY <2>1 DEF CloseBegins, Calls, Step, HistType, history
  <2>2. CASE StopsBuffer(c)
    BY <2>2 DEF StopsBuffer, Step, HistType, history
  <2>3. CASE Marks(c)
    BY <2>3 DEF Marks, Step, HistType, history
  <2>4. CASE Releases(c)
    BY <2>4 DEF Releases, Ends, Step, HistType, history
  <2> QED
    BY <1>4, <2>1, <2>2, <2>3, <2>4 DEF Close
<1>5. ASSUME NEW c \in Callers, Settings(c)
      PROVE  HistType'
  <2> c \in Threads
    BY DEF Threads
  <2>1. CASE OptsOut(c)
    <3>1. Range(line) \subseteq Events
      BY CallerTypes, RangeOfSeq
    <3> QED
      BY <2>1, <3>1 DEF OptsOut, HistType
  <2>2. CASE OptsIn(c)
    BY <2>2 DEF OptsIn, Calls, Step, HistType, history
  <2>3. CASE SetConfigBegins(c)
    BY <2>3 DEF SetConfigBegins, Calls, Step, HistType, history
  <2>4. CASE Assigns(c)
    BY <2>4 DEF Assigns, Step, HistType, history
  <2>5. CASE PassesOn(c)
    BY <2>5 DEF PassesOn, Step, HistType, history
  <2>6. CASE Applies(c)
    BY <2>6 DEF Applies, Ends, Step, HistType, history
  <2> QED
    BY <1>5, <2>1, <2>2, <2>3, <2>4, <2>5, <2>6 DEF Settings
<1>6. ASSUME NEW t \in Threads, Send(t)
      PROVE  HistType'
  <2>1. CASE PassesSendGate(t)
    BY <2>1 DEF PassesSendGate, Step, HistType, history
  <2>2. CASE Discards(t)
    <3>1. body[t] \subseteq Events
      BY DEF ShapeInv, LedgerType
    <3> QED
      BY <2>2, <3>1 DEF Discards, HistType
  <2>3. CASE ReadsPath(t)
    BY <2>3 DEF ReadsPath, Step, HistType, history
  <2>4. CASE Begins(t)
    BY <2>4 DEF Begins, Posts, Step, HistType, history
  <2>5. CASE Unserialisable(t)
    BY <2>5 DEF Unserialisable, Posts, Step, HistType, history
  <2>6. CASE Refused(t)
    BY <2>6 DEF Refused, Posts, Step, HistType, history
  <2>7. CASE CannotStart(t)
    BY <2>7 DEF CannotStart, Posts, Step, HistType, history
  <2>8. CASE CannotEncode(t)
    BY <2>8 DEF CannotEncode, Posts, Step, HistType, history
  <2>9. CASE Accepted(t)
    BY <2>9 DEF Accepted, Step, HistType, history
  <2>10. CASE Rejected(t)
    BY <2>10 DEF Rejected, Step, HistType, history
  <2> QED
    BY <1>6, <2>1, <2>2, <2>3, <2>4, <2>5, <2>6, <2>7, <2>8, <2>9, <2>10 DEF Send
<1>7. ASSUME NEW w \in Workers, WorkerEnds(w)
      PROVE  HistType'
  BY <1>7 DEF WorkerEnds, HistType, history
<1>8. CASE Quiescent
  BY <1>8 DEF Quiescent, vars, history, HistType
<1> QED
  BY <1>1, <1>2, <1>3, <1>4, <1>5, <1>6, <1>7, <1>8 DEF Next

-----------------------------------------------------------------------------
(* One closer, one setter                                                  *)

(* A caller is in no method that is not among its roles.                   *)
Permitted == \A c \in Callers : call[c] \in {"none"} \cup Roles[c]

(* A caller that stays in its method, or leaves it, needs no role.         *)
LEMMA LeavesPermitted ==
    ASSUME Permitted, NEW c \in Callers, call' = call \/ call' = [call EXCEPT ![c] = "none"],
           call \in [Threads -> {"none", "send"} \cup Methods]
    PROVE  Permitted'
<1>1. CASE call' = call
  BY <1>1 DEF Permitted
<1>2. CASE call' = [call EXCEPT ![c] = "none"]
  <2>1. \A d \in Callers : call'[d] = call[d] \/ call'[d] = "none"
    BY <1>2 DEF Threads
  <2> QED
    BY <2>1 DEF Permitted
<1> QED
  BY <1>1, <1>2

(* No step brings a caller into a method that is not among its roles.      *)
LEMMA PermittedNext ==
    ASSUME ShapeInv, Permitted, Next
    PROVE  Permitted'
<1>1. ASSUME NEW c \in Callers, WriteOrRead(c)
      PROVE  Permitted'
  <2> c \in Threads
    BY DEF Threads
  <2>1. CASE WriteBegins(c)
    BY <2>1 DEF WriteBegins, Calls, Step, Writes, Numbers, Permitted, ShapeInv, LedgerType
  <2>2. CASE ReadBegins(c)
    BY <2>2 DEF ReadBegins, Calls, Step, Permitted, ShapeInv, LedgerType
  <2>3. CASE AssertsOpen(c)
    <3>1. call' = call \/ call' = [call EXCEPT ![c] = "none"]
      BY <2>3 DEF AssertsOpen, Ends, Step
    <3> QED
      BY <3>1, LeavesPermitted DEF ShapeInv, LedgerType
  <2>4. CASE PassesGate(c)
    BY <2>4 DEF PassesGate, Step, Permitted, ShapeInv, LedgerType
  <2>5. CASE DiscardsQuietly(c)
    BY <2>5 DEF DiscardsQuietly, Ends, Step, Permitted, ShapeInv, LedgerType
  <2>6. CASE Enqueues(c)
    <3>1. call' = call \/ call' = [call EXCEPT ![c] = "none"]
      BY <2>6 DEF Enqueues, MovesOn, Ends, Step
    <3> QED
      BY <3>1, LeavesPermitted DEF ShapeInv, LedgerType
  <2>7. CASE TurnedAway(c)
    <3>1. call' = call \/ call' = [call EXCEPT ![c] = "none"]
      BY <2>7 DEF TurnedAway, MovesOn, Ends, Step
    <3> QED
      BY <3>1, LeavesPermitted DEF ShapeInv, LedgerType
  <2>8. CASE Returns(c)
    BY <2>8 DEF Returns, Ends, Step, Permitted, ShapeInv, LedgerType
  <2>9. CASE ServesDefault(c)
    BY <2>9 DEF ServesDefault, Ends, Step, Permitted, ShapeInv, LedgerType
  <2>10. CASE Raises(c)
    BY <2>10 DEF Raises, Ends, Step, Permitted, ShapeInv, LedgerType
  <2>11. CASE Catches(c)
    BY <2>11 DEF Catches, Step, Permitted, ShapeInv, LedgerType
  <2> QED
    BY <1>1, <2>1, <2>2, <2>3, <2>4, <2>5, <2>6, <2>7, <2>8, <2>9, <2>10, <2>11 DEF WriteOrRead
<1>2. ASSUME NEW c \in Callers, Batch(c)
      PROVE  Permitted'
  <2> c \in Threads
    BY DEF Threads
  <2>1. CASE BatchBegins(c)
    <3>1. /\ "track_batch" \in Roles[c]
          /\ call' = [call EXCEPT ![c] = "track_batch"]
      BY <2>1 DEF BatchBegins, Calls, Step
    <3> QED
      BY <3>1 DEF Permitted, ShapeInv, LedgerType
  <2>2. CASE SendsNext(c)
    <3>1. call' = call \/ call' = [call EXCEPT ![c] = "none"]
      BY <2>2 DEF SendsNext, Ends, Step
    <3> QED
      BY <3>1, LeavesPermitted DEF ShapeInv, LedgerType
  <2>3. CASE PoolEnds(c)
    BY <2>3 DEF PoolEnds, AllSettled, Step, Permitted, ShapeInv, LedgerType
  <2>4. ASSUME NEW w \in Workers, WorkerTakes(w, c)
        PROVE  Permitted'
    BY <2>4, ClientAssumption DEF WorkerTakes, Permitted, ShapeInv, LedgerType, Threads
  <2> QED
    BY <1>2, <2>1, <2>2, <2>3, <2>4 DEF Batch
<1>3. ASSUME NEW c \in Callers, Drain(c)
      PROVE  Permitted'
  <2> c \in Threads
    BY DEF Threads
  <2>1. CASE FlushBegins(c)
    BY <2>1 DEF FlushBegins, Calls, Step, Permitted, ShapeInv, LedgerType
  <2>2. CASE DrainLocks(c)
    BY <2>2 DEF DrainLocks, Step, Permitted, ShapeInv, LedgerType
  <2>3. CASE DrainTakes(c)
    BY <2>3 DEF DrainTakes, Step, First, Permitted, ShapeInv, LedgerType
  <2>4. CASE DrainSent(c)
    BY <2>4 DEF DrainSent, Drains, Again, Step, LeaveLine, Permitted, ShapeInv, LedgerType
  <2>5. CASE DrainRetries(c)
    BY <2>5 DEF DrainRetries, Drains, Again, Step, Permitted, ShapeInv, LedgerType
  <2>6. CASE DrainDrops(c)
    BY <2>6 DEF DrainDrops, Drains, Again, Step, LeaveLine, Permitted, ShapeInv, LedgerType
  <2>7. CASE DrainEnds(c)
    <3>1. call' = call \/ call' = [call EXCEPT ![c] = "none"]
      BY <2>7 DEF DrainEnds, Unlocks, Ends, Step
    <3> QED
      BY <3>1, LeavesPermitted DEF ShapeInv, LedgerType
  <2>8. CASE DrainStops(c)
    <3>1. call' = call \/ call' = [call EXCEPT ![c] = "none"]
      BY <2>8 DEF DrainStops, Unlocks, Ends, Step
    <3> QED
      BY <3>1, LeavesPermitted DEF ShapeInv, LedgerType
  <2>9. CASE DrainRaises(c)
    BY <2>9 DEF DrainRaises, Drains, Ends, Step, Permitted, ShapeInv, LedgerType
  <2> QED
    BY <1>3, <2>1, <2>2, <2>3, <2>4, <2>5, <2>6, <2>7, <2>8, <2>9 DEF Drain
<1>4. ASSUME NEW c \in Callers, Close(c)
      PROVE  Permitted'
  <2> c \in Threads
    BY DEF Threads
  <2>1. CASE CloseBegins(c)
    BY <2>1 DEF CloseBegins, Calls, Step, Permitted, ShapeInv, LedgerType
  <2>2. CASE StopsBuffer(c)
    BY <2>2 DEF StopsBuffer, Step, Permitted, ShapeInv, LedgerType
  <2>3. CASE Marks(c)
    BY <2>3 DEF Marks, Step, Permitted, ShapeInv, LedgerType
  <2>4. CASE Releases(c)
    BY <2>4 DEF Releases, Ends, Step, Permitted, ShapeInv, LedgerType
  <2> QED
    BY <1>4, <2>1, <2>2, <2>3, <2>4 DEF Close
<1>5. ASSUME NEW c \in Callers, Settings(c)
      PROVE  Permitted'
  <2> c \in Threads
    BY DEF Threads
  <2>1. CASE OptsOut(c)
    BY <2>1 DEF OptsOut, Calls, Step, Permitted, ShapeInv, LedgerType
  <2>2. CASE OptsIn(c)
    BY <2>2 DEF OptsIn, Calls, Step, Permitted, ShapeInv, LedgerType
  <2>3. CASE SetConfigBegins(c)
    BY <2>3 DEF SetConfigBegins, Calls, Step, Permitted, ShapeInv, LedgerType
  <2>4. CASE Assigns(c)
    BY <2>4 DEF Assigns, Step, Permitted, ShapeInv, LedgerType
  <2>5. CASE PassesOn(c)
    BY <2>5 DEF PassesOn, Step, Permitted, ShapeInv, LedgerType
  <2>6. CASE Applies(c)
    BY <2>6 DEF Applies, Ends, Step, Permitted, ShapeInv, LedgerType
  <2> QED
    BY <1>5, <2>1, <2>2, <2>3, <2>4, <2>5, <2>6 DEF Settings
<1>6. ASSUME NEW t \in Threads, Send(t)
      PROVE  Permitted'
  <2>1. CASE PassesSendGate(t)
    BY <2>1 DEF PassesSendGate, Step, Permitted, ShapeInv, LedgerType, Threads
  <2>2. CASE Discards(t)
    BY <2>2 DEF Discards, Step, Permitted, ShapeInv, LedgerType, Threads
  <2>3. CASE ReadsPath(t)
    BY <2>3 DEF ReadsPath, Step, Permitted, ShapeInv, LedgerType, Threads
  <2>4. CASE Begins(t)
    BY <2>4 DEF Begins, Posts, Step, Permitted, ShapeInv, LedgerType, Threads
  <2>5. CASE Unserialisable(t)
    BY <2>5 DEF Unserialisable, Posts, Step, Permitted, ShapeInv, LedgerType, Threads
  <2>6. CASE Refused(t)
    BY <2>6 DEF Refused, Posts, Step, Permitted, ShapeInv, LedgerType, Threads
  <2>7. CASE CannotStart(t)
    BY <2>7 DEF CannotStart, Posts, Step, Permitted, ShapeInv, LedgerType, Threads
  <2>8. CASE CannotEncode(t)
    BY <2>8 DEF CannotEncode, Posts, Step, Permitted, ShapeInv, LedgerType, Threads
  <2>9. CASE Accepted(t)
    BY <2>9 DEF Accepted, Step, Permitted, ShapeInv, LedgerType, Threads
  <2>10. CASE Rejected(t)
    BY <2>10 DEF Rejected, Step, Permitted, ShapeInv, LedgerType, Threads
  <2> QED
    BY <1>6, <2>1, <2>2, <2>3, <2>4, <2>5, <2>6, <2>7, <2>8, <2>9, <2>10 DEF Send
<1>7. ASSUME NEW w \in Workers, WorkerEnds(w)
      PROVE  Permitted'
  BY <1>7, ClientAssumption DEF WorkerEnds, Permitted, ShapeInv, LedgerType, Threads
<1>8. CASE Quiescent
  BY <1>8 DEF Quiescent, vars, local, Permitted
<1> QED
  BY <1>1, <1>2, <1>3, <1>4, <1>5, <1>6, <1>7, <1>8 DEF Next

\* At most one of the callers ever closes, or ever reconfigures, the client.
OneCloser == \A c, d \in Callers : "close" \in Roles[c] \cap Roles[d] => c = d
OneSetter == \A c, d \in Callers : "set_config" \in Roles[c] \cap Roles[d] => c = d

\* Thread t is in close() and drains, or waits to.
Closing(t) == call[t] = "close" /\ pc[t] \in Sending \cup {"drainLock", "drain"}

(* While a close() drains, the client does not count as closed.            *)
CloserInv ==
    /\ \A t \in Threads : Closing(t) => ~closed
    /\ cutOff = {}

\* Thread t does not begin to drain in the close() of a closed client.
NoNewCloser(t) ==
    /\ UNCHANGED <<closed, cutOff>>
    /\ \A u \in Threads \ {t} : pc'[u] = pc[u] /\ call'[u] = call[u]
    /\ Closing(t)' => Closing(t) \/ ~closed

(* The others drain as they did.                                           *)
LEMMA NoNewCloserStep ==
    ASSUME CloserInv, NEW t \in Threads, NoNewCloser(t)
    PROVE  CloserInv'
<1>1. \A u \in Threads \ {t} : Closing(u)' => Closing(u)
  BY DEF NoNewCloser, Closing
<1> QED
  BY <1>1 DEF CloserInv, NoNewCloser

(* With one closer no step marks the client as closed while a close()      *)
(* drains, or discards what it drains.                                     *)
LEMMA CloserNext ==
    ASSUME OneCloser, ShapeInv, Permitted, CloserInv, Next
    PROVE  CloserInv'
<1>1. ASSUME NEW c \in Callers, WriteOrRead(c)
      PROVE  CloserInv'
  <2> c \in Threads
    BY DEF Threads
  <2>1. CASE WriteBegins(c)
    <3>1. NoNewCloser(c)
      BY <2>1 DEF WriteBegins, Calls, Step, Writes, Numbers, NoNewCloser, Closing, state, history,
         ShapeInv, LedgerType, Fits, Sending, Drainers, Reads, Writing
    <3> QED
      BY <3>1, NoNewCloserStep
  <2>2. CASE ReadBegins(c)
    <3>1. NoNewCloser(c)
      BY <2>2 DEF ReadBegins, Calls, Step, NoNewCloser, Closing, state, history,
         ShapeInv, LedgerType, Fits, Sending, Drainers, Reads, Writing
    <3> QED
      BY <3>1, NoNewCloserStep
  <2>3. CASE AssertsOpen(c)
    <3>1. NoNewCloser(c)
      BY <2>3 DEF AssertsOpen, Ends, Step, NoNewCloser, Closing, state, history,
         ShapeInv, LedgerType, Fits, Sending, Drainers, Reads, Writing
    <3> QED
      BY <3>1, NoNewCloserStep
  <2>4. CASE PassesGate(c)
    <3>1. NoNewCloser(c)
      BY <2>4 DEF PassesGate, Step, NoNewCloser, Closing, state, history,
         ShapeInv, LedgerType, Fits, Sending, Drainers, Reads, Writing
    <3> QED
      BY <3>1, NoNewCloserStep
  <2>5. CASE DiscardsQuietly(c)
    <3>1. NoNewCloser(c)
      BY <2>5 DEF DiscardsQuietly, Ends, Step, NoNewCloser, Closing, state, history,
         ShapeInv, LedgerType, Fits, Sending, Drainers, Reads, Writing
    <3> QED
      BY <3>1, NoNewCloserStep
  <2>6. CASE Enqueues(c)
    <3>1. NoNewCloser(c)
      BY <2>6 DEF Enqueues, MovesOn, Ends, Step, NoNewCloser, Closing, state, history,
         ShapeInv, LedgerType, Fits, Sending, Drainers, Reads, Writing
    <3> QED
      BY <3>1, NoNewCloserStep
  <2>7. CASE TurnedAway(c)
    <3>1. NoNewCloser(c)
      BY <2>7 DEF TurnedAway, MovesOn, Ends, Step, NoNewCloser, Closing, state, history,
         ShapeInv, LedgerType, Fits, Sending, Drainers, Reads, Writing
    <3> QED
      BY <3>1, NoNewCloserStep
  <2>8. CASE Returns(c)
    <3>1. NoNewCloser(c)
      BY <2>8 DEF Returns, Ends, Step, NoNewCloser, Closing, state, history,
         ShapeInv, LedgerType, Fits, Sending, Drainers, Reads, Writing
    <3> QED
      BY <3>1, NoNewCloserStep
  <2>9. CASE ServesDefault(c)
    <3>1. NoNewCloser(c)
      BY <2>9 DEF ServesDefault, Ends, Step, NoNewCloser, Closing, state, history,
         ShapeInv, LedgerType, Fits, Sending, Drainers, Reads, Writing
    <3> QED
      BY <3>1, NoNewCloserStep
  <2>10. CASE Raises(c)
    <3>1. NoNewCloser(c)
      BY <2>10 DEF Raises, Ends, Step, NoNewCloser, Closing, state, history,
         ShapeInv, LedgerType, Fits, Sending, Drainers, Reads, Writing
    <3> QED
      BY <3>1, NoNewCloserStep
  <2>11. CASE Catches(c)
    <3>1. NoNewCloser(c)
      BY <2>11 DEF Catches, Step, NoNewCloser, Closing, state, history,
         ShapeInv, LedgerType, Fits, Sending, Drainers, Reads, Writing
    <3> QED
      BY <3>1, NoNewCloserStep
  <2> QED
    BY <1>1, <2>1, <2>2, <2>3, <2>4, <2>5, <2>6, <2>7, <2>8, <2>9, <2>10, <2>11 DEF WriteOrRead
<1>2. ASSUME NEW c \in Callers, Batch(c)
      PROVE  CloserInv'
  <2> c \in Threads
    BY DEF Threads
  <2>1. CASE BatchBegins(c)
    <3>1. NoNewCloser(c)
      BY <2>1 DEF BatchBegins, Calls, Step, Writes, Numbers, NoNewCloser, Closing, state, history,
         ShapeInv, LedgerType, Fits, Sending, Drainers, Reads, Writing
    <3> QED
      BY <3>1, NoNewCloserStep
  <2>2. CASE SendsNext(c)
    <3>1. NoNewCloser(c)
      BY <2>2 DEF SendsNext, Ends, Step, NoNewCloser, Closing, state, history,
         ShapeInv, LedgerType, Fits, Sending, Drainers, Reads, Writing
    <3> QED
      BY <3>1, NoNewCloserStep
  <2>3. CASE PoolEnds(c)
    <3>1. NoNewCloser(c)
      BY <2>3 DEF PoolEnds, AllSettled, Step, NoNewCloser, Closing, state, history,
         ShapeInv, LedgerType, Fits, Sending, Drainers, Reads, Writing
    <3> QED
      BY <3>1, NoNewCloserStep
  <2>4. ASSUME NEW w \in Workers, WorkerTakes(w, c)
        PROVE  CloserInv'
    <3> w \in Threads
      BY DEF Threads
    <3>1. NoNewCloser(w)
      BY <2>4 DEF WorkerTakes, Step, NoNewCloser, Closing, state, history, ShapeInv, LedgerType
    <3> QED
      BY <3>1, NoNewCloserStep
  <2> QED
    BY <1>2, <2>1, <2>2, <2>3, <2>4 DEF Batch
<1>3. ASSUME NEW c \in Callers, Drain(c)
      PROVE  CloserInv'
  <2> c \in Threads
    BY DEF Threads
  <2>1. CASE FlushBegins(c)
    <3>1. NoNewCloser(c)
      BY <2>1 DEF FlushBegins, Calls, Step, NoNewCloser, Closing, state, history,
         ShapeInv, LedgerType, Fits, Sending, Drainers, Reads, Writing
    <3> QED
      BY <3>1, NoNewCloserStep
  <2>2. CASE DrainLocks(c)
    <3>1. NoNewCloser(c)
      BY <2>2 DEF DrainLocks, Step, NoNewCloser, Closing, state, history,
         ShapeInv, LedgerType, Fits, Sending, Drainers, Reads, Writing
    <3> QED
      BY <3>1, NoNewCloserStep
  <2>3. CASE DrainTakes(c)
    <3>1. NoNewCloser(c)
      BY <2>3 DEF DrainTakes, Step, First, NoNewCloser, Closing, state, history,
         ShapeInv, LedgerType, Fits, Sending, Drainers, Reads, Writing
    <3> QED
      BY <3>1, NoNewCloserStep
  <2>4. CASE DrainSent(c)
    <3>1. NoNewCloser(c)
      BY <2>4 DEF DrainSent, Drains, Again, Step, LeaveLine, NoNewCloser, Closing, state, history,
         ShapeInv, LedgerType, Fits, Sending, Drainers, Reads, Writing
    <3> QED
      BY <3>1, NoNewCloserStep
  <2>5. CASE DrainRetries(c)
    <3>1. NoNewCloser(c)
      BY <2>5 DEF DrainRetries, Drains, Again, Step, NoNewCloser, Closing, state, history,
         ShapeInv, LedgerType, Fits, Sending, Drainers, Reads, Writing
    <3> QED
      BY <3>1, NoNewCloserStep
  <2>6. CASE DrainDrops(c)
    <3>1. NoNewCloser(c)
      BY <2>6 DEF DrainDrops, Drains, Again, Step, LeaveLine, NoNewCloser, Closing, state, history,
         ShapeInv, LedgerType, Fits, Sending, Drainers, Reads, Writing
    <3> QED
      BY <3>1, NoNewCloserStep
  <2>7. CASE DrainEnds(c)
    <3>1. NoNewCloser(c)
      BY <2>7 DEF DrainEnds, Unlocks, Ends, Step, NoNewCloser, Closing, state, history,
         ShapeInv, LedgerType, Fits, Sending, Drainers, Reads, Writing
    <3> QED
      BY <3>1, NoNewCloserStep
  <2>8. CASE DrainStops(c)
    <3>1. NoNewCloser(c)
      BY <2>8 DEF DrainStops, Drains, Unlocks, Ends, Step, NoNewCloser, Closing, state, history,
         ShapeInv, LedgerType, Fits, Sending, Drainers, Reads, Writing
    <3> QED
      BY <3>1, NoNewCloserStep
  <2>9. CASE DrainRaises(c)
    <3>1. NoNewCloser(c)
      BY <2>9 DEF DrainRaises, Drains, Ends, Step, NoNewCloser, Closing, state, history,
         ShapeInv, LedgerType, Fits, Sending, Drainers, Reads, Writing
    <3> QED
      BY <3>1, NoNewCloserStep
  <2> QED
    BY <1>3, <2>1, <2>2, <2>3, <2>4, <2>5, <2>6, <2>7, <2>8, <2>9 DEF Drain
<1>4. ASSUME NEW c \in Callers, Close(c)
      PROVE  CloserInv'
  <2> c \in Threads
    BY DEF Threads
  <2>1. CASE CloseBegins(c)
    <3>1. NoNewCloser(c)
      BY <2>1 DEF CloseBegins, Calls, Step, NoNewCloser, Closing, state, history,
         ShapeInv, LedgerType, Fits, Sending, Drainers, Reads, Writing
    <3> QED
      BY <3>1, NoNewCloserStep
  <2>2. CASE StopsBuffer(c)
    <3>1. NoNewCloser(c)
      BY <2>2 DEF StopsBuffer, Step, NoNewCloser, Closing, state, history,
         ShapeInv, LedgerType, Fits, Sending, Drainers, Reads, Writing
    <3> QED
      BY <3>1, NoNewCloserStep
  <2>3. CASE Marks(c)
    <3>1. pc[c] = "mark" /\ call[c] = "close" /\ "close" \in Roles[c]
      BY <2>3 DEF Marks, Step, ShapeInv, Fits, Permitted
    <3>2. /\ pc' = [pc EXCEPT ![c] = "release"] /\ UNCHANGED <<call, cutOff>>
      BY <2>3 DEF Marks, Step, history
    <3>3. ASSUME NEW t \in Threads, call[t] = "close"
          PROVE  t = c
      <4>1. t \in Callers
        BY <3>3 DEF ShapeInv, Fits, Threads, Sending
      <4> QED
        BY <3>1, <3>3, <4>1 DEF OneCloser, Permitted
    <3>4. pc'[c] = "release"
      BY <3>2 DEF ShapeInv, LedgerType
    <3> QED
      BY <3>2, <3>3, <3>4 DEF CloserInv, Closing, Sending
  <2>4. CASE Releases(c)
    <3>1. NoNewCloser(c)
      BY <2>4 DEF Releases, Ends, Step, NoNewCloser, Closing, state, history,
         ShapeInv, LedgerType, Fits, Sending, Drainers, Reads, Writing
    <3> QED
      BY <3>1, NoNewCloserStep
  <2> QED
    BY <1>4, <2>1, <2>2, <2>3, <2>4 DEF Close
<1>5. ASSUME NEW c \in Callers, Settings(c)
      PROVE  CloserInv'
  <2> c \in Threads
    BY DEF Threads
  <2>1. CASE OptsOut(c)
    <3>1. NoNewCloser(c)
      BY <2>1 DEF OptsOut, Calls, Step, NoNewCloser, Closing, state, history,
         ShapeInv, LedgerType, Fits, Sending, Drainers, Reads, Writing
    <3> QED
      BY <3>1, NoNewCloserStep
  <2>2. CASE OptsIn(c)
    <3>1. NoNewCloser(c)
      BY <2>2 DEF OptsIn, Calls, Step, NoNewCloser, Closing, state, history,
         ShapeInv, LedgerType, Fits, Sending, Drainers, Reads, Writing
    <3> QED
      BY <3>1, NoNewCloserStep
  <2>3. CASE SetConfigBegins(c)
    <3>1. NoNewCloser(c)
      BY <2>3 DEF SetConfigBegins, Calls, Step, NoNewCloser, Closing, state, history,
         ShapeInv, LedgerType, Fits, Sending, Drainers, Reads, Writing
    <3> QED
      BY <3>1, NoNewCloserStep
  <2>4. CASE Assigns(c)
    <3>1. NoNewCloser(c)
      BY <2>4 DEF Assigns, Step, NoNewCloser, Closing, state, history,
         ShapeInv, LedgerType, Fits, Sending, Drainers, Reads, Writing
    <3> QED
      BY <3>1, NoNewCloserStep
  <2>5. CASE PassesOn(c)
    <3>1. NoNewCloser(c)
      BY <2>5 DEF PassesOn, Step, NoNewCloser, Closing, state, history,
         ShapeInv, LedgerType, Fits, Sending, Drainers, Reads, Writing
    <3> QED
      BY <3>1, NoNewCloserStep
  <2>6. CASE Applies(c)
    <3>1. NoNewCloser(c)
      BY <2>6 DEF Applies, Ends, Step, NoNewCloser, Closing, state, history,
         ShapeInv, LedgerType, Fits, Sending, Drainers, Reads, Writing
    <3> QED
      BY <3>1, NoNewCloserStep
  <2> QED
    BY <1>5, <2>1, <2>2, <2>3, <2>4, <2>5, <2>6 DEF Settings
<1>6. ASSUME NEW t \in Threads, Send(t)
      PROVE  CloserInv'
  <2>1. CASE PassesSendGate(t)
    <3>1. NoNewCloser(t)
      BY <2>1 DEF PassesSendGate, Step, NoNewCloser, Closing, state, history,
         ShapeInv, LedgerType, Fits, Sending, Drainers, Reads, Writing
    <3> QED
      BY <3>1, NoNewCloserStep
  <2>2. CASE Discards(t)
    <3>1. /\ pc[t] = "sendGate" /\ pc' = [pc EXCEPT ![t] = "sent"] /\ UNCHANGED <<call, closed>>
          /\ cutOff' = IF optedIn /\ call[t] = "close" THEN cutOff \cup body[t] ELSE cutOff
          /\ ~IsOptedIn
      BY <2>2 DEF Discards, Step, state, SendIsOpen
    <3>2. call[t] = "close" => ~closed
      BY <3>1 DEF CloserInv, Closing, Sending
    <3>3. cutOff' = {}
      BY <3>1, <3>2 DEF CloserInv, IsOptedIn
    <3>4. \A u \in Threads : Closing(u)' => Closing(u)
      BY <3>1 DEF Closing, Sending, ShapeInv, LedgerType
    <3> QED
      BY <3>1, <3>3, <3>4 DEF CloserInv
  <2>3. CASE ReadsPath(t)
    <3>1. NoNewCloser(t)
      BY <2>3 DEF ReadsPath, Step, NoNewCloser, Closing, state, history,
         ShapeInv, LedgerType, Fits, Sending, Drainers, Reads, Writing
    <3> QED
      BY <3>1, NoNewCloserStep
  <2>4. CASE Begins(t)
    <3>1. NoNewCloser(t)
      BY <2>4 DEF Begins, Posts, Step, NoNewCloser, Closing, state, history,
         ShapeInv, LedgerType, Fits, Sending, Drainers, Reads, Writing
    <3> QED
      BY <3>1, NoNewCloserStep
  <2>5. CASE Unserialisable(t)
    <3>1. NoNewCloser(t)
      BY <2>5 DEF Unserialisable, Posts, Step, NoNewCloser, Closing, state, history,
         ShapeInv, LedgerType, Fits, Sending, Drainers, Reads, Writing
    <3> QED
      BY <3>1, NoNewCloserStep
  <2>6. CASE Refused(t)
    <3>1. NoNewCloser(t)
      BY <2>6 DEF Refused, Posts, Step, NoNewCloser, Closing, state, history,
         ShapeInv, LedgerType, Fits, Sending, Drainers, Reads, Writing
    <3> QED
      BY <3>1, NoNewCloserStep
  <2>7. CASE CannotStart(t)
    <3>1. NoNewCloser(t)
      BY <2>7 DEF CannotStart, Posts, Step, NoNewCloser, Closing, state, history,
         ShapeInv, LedgerType, Fits, Sending, Drainers, Reads, Writing
    <3> QED
      BY <3>1, NoNewCloserStep
  <2>8. CASE CannotEncode(t)
    <3>1. NoNewCloser(t)
      BY <2>8 DEF CannotEncode, Posts, Step, NoNewCloser, Closing, state, history,
         ShapeInv, LedgerType, Fits, Sending, Drainers, Reads, Writing
    <3> QED
      BY <3>1, NoNewCloserStep
  <2>9. CASE Accepted(t)
    <3>1. NoNewCloser(t)
      BY <2>9 DEF Accepted, Step, NoNewCloser, Closing, state, history,
         ShapeInv, LedgerType, Fits, Sending, Drainers, Reads, Writing
    <3> QED
      BY <3>1, NoNewCloserStep
  <2>10. CASE Rejected(t)
    <3>1. NoNewCloser(t)
      BY <2>10 DEF Rejected, Step, NoNewCloser, Closing, state, history,
         ShapeInv, LedgerType, Fits, Sending, Drainers, Reads, Writing
    <3> QED
      BY <3>1, NoNewCloserStep
  <2> QED
    BY <1>6, <2>1, <2>2, <2>3, <2>4, <2>5, <2>6, <2>7, <2>8, <2>9, <2>10 DEF Send
<1>7. ASSUME NEW w \in Workers, WorkerEnds(w)
      PROVE  CloserInv'
  <2> w \in Threads
    BY DEF Threads
  <2>1. NoNewCloser(w)
    BY <1>7 DEF WorkerEnds, Step, NoNewCloser, Closing, state, history, ShapeInv, LedgerType
  <2> QED
    BY <2>1, NoNewCloserStep
<1>8. CASE Quiescent
  BY <1>8 DEF Quiescent, vars, state, local, history, CloserInv, Closing
<1> QED
  BY <1>1, <1>2, <1>3, <1>4, <1>5, <1>6, <1>7, <1>8 DEF Next

(* What set_config hands on is the client's configuration of now.          *)
SetterInv ==
    /\ \A c \in Callers : pc[c] = "apply" => seen[c] = cfg
    /\ ConfigsAgree

\* Thread t is not in set_config, or has only begun.
KeepsConfigs(t) ==
    /\ UNCHANGED <<cfg, config>>
    /\ \A u \in Threads \ {t} : pc'[u] = pc[u] /\ seen'[u] = seen[u]
    /\ {pc[t], pc'[t]} \cap {"arg", "apply"} = {}

(* Nothing of a configuration is touched.                                  *)
LEMMA KeepsConfigsStep ==
    ASSUME SetterInv, NEW t \in Threads, KeepsConfigs(t)
    PROVE  SetterInv'
<1>1. \A c \in Callers : c \in Threads
  BY DEF Threads
<1>2. pc'[t] # "apply"
  BY DEF KeepsConfigs
<1>3. (\A c \in Callers : pc'[c] \notin {"arg", "apply"}) =>
          \A c \in Callers : pc[c] \notin {"arg", "apply"}
  BY <1>1 DEF KeepsConfigs
<1> QED
  BY <1>1, <1>2, <1>3 DEF SetterInv, KeepsConfigs, ConfigsAgree

(* With one setter no two callers are in set_config.                       *)
LEMMA OnlyOneSets ==
    ASSUME OneSetter, ShapeInv, Permitted, NEW c \in Callers, pc[c] \in {"assign", "arg", "apply"}
    PROVE  \A d \in Callers \ {c} : pc[d] \notin {"assign", "arg", "apply"}
<1>1. \A d \in Callers : pc[d] \in {"assign", "arg", "apply"} => "set_config" \in Roles[d]
  BY DEF ShapeInv, Fits, Permitted, Threads
<1> QED
  BY <1>1 DEF OneSetter

(* With one setter no step hands on a configuration that has been replaced.*)
LEMMA SetterNext ==
    ASSUME OneSetter, ShapeInv, WireInv, Permitted, SetterInv, Next
    PROVE  SetterInv'
<1>1. ASSUME NEW c \in Callers, WriteOrRead(c)
      PROVE  SetterInv'
  <2> c \in Threads
    BY DEF Threads
  <2>1. CASE WriteBegins(c)
    <3>1. KeepsConfigs(c)
      BY <2>1 DEF WriteBegins, Calls, Step, Writes, Numbers, KeepsConfigs, transport, state,
         ShapeInv, LedgerType, WireInv, WireType
    <3> QED
      BY <3>1, KeepsConfigsStep
  <2>2. CASE ReadBegins(c)
    <3>1. KeepsConfigs(c)
      BY <2>2 DEF ReadBegins, Calls, Step, KeepsConfigs, transport, state,
         ShapeInv, LedgerType, WireInv, WireType
    <3> QED
      BY <3>1, KeepsConfigsStep
  <2>3. CASE AssertsOpen(c)
    <3>1. KeepsConfigs(c)
      BY <2>3 DEF AssertsOpen, Ends, Step, KeepsConfigs, transport, state,
         ShapeInv, LedgerType, WireInv, WireType
    <3> QED
      BY <3>1, KeepsConfigsStep
  <2>4. CASE PassesGate(c)
    <3>1. KeepsConfigs(c)
      BY <2>4 DEF PassesGate, Step, KeepsConfigs, transport, state,
         ShapeInv, LedgerType, WireInv, WireType
    <3> QED
      BY <3>1, KeepsConfigsStep
  <2>5. CASE DiscardsQuietly(c)
    <3>1. KeepsConfigs(c)
      BY <2>5 DEF DiscardsQuietly, Ends, Step, KeepsConfigs, transport, state,
         ShapeInv, LedgerType, WireInv, WireType
    <3> QED
      BY <3>1, KeepsConfigsStep
  <2>6. CASE Enqueues(c)
    <3>1. KeepsConfigs(c)
      BY <2>6 DEF Enqueues, MovesOn, Ends, Step, KeepsConfigs, transport, state,
         ShapeInv, LedgerType, WireInv, WireType
    <3> QED
      BY <3>1, KeepsConfigsStep
  <2>7. CASE TurnedAway(c)
    <3>1. KeepsConfigs(c)
      BY <2>7 DEF TurnedAway, MovesOn, Ends, Step, KeepsConfigs, transport, state,
         ShapeInv, LedgerType, WireInv, WireType
    <3> QED
      BY <3>1, KeepsConfigsStep
  <2>8. CASE Returns(c)
    <3>1. KeepsConfigs(c)
      BY <2>8 DEF Returns, Ends, Step, KeepsConfigs, transport, state,
         ShapeInv, LedgerType, WireInv, WireType
    <3> QED
      BY <3>1, KeepsConfigsStep
  <2>9. CASE ServesDefault(c)
    <3>1. KeepsConfigs(c)
      BY <2>9 DEF ServesDefault, Ends, Step, KeepsConfigs, transport, state,
         ShapeInv, LedgerType, WireInv, WireType
    <3> QED
      BY <3>1, KeepsConfigsStep
  <2>10. CASE Raises(c)
    <3>1. KeepsConfigs(c)
      BY <2>10 DEF Raises, Ends, Step, KeepsConfigs, transport, state,
         ShapeInv, LedgerType, WireInv, WireType
    <3> QED
      BY <3>1, KeepsConfigsStep
  <2>11. CASE Catches(c)
    <3>1. KeepsConfigs(c)
      BY <2>11 DEF Catches, Step, KeepsConfigs, transport, state,
         ShapeInv, LedgerType, WireInv, WireType
    <3> QED
      BY <3>1, KeepsConfigsStep
  <2> QED
    BY <1>1, <2>1, <2>2, <2>3, <2>4, <2>5, <2>6, <2>7, <2>8, <2>9, <2>10, <2>11 DEF WriteOrRead
<1>2. ASSUME NEW c \in Callers, Batch(c)
      PROVE  SetterInv'
  <2> c \in Threads
    BY DEF Threads
  <2>1. CASE BatchBegins(c)
    <3>1. KeepsConfigs(c)
      BY <2>1 DEF BatchBegins, Calls, Step, Writes, Numbers, KeepsConfigs, transport, state,
         ShapeInv, LedgerType, WireInv, WireType
    <3> QED
      BY <3>1, KeepsConfigsStep
  <2>2. CASE SendsNext(c)
    <3>1. KeepsConfigs(c)
      BY <2>2 DEF SendsNext, Ends, Step, KeepsConfigs, transport, state,
         ShapeInv, LedgerType, WireInv, WireType
    <3> QED
      BY <3>1, KeepsConfigsStep
  <2>3. CASE PoolEnds(c)
    <3>1. KeepsConfigs(c)
      BY <2>3 DEF PoolEnds, AllSettled, Step, KeepsConfigs, transport, state,
         ShapeInv, LedgerType, WireInv, WireType
    <3> QED
      BY <3>1, KeepsConfigsStep
  <2>4. ASSUME NEW w \in Workers, WorkerTakes(w, c)
        PROVE  SetterInv'
    <3> w \in Threads
      BY DEF Threads
    <3>1. KeepsConfigs(w)
      BY <2>4 DEF WorkerTakes, Step, KeepsConfigs, transport, state, ShapeInv, LedgerType
    <3> QED
      BY <3>1, KeepsConfigsStep
  <2> QED
    BY <1>2, <2>1, <2>2, <2>3, <2>4 DEF Batch
<1>3. ASSUME NEW c \in Callers, Drain(c)
      PROVE  SetterInv'
  <2> c \in Threads
    BY DEF Threads
  <2>1. CASE FlushBegins(c)
    <3>1. KeepsConfigs(c)
      BY <2>1 DEF FlushBegins, Calls, Step, KeepsConfigs, transport, state,
         ShapeInv, LedgerType, WireInv, WireType
    <3> QED
      BY <3>1, KeepsConfigsStep
  <2>2. CASE DrainLocks(c)
    <3>1. KeepsConfigs(c)
      BY <2>2 DEF DrainLocks, Step, KeepsConfigs, transport, state,
         ShapeInv, LedgerType, WireInv, WireType
    <3> QED
      BY <3>1, KeepsConfigsStep
  <2>3. CASE DrainTakes(c)
    <3>1. KeepsConfigs(c)
      BY <2>3 DEF DrainTakes, Step, First, KeepsConfigs, transport, state,
         ShapeInv, LedgerType, WireInv, WireType
    <3> QED
      BY <3>1, KeepsConfigsStep
  <2>4. CASE DrainSent(c)
    <3>1. KeepsConfigs(c)
      BY <2>4 DEF DrainSent, Drains, Again, Step, LeaveLine, KeepsConfigs, transport, state,
         ShapeInv, LedgerType, WireInv, WireType
    <3> QED
      BY <3>1, KeepsConfigsStep
  <2>5. CASE DrainRetries(c)
    <3>1. KeepsConfigs(c)
      BY <2>5 DEF DrainRetries, Drains, Again, Step, KeepsConfigs, transport, state,
         ShapeInv, LedgerType, WireInv, WireType
    <3> QED
      BY <3>1, KeepsConfigsStep
  <2>6. CASE DrainDrops(c)
    <3>1. KeepsConfigs(c)
      BY <2>6 DEF DrainDrops, Drains, Again, Step, LeaveLine, KeepsConfigs, transport, state,
         ShapeInv, LedgerType, WireInv, WireType
    <3> QED
      BY <3>1, KeepsConfigsStep
  <2>7. CASE DrainEnds(c)
    <3>1. KeepsConfigs(c)
      BY <2>7 DEF DrainEnds, Unlocks, Ends, Step, KeepsConfigs, transport, state,
         ShapeInv, LedgerType, WireInv, WireType
    <3> QED
      BY <3>1, KeepsConfigsStep
  <2>8. CASE DrainStops(c)
    <3>1. KeepsConfigs(c)
      BY <2>8 DEF DrainStops, Drains, Unlocks, Ends, Step, KeepsConfigs, transport, state,
         ShapeInv, LedgerType, WireInv, WireType
    <3> QED
      BY <3>1, KeepsConfigsStep
  <2>9. CASE DrainRaises(c)
    <3>1. KeepsConfigs(c)
      BY <2>9 DEF DrainRaises, Drains, Ends, Step, KeepsConfigs, transport, state,
         ShapeInv, LedgerType, WireInv, WireType
    <3> QED
      BY <3>1, KeepsConfigsStep
  <2> QED
    BY <1>3, <2>1, <2>2, <2>3, <2>4, <2>5, <2>6, <2>7, <2>8, <2>9 DEF Drain
<1>4. ASSUME NEW c \in Callers, Close(c)
      PROVE  SetterInv'
  <2> c \in Threads
    BY DEF Threads
  <2>1. CASE CloseBegins(c)
    <3>1. KeepsConfigs(c)
      BY <2>1 DEF CloseBegins, Calls, Step, KeepsConfigs, transport, state,
         ShapeInv, LedgerType, WireInv, WireType
    <3> QED
      BY <3>1, KeepsConfigsStep
  <2>2. CASE StopsBuffer(c)
    <3>1. KeepsConfigs(c)
      BY <2>2 DEF StopsBuffer, Step, KeepsConfigs, transport, state,
         ShapeInv, LedgerType, WireInv, WireType
    <3> QED
      BY <3>1, KeepsConfigsStep
  <2>3. CASE Marks(c)
    <3>1. KeepsConfigs(c)
      BY <2>3 DEF Marks, Step, KeepsConfigs, transport, state,
         ShapeInv, LedgerType, WireInv, WireType
    <3> QED
      BY <3>1, KeepsConfigsStep
  <2>4. CASE Releases(c)
    <3>1. KeepsConfigs(c)
      BY <2>4 DEF Releases, Ends, Step, Shuts, KeepsConfigs, transport, state,
         ShapeInv, LedgerType, WireInv, WireType
    <3> QED
      BY <3>1, KeepsConfigsStep
  <2> QED
    BY <1>4, <2>1, <2>2, <2>3, <2>4 DEF Close
<1>5. ASSUME NEW c \in Callers, Settings(c)
      PROVE  SetterInv'
  <2> c \in Threads
    BY DEF Threads
  <2>1. CASE OptsOut(c)
    <3>1. KeepsConfigs(c)
      BY <2>1 DEF OptsOut, Calls, Step, KeepsConfigs, transport, state,
         ShapeInv, LedgerType, WireInv, WireType
    <3> QED
      BY <3>1, KeepsConfigsStep
  <2>2. CASE OptsIn(c)
    <3>1. KeepsConfigs(c)
      BY <2>2 DEF OptsIn, Calls, Step, KeepsConfigs, transport, state,
         ShapeInv, LedgerType, WireInv, WireType
    <3> QED
      BY <3>1, KeepsConfigsStep
  <2>3. CASE SetConfigBegins(c)
    <3>1. KeepsConfigs(c)
      BY <2>3 DEF SetConfigBegins, Calls, Step, KeepsConfigs, transport, state,
         ShapeInv, LedgerType, WireInv, WireType
    <3> QED
      BY <3>1, KeepsConfigsStep
  <2>4. CASE Assigns(c)
    <3>1. pc[c] = "assign" /\ pc' = [pc EXCEPT ![c] = "arg"] /\ seen' = seen
      BY <2>4 DEF Assigns, Step
    <3>2. \A d \in Callers \ {c} : pc[d] # "apply"
      BY <3>1, OnlyOneSets
    <3>3. pc'[c] = "arg" /\ \A d \in Callers \ {c} : pc'[d] = pc[d]
      BY <3>1 DEF ShapeInv, LedgerType, Threads
    <3> QED
      BY <3>2, <3>3 DEF SetterInv, ConfigsAgree
  <2>5. CASE PassesOn(c)
    <3>1. /\ pc[c] = "arg" /\ pc' = [pc EXCEPT ![c] = "apply"]
          /\ seen' = [seen EXCEPT ![c] = cfg] /\ cfg' = cfg
      BY <2>5 DEF PassesOn, Step, state
    <3>2. /\ pc'[c] = "apply" /\ \A d \in Callers \ {c} : pc'[d] = pc[d]
          /\ seen'[c] = cfg /\ \A d \in Callers \ {c} : seen'[d] = seen[d]
      BY <3>1 DEF ShapeInv, LedgerType, WireInv, WireType, Threads
    <3> QED
      BY <3>1, <3>2 DEF SetterInv, ConfigsAgree
  <2>6. CASE Applies(c)
    <3>1. /\ pc[c] = "apply" /\ pc' = [pc EXCEPT ![c] = "idle"]
          /\ seen' = [seen EXCEPT ![c] = None] /\ cfg' = cfg /\ config' = seen[c]
      BY <2>6 DEF Applies, Ends, Step, state, Reconfigured
    <3>2. config' = cfg'
      BY <3>1 DEF SetterInv
    <3>3. /\ pc'[c] = "idle" /\ \A d \in Callers \ {c} : pc'[d] = pc[d] /\ seen'[d] = seen[d]
      BY <3>1 DEF ShapeInv, LedgerType, WireInv, WireType, Threads
    <3> QED
      BY <3>1, <3>2, <3>3 DEF SetterInv, ConfigsAgree
  <2> QED
    BY <1>5, <2>1, <2>2, <2>3, <2>4, <2>5, <2>6 DEF Settings
<1>6. ASSUME NEW t \in Threads, Send(t)
      PROVE  SetterInv'
  <2>1. CASE PassesSendGate(t)
    <3>1. KeepsConfigs(t)
      BY <2>1 DEF PassesSendGate, Step, KeepsConfigs, transport, state,
         ShapeInv, LedgerType, WireInv, WireType
    <3> QED
      BY <3>1, KeepsConfigsStep
  <2>2. CASE Discards(t)
    <3>1. KeepsConfigs(t)
      BY <2>2 DEF Discards, Step, KeepsConfigs, transport, state,
         ShapeInv, LedgerType, WireInv, WireType
    <3> QED
      BY <3>1, KeepsConfigsStep
  <2>3. CASE ReadsPath(t)
    <3>1. KeepsConfigs(t)
      BY <2>3 DEF ReadsPath, Step, KeepsConfigs, transport, state,
         ShapeInv, LedgerType, WireInv, WireType
    <3> QED
      BY <3>1, KeepsConfigsStep
  <2>4. CASE Begins(t)
    <3>1. KeepsConfigs(t)
      BY <2>4 DEF Begins, Posts, Step, PostStarts, KeepsConfigs, transport, state,
         ShapeInv, LedgerType, WireInv, WireType
    <3> QED
      BY <3>1, KeepsConfigsStep
  <2>5. CASE Unserialisable(t)
    <3>1. KeepsConfigs(t)
      BY <2>5 DEF Unserialisable, Posts, Step, KeepsConfigs, transport, state,
         ShapeInv, LedgerType, WireInv, WireType
    <3> QED
      BY <3>1, KeepsConfigsStep
  <2>6. CASE Refused(t)
    <3>1. KeepsConfigs(t)
      BY <2>6 DEF Refused, Posts, Step, PostIsRefused, KeepsConfigs, transport, state,
         ShapeInv, LedgerType, WireInv, WireType
    <3> QED
      BY <3>1, KeepsConfigsStep
  <2>7. CASE CannotStart(t)
    <3>1. KeepsConfigs(t)
      BY <2>7 DEF CannotStart, Posts, Step, PostCannotStart, KeepsConfigs, transport, state,
         ShapeInv, LedgerType, WireInv, WireType
    <3> QED
      BY <3>1, KeepsConfigsStep
  <2>8. CASE CannotEncode(t)
    <3>1. KeepsConfigs(t)
      BY <2>8 DEF CannotEncode, Posts, Step, PostCannotEncode, KeepsConfigs, transport, state,
         ShapeInv, LedgerType, WireInv, WireType
    <3> QED
      BY <3>1, KeepsConfigsStep
  <2>9. CASE Accepted(t)
    <3>1. KeepsConfigs(t)
      BY <2>9 DEF Accepted, Step, Answered, KeepsConfigs, transport, state,
         ShapeInv, LedgerType, WireInv, WireType
    <3> QED
      BY <3>1, KeepsConfigsStep
  <2>10. CASE Rejected(t)
    <3>1. KeepsConfigs(t)
      BY <2>10 DEF Rejected, Step, Answered, Lost, KeepsConfigs, transport, state,
         ShapeInv, LedgerType, WireInv, WireType
    <3> QED
      BY <3>1, KeepsConfigsStep
  <2> QED
    BY <1>6, <2>1, <2>2, <2>3, <2>4, <2>5, <2>6, <2>7, <2>8, <2>9, <2>10 DEF Send
<1>7. ASSUME NEW w \in Workers, WorkerEnds(w)
      PROVE  SetterInv'
  <2> w \in Threads
    BY DEF Threads
  <2>1. KeepsConfigs(w)
    BY <1>7 DEF WorkerEnds, Step, KeepsConfigs, transport, state, ShapeInv, LedgerType,
       WireInv, WireType
  <2> QED
    BY <2>1, KeepsConfigsStep
<1>8. CASE Quiescent
  BY <1>8 DEF Quiescent, vars, transport, state, local, SetterInv, ConfigsAgree
<1> QED
  BY <1>1, <1>2, <1>3, <1>4, <1>5, <1>6, <1>7, <1>8 DEF Next


-----------------------------------------------------------------------------
(* The theorems                                                            *)

LedgerInv == ShapeInv /\ PlaceInv /\ HistType /\ AccountInv /\ RevokedInv

(* Where threads and events are, what is accounted for and what is revoked,*)
(* in every state that can be reached.                                     *)
THEOREM LedgerInvariant == Spec => []LedgerInv
<1>1. Init => LedgerInv
  BY ShapeInit, PlaceInit, HistInit, AccountInit, RevokedInit DEF LedgerInv
<1>2. LedgerInv /\ [Next]_vars => LedgerInv'
  <2>1. CASE Next
    BY <2>1, ShapeNext, PlaceNext, HistNext, AccountNext, RevokedNext DEF LedgerInv
  <2>2. CASE UNCHANGED vars
    <3> USE <2>2 DEF vars, state, buffer, local, history
    <3>1. ShapeInv => ShapeInv'
      BY DEF ShapeInv, LedgerType
    <3>2. PlaceInv => PlaceInv'
      BY DEF PlaceInv, Numbered, First
    <3>3. HistType => HistType'
      BY DEF HistType
    <3>4. AccountInv => AccountInv'
      BY DEF AccountInv, Settled, Accounted
    <3>5. RevokedInv => RevokedInv'
      BY DEF RevokedInv
    <3> QED
      BY <3>1, <3>2, <3>3, <3>4, <3>5 DEF LedgerInv
  <2> QED
    BY <2>1, <2>2
<1> QED
  BY <1>1, <1>2, PTL DEF Spec

(* Every variable of the client, its transport, its buffer and its threads *)
(* keeps its type.                                                         *)
THEOREM ClientTypes == Spec => []TypeOK
<1>1. ASSUME LedgerInv, WireInv PROVE TypeOK
  <2>1. Range(line) \subseteq Events /\ \A t \in Threads : Range(todo[t]) \subseteq Events
    BY <1>1, RangeOfSeq DEF LedgerInv, ShapeInv, LedgerType
  <2>2. issued \in 0..MaxEvents /\ MaxEvents \in Nat
    BY <1>1, ClientAssumption DEF LedgerInv, ShapeInv, LedgerType
  <2>3. Len(line) <= MaxEvents
    <3>1. Len(line) <= issued
      BY <1>1, <2>2, NoLonger DEF LedgerInv, PlaceInv, Numbered
    <3>2. Len(line) \in Nat
      BY <1>1, LenProperties DEF LedgerInv, PlaceInv
    <3> QED
      BY <2>2, <3>1, <3>2
  <2>4. delivered \subseteq Events
    BY <1>1, <2>2 DEF LedgerInv, PlaceInv, Numbered, Events
  <2>5. /\ {config, cfg} \subseteq Configs \cup {FirstConfig}
        /\ conn \in Connection \cup {None}
        /\ lock \in Threads \cup {None} /\ shut \in BOOLEAN
        /\ seen \in [Threads -> Configs \cup {FirstConfig, None}]
    <3>1. Known \cup {None} = Configs \cup {FirstConfig, None}
      BY DEF Known
    <3> QED
      BY <1>1, <3>1 DEF WireInv, WireType, Known
  <2>6. taken \cup delivered \cup dropped \cup discarded \subseteq Events
    BY <1>1, <2>4 DEF LedgerInv, HistType
  <2>7. revoked \cup silenced \cup cutOff \subseteq Events /\ mine \in [Callers -> SUBSET Events]
    BY <1>1 DEF LedgerInv, HistType
  <2>8. LedgerType
    BY <1>1 DEF LedgerInv, ShapeInv
  <2> QED
    BY <2>1, <2>3, <2>5, <2>6, <2>7, <2>8 DEF TypeOK, LedgerType
<1> QED
  BY <1>1, LedgerInvariant, WireInvariant, PTL

(* However writes, drains, pools and opt-outs interleave, a write that has *)
(* returned without raising was accepted, announced as dropped or held back*)
(* by the gate, all of it, and none of its chunks is under way.            *)
THEOREM WritesAreAccountedFor == Spec => []NothingSwallowed
<1>1. ASSUME LedgerInv PROVE NothingSwallowed
  <2>1. SUFFICES ASSUME NEW c \in Callers, pc[c] = "idle"
                 PROVE  /\ mine[c] \subseteq Accounted
                        /\ \A w \in Workers : owner[w] # c
    BY DEF NothingSwallowed, Accounted
  <2>2. ShapeInv /\ AccountInv /\ c \in Threads
    BY <1>1 DEF LedgerInv, Threads
  <2>3. call[c] = "none" /\ todo[c] = <<>> /\ ~erred[c]
    BY <2>1, <2>2 DEF ShapeInv, Fits, Writing, Sending
  <2>4. \A w \in Workers : owner[w] # c
    BY <2>1, <2>2, ClientAssumption DEF ShapeInv, Threads
  <2>5. Settled(c)
    BY <2>2 DEF AccountInv
  <2> QED
    BY <2>1, <2>3, <2>4, <2>5, NothingToHand DEF Settled, Writing
<1> QED
  BY <1>1, LedgerInvariant, PTL

(* What no request had taken up when opt_out() was called is not delivered *)
(* until somebody opts in, whatever flush, close or a timer was draining.  *)
THEOREM OptOutIsKept == Spec => []OptOutHolds
<1>1. LedgerInv => OptOutHolds
  BY DEF LedgerInv, RevokedInv, OptOutHolds
<1> QED
  BY <1>1, LedgerInvariant, PTL

(* A caller is in no method that is not among its roles.                   *)
LEMMA PermittedInvariant == Spec => []Permitted
<1>1. Init => Permitted
  BY DEF Init, Permitted, Threads
<1>2. LedgerInv /\ Permitted /\ [Next]_vars => Permitted'
  BY PermittedNext DEF LedgerInv, vars, local, Permitted
<1> QED
  BY <1>1, <1>2, LedgerInvariant, PTL DEF Spec

(* If one caller closes, then close() sends what it drains: no gate closed *)
(* by it, or by anybody, discards that.                                    *)
THEOREM CloseSendsWhatItDrains ==
    ASSUME OneCloser
    PROVE  Spec => []CloseStillSends
<1>1. Init => CloserInv
  BY DEF Init, CloserInv, Closing
<1>2. LedgerInv /\ Permitted /\ CloserInv /\ [Next]_vars => CloserInv'
  <2>1. CASE Next
    BY <2>1, CloserNext DEF LedgerInv
  <2>2. CASE UNCHANGED vars
    BY <2>2 DEF vars, state, local, history, CloserInv, Closing
  <2> QED
    BY <2>1, <2>2
<1>3. CloserInv => CloseStillSends
  BY DEF CloserInv, CloseStillSends
<1> QED
  BY <1>1, <1>2, <1>3, LedgerInvariant, PermittedInvariant, PTL DEF Spec

(* If one caller reconfigures, then the client and its transport agree on  *)
(* the configuration outside that caller's two assignments.                *)
THEOREM OneSetterAgrees ==
    ASSUME OneSetter
    PROVE  Spec => []ConfigsAgree
<1>1. Init => SetterInv
  <2> SUFFICES ASSUME Init PROVE SetterInv
    OBVIOUS
  <2>1. \A c \in Callers : pc[c] = "idle"
    BY DEF Init, Threads
  <2> QED
    BY <2>1 DEF Init, TransportInit, SetterInv, ConfigsAgree
<1>2. LedgerInv /\ WireInv /\ Permitted /\ SetterInv /\ [Next]_vars => SetterInv'
  <2>1. CASE Next
    BY <2>1, SetterNext DEF LedgerInv
  <2>2. CASE UNCHANGED vars
    BY <2>2 DEF vars, transport, state, local, SetterInv, ConfigsAgree
  <2> QED
    BY <2>1, <2>2
<1>3. SetterInv => ConfigsAgree
  BY DEF SetterInv
<1> QED
  BY <1>1, <1>2, <1>3, LedgerInvariant, WireInvariant, PermittedInvariant, PTL DEF Spec
=============================================================================
