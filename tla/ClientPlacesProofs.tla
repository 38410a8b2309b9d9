------------------------- MODULE ClientPlacesProofs -------------------------
(***************************************************************************)
(* Where threads and events are, for any number of threads and             *)
(* configurations.  Two inductive invariants: what a thread may hold at    *)
(* each label (ShapeInv), and, by it, that an event is in one place at a   *)
(* time (PlaceInv).  ClientLedgerProofs draws the conclusions.             *)
(***************************************************************************)
EXTENDS ClientProofs, SequenceTheorems, FiniteSetTheorems

-----------------------------------------------------------------------------
(* The invariants                                                          *)

Writing == {"track", "consent", "track_batch"}
Drainers == {"flush", "close"}
Sending == {"sendGate", "path", "post", "wait", "sent", "failed"}

LedgerType ==
    /\ {optedIn, closed, buffered, accepting} \subseteq BOOLEAN
    /\ pc \in [Threads -> Labels]
    /\ call \in [Threads -> {"none", "send"} \cup Methods]
    /\ todo \in [Threads -> Seq(Events)]
    /\ body \in [Threads -> SUBSET Events]
    /\ owner \in [Workers -> Callers \cup {None}]
    /\ erred \in [Callers -> BOOLEAN]
    /\ drainer \in Threads \cup {None}
    /\ issued \in 0..MaxEvents
    /\ line \in Seq(Events)

Draining(p, m) == p = "drain" \/ (p \in Sending /\ m \in Drainers)

(* What a thread at label p, in method m, may have yet to hand over (s) and *)
(* may have in a request (b).                                              *)
Fits(p, m, s, b) ==
    /\ p \in {"idle", "raised", "unused"} => m = "none"
    /\ p \in {"drainLock", "drain"} => m \in Drainers
    /\ p \in {"stopBuffer", "mark", "release"} => m = "close"
    /\ p \in {"assign", "arg", "apply"} => m = "set_config"
    /\ p = "open" => m \in Reads \cup Writing
    /\ p = "gate" => m \in Writing
    /\ p = "enqueue" => m \in {"track", "track_batch"}
    /\ p = "pool" => m = "track_batch"
    /\ p \in Sending => m \in Reads \cup Writing \cup Drainers \cup {"send"}
    /\ p \notin Sending \/ m \in Reads => b = {}
    /\ m \notin Writing => s = <<>>
    /\ p \in {"gate", "enqueue"} \/ (p = "open" /\ m \in Writing) => s # <<>>
    /\ p \in Sending /\ m # "track_batch" => s = <<>>

(* Only the owner of the drain lock drains; only a caller that waits for   *)
(* its pool owns workers, or has lost a request of theirs.                 *)
ShapeInv ==
    /\ LedgerType
    /\ \A t \in Threads : Fits(pc[t], call[t], todo[t], body[t])
    /\ \A t \in Threads : drainer = t <=> Draining(pc[t], call[t])
    /\ \A c \in Callers : pc[c] # "unused" /\ call[c] # "send"
    /\ \A w \in Workers : pc[w] \in Sending \cup {"unused"}
    /\ \A w \in Workers : pc[w] \in Sending => call[w] = "send"
    /\ \A w \in Workers : owner[w] = None <=> pc[w] = "unused"
    /\ \A w \in Workers : owner[w] # None => pc[owner[w]] = "pool"
    /\ \A c \in Callers : erred[c] => pc[c] = "pool"

Numbered == 1..issued

(* An event is in line, or in one call that has yet to hand it over, or in *)
(* one request, and in each of them once; a drain's request holds the head *)
(* of the line.  A delivered event that is still in line is in the request *)
(* that has just been answered.                                            *)
PlaceInv ==
    /\ line \in Seq(Numbered) /\ IsInjective(line)
    /\ delivered \subseteq Numbered
    /\ \A t \in Threads : /\ todo[t] \in Seq(Numbered) /\ IsInjective(todo[t])
                          /\ body[t] \subseteq Numbered
                          /\ Range(todo[t]) \cap Range(line) = {}
                          /\ Range(todo[t]) \cap delivered = {}
                          /\ drainer # t => body[t] \cap Range(line) = {}
    /\ \A t, u \in Threads : Range(todo[t]) \cap body[u] = {}
    /\ \A t, u \in Threads : t # u => Range(todo[t]) \cap Range(todo[u]) = {}
    /\ \A t \in Threads : drainer = t /\ pc[t] # "drain" =>
           \E n \in 1..Len(line) : body[t] = Range(First(n))
    /\ \A e \in delivered \cap Range(line) :
           \E t \in Threads : drainer = t /\ pc[t] = "sent" /\ e \in body[t]

-----------------------------------------------------------------------------
(* Sequences without repetition                                            *)

(* An element added at the tail is one more, and does not move the head.   *)
LEMMA AppendOne ==
    ASSUME NEW S, NEW s \in Seq(S), NEW e \in S, IsInjective(s), e \notin Range(s)
    PROVE  /\ Append(s, e) \in Seq(S)
           /\ IsInjective(Append(s, e))
           /\ Range(Append(s, e)) = Range(s) \cup {e}
           /\ \A n \in 1..Len(s) : /\ n \in 1..Len(Append(s, e))
                                   /\ SubSeq(Append(s, e), 1, n) = SubSeq(s, 1, n)
<1>1. /\ Len(s) \in Nat /\ DOMAIN s = 1..Len(s)
      /\ Append(s, e) \in Seq(S) /\ Len(Append(s, e)) = Len(s) + 1
      /\ \A i \in 1..Len(s) : Append(s, e)[i] = s[i]
      /\ Append(s, e)[Len(s) + 1] = e
  BY LenProperties, AppendProperties
<1>2. DOMAIN Append(s, e) = 1..(Len(s) + 1)
  BY <1>1, LenProperties
<1>3. IsInjective(Append(s, e))
  BY <1>1, <1>2 DEF IsInjective, Range
<1>4. Range(Append(s, e)) = Range(s) \cup {e}
  BY <1>1, <1>2 DEF Range
<1>5. ASSUME NEW n \in 1..Len(s)
      PROVE  n \in 1..Len(Append(s, e)) /\ SubSeq(Append(s, e), 1, n) = SubSeq(s, 1, n)
  <2>1. <<e>> \in Seq(S) /\ Append(s, e) = s \o <<e>>
    BY AppendIsConcat
  <2>2. 1 \in 1..Len(s)
    BY <1>1
  <2> QED
    BY <1>1, <2>1, <2>2, SubSeqOfConcat1
<1> QED
  BY <1>1, <1>3, <1>4, <1>5

(* Without its head a sequence has all but the head.                       *)
LEMMA TailOne ==
    ASSUME NEW S, NEW s \in Seq(S), s # <<>>, IsInjective(s)
    PROVE  /\ Tail(s) \in Seq(S)
           /\ IsInjective(Tail(s))
           /\ Range(Tail(s)) = Range(s) \ {Head(s)}
           /\ Head(s) \in Range(s)
<1>1. /\ Len(s) \in Nat \ {0} /\ DOMAIN s = 1..Len(s)
      /\ Tail(s) \in Seq(S) /\ Len(Tail(s)) = Len(s) - 1
      /\ \A i \in 1..Len(Tail(s)) : Tail(s)[i] = s[i + 1]
      /\ Head(s) = s[1]
  BY LenProperties, EmptySeq, HeadTailProperties
<1>2. DOMAIN Tail(s) = 1..(Len(s) - 1) /\ \A i \in 1..(Len(s) - 1) : Tail(s)[i] = s[i + 1]
  BY <1>1, LenProperties
<1>3. IsInjective(Tail(s))
  BY <1>1, <1>2 DEF IsInjective
<1>4. ASSUME NEW e \in Range(s), e # Head(s)
      PROVE  e \in Range(Tail(s))
  <2>1. PICK i \in 1..Len(s) : s[i] = e
    BY <1>1 DEF Range
  <2>2. i - 1 \in 1..(Len(s) - 1) /\ Tail(s)[i - 1] = e
    BY <1>1, <1>2, <1>4, <2>1
  <2> QED
    BY <1>2, <2>2 DEF Range
<1>5. ASSUME NEW e \in Range(Tail(s))
      PROVE  e \in Range(s) /\ e # Head(s)
  <2>1. PICK i \in 1..(Len(s) - 1) : s[i + 1] = e
    BY <1>2 DEF Range
  <2> QED
    BY <1>1, <2>1 DEF Range, IsInjective
<1>6. Head(s) \in Range(s)
  BY <1>1 DEF Range
<1> QED
  BY <1>1, <1>3, <1>4, <1>5, <1>6

(* Deleting as many as a batch has deletes the batch: what is left is what *)
(* was not in it.                                                          *)
LEMMA CutHead ==
    ASSUME NEW S, NEW s \in Seq(S), IsInjective(s), NEW n \in 1..Len(s)
    PROVE  LET head == SubSeq(s, 1, n)
               rest == SubSeq(s, Cardinality(Range(head)) + 1, Len(s))
           IN  /\ rest \in Seq(S) /\ IsInjective(rest)
               /\ Range(head) \subseteq Range(s)
               /\ Range(rest) = Range(s) \ Range(head)
<1> DEFINE head == SubSeq(s, 1, n)
           rest == SubSeq(s, n + 1, Len(s))
<1>1. Len(s) \in Nat /\ DOMAIN s = 1..Len(s) /\ \A i \in 1..Len(s) : s[i] \in S
  BY LenProperties, ElementOfSeq
<1>2. /\ head \in Seq(S) /\ Len(head) = n
      /\ \A i \in 1..n : head[i] = s[i]
  <2>1. \A i \in 1..n : s[i] \in S
    BY <1>1
  <2>2. /\ head \in Seq(S) /\ Len(head) = IF 1 <= n THEN n - 1 + 1 ELSE 0
        /\ \A i \in 1..(n - 1 + 1) : head[i] = s[1 + i - 1]
    BY <1>1, <2>1, SubSeqProperties
  <2> QED
    BY <1>1, <2>2
<1>3. /\ rest \in Seq(S) /\ Len(rest) = Len(s) - n
      /\ \A i \in 1..(Len(s) - n) : rest[i] = s[n + i]
  <2>1. \A i \in (n + 1)..Len(s) : s[i] \in S
    BY <1>1
  <2>2. /\ rest \in Seq(S) /\ Len(rest) = IF n + 1 <= Len(s) THEN Len(s) - (n + 1) + 1 ELSE 0
        /\ \A i \in 1..(Len(s) - (n + 1) + 1) : rest[i] = s[n + 1 + i - 1]
    BY <1>1, <2>1, SubSeqProperties
  <2>3. ASSUME NEW i \in 1..(Len(s) - n)
        PROVE  rest[i] = s[n + i]
    <3>1. i \in 1..(Len(s) - (n + 1) + 1) /\ n + 1 + i - 1 = n + i
      BY <1>1
    <3> QED
      BY <2>2, <3>1
  <2>4. \A l \in Nat : \A k \in 1..l :
            (IF k + 1 <= l THEN l - (k + 1) + 1 ELSE 0) = l - k
    OBVIOUS
  <2> QED
    BY <1>1, <2>2, <2>3, <2>4
<1>4. DOMAIN head = 1..n /\ DOMAIN rest = 1..(Len(s) - n)
  BY <1>2, <1>3, LenProperties
<1> HIDE DEF head, rest
<1>5. Cardinality(Range(head)) = n
  <2>1. head \in [1..n -> Range(head)]
    BY <1>2, <1>4, LenProperties DEF Range
  <2>2. \A i, j \in 1..n : head[i] = head[j] => i = j
    BY <1>1, <1>2 DEF IsInjective
  <2>3. head \in Bijection(1..n, Range(head))
    BY <1>4, <2>1, <2>2 DEF Bijection, Injection, Surjection, IsInjective, Range
  <2> QED
    BY <2>3, <1>1, FS_CountingElements DEF ExistsBijection
<1>6. IsInjective(rest)
  <2> SUFFICES ASSUME NEW i \in 1..(Len(s) - n), NEW j \in 1..(Len(s) - n), rest[i] = rest[j]
               PROVE  i = j
    BY <1>4 DEF IsInjective
  <2>1. n + i \in DOMAIN s /\ n + j \in DOMAIN s /\ s[n + i] = s[n + j]
    BY <1>1, <1>3
  <2>2. n + i = n + j
    BY <2>1 DEF IsInjective
  <2> QED
    BY <1>1, <2>2
<1>7. Range(head) \subseteq Range(s)
  BY <1>1, <1>2, <1>4 DEF Range
<1>8. Range(rest) \subseteq Range(s) \ Range(head)
  <2> SUFFICES ASSUME NEW e \in Range(rest) PROVE e \in Range(s) \ Range(head)
    OBVIOUS
  <2>1. PICK i \in 1..(Len(s) - n) : s[n + i] = e
    BY <1>3, <1>4 DEF Range
  <2>2. \A j \in 1..n : s[j] # e
    BY <1>1, <2>1 DEF IsInjective
  <2> QED
    BY <1>1, <1>2, <1>4, <2>1, <2>2 DEF Range
<1>9. Range(s) \ Range(head) \subseteq Range(rest)
  <2> SUFFICES ASSUME NEW e \in Range(s), e \notin Range(head) PROVE e \in Range(rest)
    OBVIOUS
  <2>1. PICK i \in 1..Len(s) : s[i] = e
    BY <1>1 DEF Range
  <2>2. i \notin 1..n
    BY <1>2, <1>4, <2>1 DEF Range
  <2>3. i - n \in 1..(Len(s) - n) /\ rest[i - n] = e
    BY <1>1, <1>3, <2>1, <2>2
  <2> QED
    BY <1>4, <2>3 DEF Range
<1> QED
  BY <1>3, <1>5, <1>6, <1>7, <1>8, <1>9 DEF head, rest

(* A line without repetition is no longer than the numbers there are.      *)
LEMMA NoLonger ==
    ASSUME NEW n \in Nat, NEW s \in Seq(1..n), IsInjective(s)
    PROVE  Len(s) <= n
<1>1. Len(s) \in Nat /\ s \in [1..Len(s) -> 1..n] /\ DOMAIN s = 1..Len(s)
  BY LenProperties
<1>2. s \in Injection(1..Len(s), 1..n)
  BY <1>1 DEF Injection, IsInjective
<1>3. /\ IsFiniteSet(1..n) /\ Cardinality(1..n) = n
      /\ Cardinality(1..Len(s)) = Len(s)
  <2>1. \A k \in Nat : IsFiniteSet(1..k) /\ Cardinality(1..k) = IF 1 > k THEN 0 ELSE k - 1 + 1
    BY FS_Interval
  <2>2. \A k \in Nat : (IF 1 > k THEN 0 ELSE k - 1 + 1) = k
    OBVIOUS
  <2> QED
    BY <1>1, <2>1, <2>2
<1>4. Cardinality(1..Len(s)) <= Cardinality(1..n)
  BY <1>2, <1>3, FS_Injection
<1> QED
  BY <1>3, <1>4


-----------------------------------------------------------------------------
(* Where each thread is                                                    *)

\* Caller or worker t goes to label p of method m, holding s and b there.
Turns(t, p, m, s, b) ==
    /\ pc' = [pc EXCEPT ![t] = p]
    /\ call' = [call EXCEPT ![t] = m]
    /\ todo' = [todo EXCEPT ![t] = s]
    /\ body' = [body EXCEPT ![t] = b]

(* A caller may go to any label with what fits there, if it does not lead  *)
(* or own a pool that is in use and the drain lock goes with the label.    *)
LEMMA ShapeStep ==
    ASSUME ShapeInv, NEW c \in Callers,
           NEW p \in Labels \ {"unused"}, NEW m \in {"none"} \cup Methods,
           NEW s \in Seq(Events), NEW b \in SUBSET Events,
           Turns(c, p, m, s, b), Fits(p, m, s, b),
           {optedIn', closed', buffered', accepting'} \subseteq BOOLEAN,
           issued' \in 0..MaxEvents, line' \in Seq(Events),
           \/ drainer' = drainer /\ (Draining(p, m) <=> Draining(pc[c], call[c]))
           \/ drainer = None /\ drainer' = c /\ Draining(p, m)
           \/ drainer = c /\ drainer' = None /\ ~Draining(p, m),
           owner' = owner,
           \/ erred' = erred /\ (pc[c] = "pool" => p = "pool")
           \/ erred' = [erred EXCEPT ![c] = FALSE] /\ \A w \in Workers : owner[w] # c
    PROVE  ShapeInv'
<1> c \in Threads /\ c \notin Workers /\ None \notin Threads
  BY ClientAssumption DEF Threads
<1>1. /\ pc'[c] = p /\ call'[c] = m /\ todo'[c] = s /\ body'[c] = b
      /\ \A t \in Threads \ {c} : /\ pc'[t] = pc[t] /\ call'[t] = call[t]
                                 /\ todo'[t] = todo[t] /\ body'[t] = body[t]
  BY DEF Turns, ShapeInv, LedgerType
<1>2. LedgerType'
  BY DEF Turns, ShapeInv, LedgerType
<1>3. \A t \in Threads : Fits(pc[t], call[t], todo[t], body[t])'
  BY <1>1 DEF ShapeInv
<1>4. \A t \in Threads : drainer' = t <=> Draining(pc'[t], call'[t])
  BY <1>1 DEF ShapeInv
<1>5. \A d \in Callers : pc'[d] # "unused" /\ call'[d] # "send"
  BY <1>1 DEF ShapeInv, Methods, Reads, Threads
<1>6. \A w \in Workers : pc'[w] = pc[w] /\ call'[w] = call[w]
  BY <1>1 DEF Threads
<1>7. \A d \in Callers : erred'[d] => erred[d] /\ (d = c => p = "pool" \/ pc[c] # "pool")
  <2>1. CASE erred' = erred /\ (pc[c] = "pool" => p = "pool")
    BY <2>1
  <2>2. CASE erred' = [erred EXCEPT ![c] = FALSE]
    <3>1. \A d \in Callers : erred'[d] = IF d = c THEN FALSE ELSE erred[d]
      BY <2>2 DEF ShapeInv, LedgerType
    <3> QED
      BY <3>1
  <2> QED
    BY <2>1, <2>2
<1>8. \A w \in Workers : owner'[w] # None => pc'[owner'[w]] = "pool"
  <2>1. \A w \in Workers : owner[w] = c => p = "pool"
    BY DEF ShapeInv
  <2> QED
    BY <1>1, <2>1 DEF ShapeInv, LedgerType, Threads
<1>9. \A d \in Callers : erred'[d] => pc'[d] = "pool"
  BY <1>1, <1>7 DEF ShapeInv, Threads
<1> QED
  BY <1>2, <1>3, <1>4, <1>5, <1>6, <1>8, <1>9 DEF ShapeInv

(* At first nobody is anywhere.                                            *)
LEMMA ShapeInit == Init => ShapeInv
<1> SUFFICES ASSUME Init PROVE ShapeInv
  OBVIOUS
<1>1. LedgerType
  <2>1. <<>> \in Seq(Events)
    BY EmptySeq
  <2>2. todo \in [Threads -> Seq(Events)] /\ line \in Seq(Events)
    BY <2>1 DEF Init
  <2>3. pc \in [Threads -> Labels] /\ body \in [Threads -> SUBSET Events]
    BY DEF Init, Labels
  <2>4. call \in [Threads -> {"none", "send"} \cup Methods]
    BY DEF Init
  <2>5. owner \in [Workers -> Callers \cup {None}] /\ erred \in [Callers -> BOOLEAN]
    BY DEF Init
  <2>6. {optedIn, closed, buffered, accepting} \subseteq BOOLEAN
    BY DEF Init
  <2> QED
    BY <2>2, <2>3, <2>4, <2>5, <2>6, ClientAssumption DEF Init, LedgerType
<1>2. \A t \in Threads : Fits(pc[t], call[t], todo[t], body[t])
  BY DEF Init, Fits, Sending, Writing, Reads
<1> QED
  BY <1>1, <1>2, ClientAssumption DEF Init, ShapeInv, Threads, Draining, Sending

(* A step of a request: what it holds stays.                               *)
LEMMA SendShape ==
    ASSUME ShapeInv, NEW t \in Threads, NEW p \in Sending,
           pc[t] \in Sending, pc' = [pc EXCEPT ![t] = p],
           UNCHANGED <<state, buffer, call, todo, body, owner, erred, issued>>
    PROVE  ShapeInv'
<1>1. p \in Labels
  BY DEF Sending, Labels
<1>2. /\ pc'[t] = p
      /\ \A u \in Threads \ {t} : pc'[u] = pc[u]
      /\ LedgerType'
  BY <1>1 DEF ShapeInv, LedgerType, state, buffer
<1>3. Fits(p, call[t], todo[t], body[t]) /\ (Draining(p, call[t]) <=> Draining(pc[t], call[t]))
  BY DEF ShapeInv, Fits, Draining, Sending
<1>4. \A u \in Threads : /\ Fits(pc[u], call[u], todo[u], body[u])'
                         /\ drainer' = u <=> Draining(pc'[u], call'[u])
  BY <1>2, <1>3 DEF ShapeInv, buffer
<1>5. t \in Workers => pc[t] # "unused" /\ p # "unused"
  BY DEF Sending
<1>6. pc[t] # "pool"
  BY DEF Sending
<1> QED
  BY <1>2, <1>4, <1>5, <1>6 DEF ShapeInv, LedgerType, Threads, Sending

(* The next n numbers.                                                     *)
LEMMA NumbersAreNew ==
    ASSUME issued \in Nat, NEW n \in Nat \ {0}, issued + n <= MaxEvents
    PROVE  /\ Numbers(n) \in Seq((issued + 1)..(issued + n))
           /\ Numbers(n) \in Seq(Events)
           /\ Range(Numbers(n)) = (issued + 1)..(issued + n)
           /\ IsInjective(Numbers(n))
           /\ Numbers(n) # <<>>
<1>1. /\ DOMAIN Numbers(n) = 1..n
      /\ \A i \in 1..n : Numbers(n)[i] = issued + i
  BY DEF Numbers
<1>2. Numbers(n) \in [1..n -> (issued + 1)..(issued + n)]
  BY DEF Numbers
<1>3. Numbers(n) \in Seq((issued + 1)..(issued + n))
  BY <1>2, SeqDef
<1>4. (issued + 1)..(issued + n) \subseteq Events
  BY ClientAssumption DEF Events
<1>5. Numbers(n) \in Seq(Events)
  BY <1>3, <1>4, SeqMonotonic
<1>6. \A e \in (issued + 1)..(issued + n) : e - issued \in 1..n /\ Numbers(n)[e - issued] = e
  BY <1>1
<1>7. Range(Numbers(n)) = (issued + 1)..(issued + n)
  BY ZenonT(40), <1>1, <1>2, <1>6 DEF Range
<1>8. IsInjective(Numbers(n))
  BY <1>1 DEF IsInjective
<1>9. Numbers(n) # <<>>
  BY <1>1, <1>3, EmptySeq, LenProperties
<1> QED
  BY <1>3, <1>5, <1>7, <1>8, <1>9

(* What is left of more than one is something.                             *)
LEMMA TailOfMore ==
    ASSUME NEW S, NEW s \in Seq(S), s # <<>>, Len(s) # 1
    PROVE  Tail(s) \in Seq(S) /\ Tail(s) # <<>>
<1>1. Len(s) \in Nat \ {0, 1}
  BY EmptySeq
<1>2. Tail(s) \in Seq(S) /\ Len(Tail(s)) = Len(s) - 1
  BY HeadTailProperties
<1> QED
  BY <1>1, <1>2, EmptySeq

(* The head of the line is made of events.                                 *)
LEMMA FirstIsEvents ==
    ASSUME NEW n \in 1..Len(line), line \in Seq(Events)
    PROVE  Range(First(n)) \subseteq Events
<1>1. Len(line) \in Nat /\ \A i \in 1..n : line[i] \in Events
  BY LenProperties, ElementOfSeq
<1>2. First(n) \in Seq(Events)
  BY <1>1, SubSeqProperties DEF First
<1> QED
  BY <1>2, RangeOfSeq

(* So is what a batch leaves behind.                                       *)
LEMMA LineLeaves ==
    ASSUME NEW t \in Threads, body[t] \subseteq Events, line \in Seq(Events)
    PROVE  SubSeq(line, Cardinality(body[t]) + 1, Len(line)) \in Seq(Events)
<1>1. Cardinality(body[t]) \in Nat
  <2>1. IsFiniteSet(Events)
    BY FS_Interval, ClientAssumption DEF Events
  <2>2. IsFiniteSet(body[t])
    BY <2>1, FS_Subset
  <2> QED
    BY <2>2, FS_CardinalityType
<1>2. Len(line) \in Nat /\ \A i \in (Cardinality(body[t]) + 1)..Len(line) : line[i] \in Events
  BY <1>1, LenProperties, ElementOfSeq
<1> QED
  BY <1>1, <1>2, SubSeqProperties

(* The number of one write is an event.                                    *)
LEMMA OneNumber ==
    ASSUME issued \in Nat, issued + 1 <= MaxEvents
    PROVE  Numbers(1) \in Seq(Events) /\ Numbers(1) # <<>>
BY NumbersAreNew

(* The types a step of a caller relies on.                                 *)
LEMMA CallerTypes ==
    ASSUME ShapeInv, NEW c \in Callers
    PROVE  /\ c \in Threads
           /\ call[c] \in {"none"} \cup Methods
           /\ todo[c] \in Seq(Events)
           /\ body[c] \in SUBSET Events
           /\ {optedIn, closed, buffered, accepting} \subseteq BOOLEAN
           /\ issued \in 0..MaxEvents
           /\ line \in Seq(Events)
           /\ <<>> \in Seq(Events)
BY EmptySeq DEF ShapeInv, LedgerType, Threads

(* What a caller hands over next is an event, and so are those after it.   *)
LEMMA TodoIsMore ==
    ASSUME ShapeInv, NEW c \in Callers, todo[c] # <<>>
    PROVE  /\ Head(todo[c]) \in Events
           /\ Tail(todo[c]) \in Seq(Events)
           /\ Len(todo[c]) # 1 => Tail(todo[c]) # <<>>
BY TailOfMore, HeadTailProperties DEF ShapeInv, LedgerType, Threads

(* A call of track_batch begins as a write, as requests in turn or as a    *)
(* pool.                                                                   *)
LEMMA BatchShape ==
    ASSUME ShapeInv, NEW c \in Callers, BatchBegins(c)
    PROVE  ShapeInv'
<1> USE ClientAssumption DEF ShapeInv, LedgerType, Fits, Draining, Sending, Drainers, Writing,
                             Labels, Methods, Reads, state, buffer, Threads
<1>1. PICK n \in 1..MaxEvents :
          /\ Writes(c, n)
          /\ UNCHANGED <<transport, state, buffer, seen, owner, erred>>
          /\ \/ /\ Calls(c, "track_batch", "open")
                /\ todo' = [todo EXCEPT ![c] = Numbers(n)]
                /\ UNCHANGED body
             \/ /\ Calls(c, "track_batch", "sendGate")
                /\ todo' = [todo EXCEPT ![c] = Tail(Numbers(n))]
                /\ body' = [body EXCEPT ![c] = {Head(Numbers(n))}]
             \/ /\ Calls(c, "track_batch", "pool")
                /\ todo' = [todo EXCEPT ![c] = Numbers(n)]
                /\ UNCHANGED body
  BY DEF BatchBegins
<1>2. /\ Numbers(n) \in Seq(Events) /\ Numbers(n) # <<>>
      /\ issued' \in 0..MaxEvents
  BY <1>1, NumbersAreNew DEF Writes
<1>3. Head(Numbers(n)) \in Events /\ Tail(Numbers(n)) \in Seq(Events)
  BY <1>2, HeadTailProperties
<1>4. CASE /\ Calls(c, "track_batch", "open")
           /\ todo' = [todo EXCEPT ![c] = Numbers(n)] /\ body' = body
  <2>1. Turns(c, "open", "track_batch", Numbers(n), body[c])
    BY <1>4 DEF Calls, Step, Turns
  <2> QED
    BY <1>1, <1>2, <1>4, <2>1, ShapeStep DEF Calls, Step
<1>5. CASE /\ Calls(c, "track_batch", "pool")
           /\ todo' = [todo EXCEPT ![c] = Numbers(n)] /\ body' = body
  <2>1. Turns(c, "pool", "track_batch", Numbers(n), body[c])
    BY <1>5 DEF Calls, Step, Turns
  <2> QED
    BY <1>1, <1>2, <1>5, <2>1, ShapeStep DEF Calls, Step
<1>6. CASE /\ Calls(c, "track_batch", "sendGate")
           /\ todo' = [todo EXCEPT ![c] = Tail(Numbers(n))]
           /\ body' = [body EXCEPT ![c] = {Head(Numbers(n))}]
  <2>1. Turns(c, "sendGate", "track_batch", Tail(Numbers(n)), {Head(Numbers(n))})
    BY <1>6 DEF Calls, Step, Turns
  <2>2. /\ pc[c] = "idle" /\ call[c] = "none" /\ {Head(Numbers(n))} \in SUBSET Events
        /\ UNCHANGED <<optedIn, closed, buffered, accepting, line, drainer, erred, owner>>
    <3>1. pc[c] = "idle"
      BY <1>6 DEF Calls, Step
    <3>2. call[c] = "none"
      BY <3>1
    <3>3. UNCHANGED <<optedIn, closed, buffered, accepting, line, drainer, erred, owner>>
      BY <1>1
    <3> QED
      BY <1>3, <3>1, <3>2, <3>3
  <2>3. Fits("sendGate", "track_batch", Tail(Numbers(n)), {Head(Numbers(n))})
    OBVIOUS
  <2>4. Draining("sendGate", "track_batch") <=> Draining(pc[c], call[c])
    BY <2>2
  <2>5. \A w \in Workers : owner[w] # c
    BY <2>2
  <2> QED
    BY <1>2, <1>3, <2>1, <2>2, <2>3, <2>4, <2>5, ShapeStep
<1> QED
  BY <1>1, <1>4, <1>5, <1>6

(* A worker takes the next chunk, and is done with it.                     *)
LEMMA TakesShape ==
    ASSUME ShapeInv, NEW c \in Callers, NEW w \in Workers, WorkerTakes(w, c)
    PROVE  ShapeInv'
<1> USE ClientAssumption DEF Threads
<1>1. /\ pc[c] = "pool" /\ todo[c] # <<>> /\ pc[w] = "unused"
      /\ pc' = [pc EXCEPT ![w] = "sendGate"] /\ call' = [call EXCEPT ![w] = "send"]
      /\ todo' = [todo EXCEPT ![c] = Tail(@)] /\ body' = [body EXCEPT ![w] = {Head(todo[c])}]
      /\ owner' = [owner EXCEPT ![w] = c]
      /\ UNCHANGED <<state, buffer, erred, issued>>
  BY DEF WorkerTakes, Step, history
<1>2. Head(todo[c]) \in Events /\ Tail(todo[c]) \in Seq(Events)
  BY <1>1, HeadTailProperties DEF ShapeInv, LedgerType
<1>3. LedgerType'
  BY <1>1, <1>2 DEF ShapeInv, LedgerType, Labels, state, buffer
<1>4. \A t \in Threads \ {w} : /\ pc'[t] = pc[t] /\ call'[t] = call[t] /\ body'[t] = body[t]
                               /\ t # c => todo'[t] = todo[t]
  BY <1>1 DEF ShapeInv, LedgerType
<1>5. /\ pc'[w] = "sendGate" /\ call'[w] = "send" /\ todo'[w] = todo[w] /\ owner'[w] = c
      /\ call[w] = "none"
  BY <1>1 DEF ShapeInv, LedgerType, Fits
<1>6. call[c] = "track_batch" /\ todo'[c] = Tail(todo[c]) /\ body[c] = {}
  BY <1>1 DEF ShapeInv, LedgerType, Fits, Sending
<1>7. Fits(pc[w], call[w], todo[w], body[w])'
  BY <1>1, <1>2, <1>5 DEF ShapeInv, LedgerType, Fits, Sending, Writing, Drainers, Reads
<1>8. Fits(pc[c], call[c], todo[c], body[c])'
  BY <1>1, <1>4, <1>6 DEF ShapeInv, Fits, Sending, Writing, Drainers, Reads
<1>9. \A t \in Threads : Fits(pc[t], call[t], todo[t], body[t])'
  BY <1>4, <1>7, <1>8 DEF ShapeInv
<1>10. \A t \in Threads : drainer' = t <=> Draining(pc'[t], call'[t])
  BY <1>1, <1>4, <1>5 DEF ShapeInv, Draining, Sending, Drainers, buffer
<1>11. \A d \in Callers : pc'[d] = pc[d] /\ call'[d] = call[d]
  BY <1>4
<1>12. \A x \in Workers : owner'[x] = IF x = w THEN c ELSE owner[x]
  BY <1>1 DEF ShapeInv, LedgerType
<1>13. \A x \in Workers : /\ pc'[x] \in Sending \cup {"unused"}
                          /\ pc'[x] \in Sending => call'[x] = "send"
                          /\ owner'[x] = None <=> pc'[x] = "unused"
                          /\ owner'[x] # None => pc'[owner'[x]] = "pool"
  BY <1>1, <1>4, <1>5, <1>11, <1>12 DEF ShapeInv, LedgerType, Sending
<1>14. \A d \in Callers : erred'[d] => pc'[d] = "pool"
  BY <1>1, <1>11 DEF ShapeInv
<1>15. \A d \in Callers : pc'[d] # "unused" /\ call'[d] # "send"
  BY <1>11 DEF ShapeInv
<1> QED
  BY <1>3, <1>9, <1>10, <1>13, <1>14, <1>15 DEF ShapeInv

(* A worker that is done is free again.                                    *)
LEMMA EndsShape ==
    ASSUME ShapeInv, NEW w \in Workers, WorkerEnds(w)
    PROVE  ShapeInv'
<1> USE ClientAssumption DEF Threads
<1>1. /\ pc[w] \in {"sent", "failed"}
      /\ pc' = [pc EXCEPT ![w] = "unused"] /\ call' = [call EXCEPT ![w] = "none"]
      /\ body' = [body EXCEPT ![w] = {}] /\ owner' = [owner EXCEPT ![w] = None]
      /\ erred' = erred \/ erred' = [erred EXCEPT ![owner[w]] = TRUE]
      /\ UNCHANGED <<state, buffer, todo, issued>>
  BY DEF WorkerEnds, Step, history
<1>2. owner[w] \in Callers /\ pc[owner[w]] = "pool" /\ call[w] = "send"
  BY <1>1 DEF ShapeInv, LedgerType, Sending
<1>3. LedgerType'
  BY <1>1, <1>2 DEF ShapeInv, LedgerType, Labels, state, buffer
<1>4. \A t \in Threads \ {w} : pc'[t] = pc[t] /\ call'[t] = call[t] /\ body'[t] = body[t]
  BY <1>1 DEF ShapeInv, LedgerType
<1>5. pc'[w] = "unused" /\ call'[w] = "none" /\ body'[w] = {} /\ todo'[w] = <<>>
  BY <1>1, <1>2 DEF ShapeInv, LedgerType, Fits, Writing
<1>6. Fits(pc[w], call[w], todo[w], body[w])'
  BY <1>5 DEF Fits, Sending
<1>7. \A t \in Threads : Fits(pc[t], call[t], todo[t], body[t])'
  BY <1>1, <1>4, <1>6 DEF ShapeInv
<1>8. \A t \in Threads : drainer' = t <=> Draining(pc'[t], call'[t])
  BY <1>1, <1>2, <1>4, <1>5 DEF ShapeInv, Draining, Sending, Drainers, buffer
<1>9. \A c \in Callers : pc'[c] = pc[c] /\ call'[c] = call[c]
  BY <1>4
<1>10. \A x \in Workers : owner'[x] = IF x = w THEN None ELSE owner[x]
  BY <1>1 DEF ShapeInv, LedgerType
<1>11. \A x \in Workers : /\ pc'[x] \in Sending \cup {"unused"}
                          /\ pc'[x] \in Sending => call'[x] = "send"
                          /\ owner'[x] = None <=> pc'[x] = "unused"
                          /\ owner'[x] # None => pc'[owner'[x]] = "pool"
  BY <1>4, <1>5, <1>9, <1>10 DEF ShapeInv, LedgerType, Sending
<1>12. \A c \in Callers : erred'[c] => erred[c] \/ c = owner[w]
  BY <1>1 DEF ShapeInv, LedgerType
<1>13. \A c \in Callers : erred'[c] => pc'[c] = "pool"
  BY <1>2, <1>9, <1>12 DEF ShapeInv
<1> QED
  BY <1>3, <1>7, <1>8, <1>9, <1>11, <1>13 DEF ShapeInv

(* A method returns or raises and, if it was draining, lets the lock go.   *)
LEMMA EndsCall ==
    ASSUME ShapeInv, NEW c \in Callers, NEW from, NEW to \in {"idle", "raised"},
           from # "pool", Ends(c, from, to),
           {optedIn', closed', buffered', accepting'} \subseteq BOOLEAN,
           issued' \in 0..MaxEvents, line' \in Seq(Events),
           \/ drainer' = drainer /\ ~Draining(from, call[c])
           \/ drainer = c /\ drainer' = None
    PROVE  ShapeInv'
<1>1. pc[c] = from /\ Turns(c, to, "none", <<>>, {}) /\ UNCHANGED <<owner, erred>>
  BY DEF Ends, Step, Turns
<1>2. Fits(to, "none", <<>>, {}) /\ ~Draining(to, "none")
  BY DEF Fits, Draining, Sending, Writing, Reads
<1>3. /\ to \in Labels \ {"unused"} /\ "none" \in {"none"} \cup Methods
      /\ <<>> \in Seq(Events) /\ {} \in SUBSET Events
  BY EmptySeq DEF Labels
<1>4. \/ drainer' = drainer /\ (Draining(to, "none") <=> Draining(pc[c], call[c]))
      \/ drainer = None /\ drainer' = c /\ Draining(to, "none")
      \/ drainer = c /\ drainer' = None /\ ~Draining(to, "none")
  BY <1>1, <1>2
<1> QED
  BY <1>1, <1>2, <1>3, <1>4, ShapeStep

(* Every step leads to where a thread may be, with what it may hold there. *)
LEMMA ShapeNext ==
    ASSUME ShapeInv, Next
    PROVE  ShapeInv'
<1>1. ASSUME NEW c \in Callers, WriteOrRead(c)
      PROVE  ShapeInv'
  <2> c \in Threads
    BY DEF Threads
  <2>1. CASE WriteBegins(c)
    <3>1. PICK m \in {"track", "consent"} : Calls(c, m, "open")
      BY <2>1 DEF WriteBegins
    <3>2. /\ pc[c] = "idle" /\ Turns(c, "open", m, Numbers(1), body[c])
          /\ issued' = issued + 1 /\ issued' <= MaxEvents
          /\ UNCHANGED <<state, buffer, owner, erred>>
      BY <2>1, <3>1 DEF WriteBegins, Calls, Step, Writes, Turns, ShapeInv, LedgerType
    <3>3. Numbers(1) \in Seq(Events) /\ Numbers(1) # <<>> /\ issued' \in 0..MaxEvents
      BY <3>2, OneNumber, ClientAssumption DEF ShapeInv, LedgerType
    <3>4. Fits("open", m, Numbers(1), body[c])
      BY <3>2, <3>3 DEF ShapeInv, Fits, Sending, Writing, Drainers, Reads
    <3>5. ~Draining("open", m) /\ ~Draining(pc[c], call[c])
      BY <3>2 DEF Draining, Sending
    <3> QED
      BY <3>2, <3>3, <3>4, <3>5, ShapeStep, CallerTypes DEF Labels, Methods, state, buffer
  <2>2. CASE ReadBegins(c)
    <3>1. PICK m \in Reads : Calls(c, m, "open")
      BY <2>2 DEF ReadBegins
    <3>2. pc[c] = "idle" /\ Turns(c, "open", m, todo[c], body[c])
      BY <2>2, <3>1 DEF ReadBegins, Calls, Step, Turns, ShapeInv, LedgerType
    <3>3. Fits("open", m, todo[c], body[c])
      BY <2>2, <3>1, <3>2 DEF ShapeInv, Fits, Sending, Writing, Drainers, Reads
    <3>4. Draining("open", m) <=> Draining(pc[c], call[c])
      BY <2>2, <3>1, <3>2 DEF Draining, Sending, Drainers, Reads, Writing, ShapeInv, Fits,
         ReadBegins
    <3> QED
      BY <2>2, <3>1, <3>2, <3>3, <3>4, ShapeStep, CallerTypes DEF ReadBegins, Calls, Step,
         Labels, Methods, state, buffer, history
  <2>3. CASE AssertsOpen(c)
    <3>1. CASE Ends(c, "open", "raised")
      <4>1. ~Draining("open", call[c])
        BY DEF Draining, Sending
      <4> QED
        BY <2>3, <3>1, <4>1, EndsCall, CallerTypes DEF AssertsOpen, state, buffer, history
    <3>2. CASE /\ Step(c, "open", IF call[c] \in Reads THEN "path" ELSE "gate")
               /\ UNCHANGED <<call, todo, body, owner, erred>>
      <4>1. /\ pc[c] = "open"
            /\ Turns(c, IF call[c] \in Reads THEN "path" ELSE "gate", call[c], todo[c], body[c])
        BY <3>2 DEF Step, Turns, ShapeInv, LedgerType
      <4>2. /\ Fits(IF call[c] \in Reads THEN "path" ELSE "gate", call[c], todo[c], body[c])
            /\ ~Draining(IF call[c] \in Reads THEN "path" ELSE "gate", call[c])
            /\ ~Draining(pc[c], call[c])
        BY <4>1 DEF ShapeInv, Fits, Draining, Sending, Writing, Drainers, Reads
      <4> QED
        BY <2>3, <3>2, <4>1, <4>2, ShapeStep, CallerTypes DEF AssertsOpen, Labels, state,
           buffer, history
    <3> QED
      BY <2>3, <3>1, <3>2 DEF AssertsOpen
  <2>4. CASE PassesGate(c)
    <3>1. pc[c] = "gate" /\ call[c] \in Writing /\ UNCHANGED <<state, buffer, owner, erred, issued>>
      BY <2>4 DEF PassesGate, Step, ShapeInv, Fits, history
    <3>2. CASE buffered /\ call[c] # "consent"
      <4>1. Turns(c, "enqueue", call[c], todo[c], body[c])
        BY <2>4, <3>2 DEF PassesGate, Step, Turns, ShapeInv, LedgerType
      <4>2. /\ Fits("enqueue", call[c], todo[c], body[c])
            /\ ~Draining("enqueue", call[c]) /\ ~Draining(pc[c], call[c])
        BY <3>1, <3>2 DEF ShapeInv, Fits, Draining, Sending, Writing, Drainers, Reads
      <4> QED
        BY <3>1, <4>1, <4>2, ShapeStep, CallerTypes DEF Labels, state, buffer
    <3>3. CASE ~(buffered /\ call[c] # "consent")
      <4> DEFINE p == IF call[c] = "consent" THEN "path" ELSE "sendGate"
                 nothing == SubSeq(todo[c], 1, 0)
      <4>1. nothing = <<>> /\ nothing \in Seq(Events) /\ Range(todo[c]) \in SUBSET Events
        BY EmptySeq, RangeOfSeq, CallerTypes, SubSeqEmpty
      <4>2. Turns(c, p, call[c], nothing, Range(todo[c]))
        BY <2>4, <3>3, <4>1 DEF PassesGate, Step, Turns, ShapeInv, LedgerType
      <4>3. /\ Fits(p, call[c], nothing, Range(todo[c]))
            /\ ~Draining(p, call[c]) /\ ~Draining(pc[c], call[c])
        BY <3>1, <4>1 DEF Fits, Draining, Sending, Writing, Drainers, Reads
      <4>4. p \in Labels \ {"unused"}
        BY DEF Labels
      <4> HIDE DEF p, nothing
      <4> QED
        BY <3>1, <4>1, <4>2, <4>3, <4>4, ShapeStep, CallerTypes DEF state, buffer
    <3> QED
      BY <3>2, <3>3
  <2>5. CASE DiscardsQuietly(c)
    <3>1. Ends(c, "gate", "idle")
      BY <2>5 DEF DiscardsQuietly
    <3>2. ~Draining("gate", call[c])
      BY <2>5, <3>1 DEF DiscardsQuietly, Draining, Sending, Drainers, ShapeInv, Fits,
         Writing, Reads, Ends, Step
    <3> QED
      BY <2>5, <3>1, <3>2, EndsCall, CallerTypes DEF DiscardsQuietly, state, buffer, history
  <2>6. CASE Enqueues(c)
    <3>1. /\ UNCHANGED <<state, accepting, drainer, issued>> /\ line' \in Seq(Events)
          /\ MovesOn(c)
      <4>1. pc[c] = "enqueue"
        BY <2>6 DEF Enqueues, MovesOn, Ends, Step
      <4>2. Head(todo[c]) \in Events
        BY <4>1, TodoIsMore DEF ShapeInv, Fits, Threads
      <4> QED
        BY <2>6, <4>2, CallerTypes, AppendProperties DEF Enqueues
    <3>2. CASE MovesOn(c) /\ Len(todo[c]) # 1
      <4>1. /\ pc[c] = "enqueue" /\ call[c] \in {"track", "track_batch"} /\ todo[c] # <<>>
            /\ Turns(c, "enqueue", call[c], Tail(todo[c]), body[c]) /\ UNCHANGED <<owner, erred>>
        BY <3>2 DEF MovesOn, Turns, ShapeInv, LedgerType, Fits
      <4>2. Tail(todo[c]) \in Seq(Events) /\ Tail(todo[c]) # <<>> /\ Head(todo[c]) \in Events
        BY <3>2, <4>1, TodoIsMore
      <4>3. Fits("enqueue", call[c], Tail(todo[c]), body[c]) /\ ~Draining("enqueue", call[c])
        BY <4>1, <4>2 DEF ShapeInv, Fits, Draining, Sending, Writing, Reads
      <4> QED
        BY <3>1, <4>1, <4>2, <4>3, ShapeStep, CallerTypes DEF Labels, state, buffer
    <3>3. CASE Ends(c, "enqueue", "idle")
      <4>1. ~Draining("enqueue", call[c])
        BY DEF Draining, Sending
      <4> QED
        BY <3>1, <3>3, <4>1, EndsCall, CallerTypes DEF state
    <3> QED
      BY <3>1, <3>2, <3>3 DEF MovesOn
  <2>7. CASE TurnedAway(c)
    <3>1. UNCHANGED <<state, buffer, issued>>
      BY <2>7 DEF TurnedAway
    <3>2. CASE MovesOn(c) /\ Len(todo[c]) # 1
      <4>1. /\ pc[c] = "enqueue" /\ call[c] \in {"track", "track_batch"} /\ todo[c] # <<>>
            /\ Turns(c, "enqueue", call[c], Tail(todo[c]), body[c]) /\ UNCHANGED <<owner, erred>>
        BY <3>2 DEF MovesOn, Turns, ShapeInv, LedgerType, Fits
      <4>2. Tail(todo[c]) \in Seq(Events) /\ Tail(todo[c]) # <<>> /\ Head(todo[c]) \in Events
        BY <3>2, <4>1, TodoIsMore
      <4>3. Fits("enqueue", call[c], Tail(todo[c]), body[c]) /\ ~Draining("enqueue", call[c])
        BY <4>1, <4>2 DEF ShapeInv, Fits, Draining, Sending, Writing, Reads
      <4> QED
        BY <3>1, <4>1, <4>2, <4>3, ShapeStep, CallerTypes DEF Labels, state, buffer
    <3>3. ASSUME NEW to \in {"idle", "raised"}, Ends(c, "enqueue", to)
          PROVE  ShapeInv'
      <4>1. ~Draining("enqueue", call[c])
        BY DEF Draining, Sending
      <4> QED
        BY <3>1, <3>3, <4>1, EndsCall, CallerTypes DEF state, buffer
    <3> QED
      BY <2>7, <3>2, <3>3 DEF TurnedAway, MovesOn
  <2>8. CASE Returns(c)
    <3>1. Ends(c, "sent", "idle")
      BY <2>8 DEF Returns
    <3>2. ~Draining("sent", call[c])
      BY <2>8, <3>1 DEF Returns, Draining, Sending, Drainers, ShapeInv, Fits, Writing,
         Reads, Ends, Step
    <3> QED
      BY <2>8, <3>1, <3>2, EndsCall, CallerTypes DEF Returns, state, buffer, history
  <2>9. CASE ServesDefault(c)
    <3>1. Ends(c, "failed", "idle")
      BY <2>9 DEF ServesDefault
    <3>2. ~Draining("failed", call[c])
      BY <2>9, <3>1 DEF ServesDefault, Draining, Sending, Drainers, ShapeInv, Fits,
         Writing, Reads, Ends, Step
    <3> QED
      BY <2>9, <3>1, <3>2, EndsCall, CallerTypes DEF ServesDefault, state, buffer, history
  <2>10. CASE Raises(c)
    <3>1. Ends(c, "failed", "raised")
      BY <2>10 DEF Raises
    <3>2. ~Draining("failed", call[c])
      BY <2>10, <3>1 DEF Raises, Draining, Sending, Drainers, ShapeInv, Fits, Writing,
         Reads, Ends, Step
    <3> QED
      BY <2>10, <3>1, <3>2, EndsCall, CallerTypes DEF Raises, state, buffer, history
  <2>11. CASE Catches(c)
    <3>1. pc[c] = "raised" /\ Turns(c, "idle", call[c], todo[c], body[c])
      BY <2>11 DEF Catches, Step, Turns, ShapeInv, LedgerType
    <3>2. Fits("idle", call[c], todo[c], body[c])
      BY <2>11, <3>1 DEF ShapeInv, Fits, Sending, Writing, Drainers, Reads
    <3>3. Draining("idle", call[c]) <=> Draining(pc[c], call[c])
      BY <2>11, <3>1 DEF Draining, Sending, Drainers, Reads, Writing, ShapeInv, Fits, Catches
    <3> QED
      BY <2>11, <3>1, <3>2, <3>3, ShapeStep, CallerTypes DEF Catches, Step, Labels,
         Methods, state, buffer, history
  <2> QED
    BY <1>1, <2>1, <2>2, <2>3, <2>4, <2>5, <2>6, <2>7, <2>8, <2>9, <2>10, <2>11 DEF WriteOrRead
<1>2. ASSUME NEW c \in Callers, Batch(c)
      PROVE  ShapeInv'
  <2> c \in Threads
    BY DEF Threads
  <2>1. CASE BatchBegins(c)
    BY <2>1, BatchShape
  <2>2. CASE SendsNext(c)
    <3>1. /\ call[c] = "track_batch" /\ pc[c] = "sent"
          /\ ~Draining("sent", call[c]) /\ UNCHANGED <<state, buffer, owner, erred, issued>>
      BY <2>2 DEF SendsNext, Ends, Step, Draining, Drainers, history
    <3>2. CASE Ends(c, "sent", "idle")
      BY <3>1, <3>2, EndsCall, CallerTypes DEF state, buffer
    <3>3. CASE /\ todo[c] # <<>> /\ Step(c, "sent", "sendGate") /\ UNCHANGED call
               /\ todo' = [todo EXCEPT ![c] = Tail(@)]
               /\ body' = [body EXCEPT ![c] = {Head(todo[c])}]
      <4>1. Turns(c, "sendGate", call[c], Tail(todo[c]), {Head(todo[c])})
        BY <3>3 DEF Step, Turns, ShapeInv, LedgerType
      <4>2. Tail(todo[c]) \in Seq(Events) /\ {Head(todo[c])} \in SUBSET Events
        BY <3>3, TodoIsMore
      <4>3. /\ Fits("sendGate", call[c], Tail(todo[c]), {Head(todo[c])})
            /\ ~Draining("sendGate", call[c])
        BY <3>1 DEF Fits, Draining, Sending, Writing, Drainers, Reads
      <4> QED
        BY <3>1, <4>1, <4>2, <4>3, ShapeStep, CallerTypes DEF Labels, state, buffer
    <3> QED
      BY <2>2, <3>2, <3>3 DEF SendsNext
  <2>3. CASE PoolEnds(c)
    <3>1. /\ pc[c] = "pool" /\ todo[c] = <<>>
          /\ Turns(c, IF erred[c] THEN "raised" ELSE "idle", "none", todo[c], body[c])
      BY <2>3 DEF PoolEnds, AllSettled, Step, Turns, ShapeInv, LedgerType
    <3>2. Fits(IF erred[c] THEN "raised" ELSE "idle", "none", todo[c], body[c])
      BY <2>3, <3>1 DEF ShapeInv, Fits, Sending, Writing, Drainers, Reads, PoolEnds
    <3>3. Draining(IF erred[c] THEN "raised" ELSE "idle", "none") <=> Draining(pc[c], call[c])
      BY <2>3, <3>1 DEF Draining, Sending, Drainers, Reads, Writing, ShapeInv, Fits, PoolEnds
    <3> QED
      BY <2>3, <3>1, <3>2, <3>3, ShapeStep, CallerTypes DEF PoolEnds, AllSettled, Step,
         Labels, Methods, state, buffer, history
  <2>4. ASSUME NEW w \in Workers, WorkerTakes(w, c)
        PROVE  ShapeInv'
    BY <2>4, TakesShape
  <2> QED
    BY <1>2, <2>1, <2>2, <2>3, <2>4 DEF Batch
<1>3. ASSUME NEW c \in Callers, Drain(c)
      PROVE  ShapeInv'
  <2> c \in Threads
    BY DEF Threads
  <2>1. CASE FlushBegins(c)
    <3>1. CASE buffered
      <4>1. pc[c] = "idle" /\ Turns(c, "drainLock", "flush", todo[c], body[c])
        BY <2>1, <3>1 DEF FlushBegins, Calls, Step, Turns, ShapeInv, LedgerType
      <4>2. Fits("drainLock", "flush", todo[c], body[c])
        BY <2>1, <3>1, <4>1 DEF ShapeInv, Fits, Sending, Writing, Drainers, Reads, FlushBegins
      <4>3. Draining("drainLock", "flush") <=> Draining(pc[c], call[c])
        BY <2>1, <3>1, <4>1 DEF Draining, Sending, Drainers, Reads, Writing, ShapeInv,
           Fits, FlushBegins
      <4> QED
        BY <2>1, <3>1, <4>1, <4>2, <4>3, ShapeStep, CallerTypes DEF FlushBegins, Calls,
           Step, Labels, Methods, state, buffer, history
    <3>2. CASE ~buffered
      <4>1. pc[c] = "idle" /\ Turns(c, "idle", "none", todo[c], body[c])
        BY <2>1, <3>2 DEF FlushBegins, Calls, Step, Turns, ShapeInv, LedgerType
      <4>2. Fits("idle", "none", todo[c], body[c])
        BY <2>1, <3>2, <4>1 DEF ShapeInv, Fits, Sending, Writing, Drainers, Reads, FlushBegins
      <4>3. Draining("idle", "none") <=> Draining(pc[c], call[c])
        BY <2>1, <3>2, <4>1 DEF Draining, Sending, Drainers, Reads, Writing, ShapeInv,
           Fits, FlushBegins
      <4> QED
        BY <2>1, <3>2, <4>1, <4>2, <4>3, ShapeStep, CallerTypes DEF FlushBegins, Calls,
           Step, Labels, Methods, state, buffer, history
    <3> QED
      BY <2>1, <3>1, <3>2 DEF FlushBegins
  <2>2. CASE DrainLocks(c)
    <3>1. pc[c] = "drainLock" /\ Turns(c, "drain", call[c], todo[c], body[c])
      BY <2>2 DEF DrainLocks, Step, Turns, ShapeInv, LedgerType
    <3>2. Fits("drain", call[c], todo[c], body[c])
      BY <2>2, <3>1 DEF ShapeInv, Fits, Sending, Writing, Drainers, Reads
    <3>3. Draining("drain", call[c])
      BY <2>2, <3>1 DEF Draining, Sending, Drainers, ShapeInv, Fits
    <3> QED
      BY <2>2, <3>1, <3>2, <3>3, ShapeStep, CallerTypes DEF DrainLocks, Step, Labels,
         Methods, state, buffer, history
  <2>3. CASE DrainTakes(c)
    <3>1. PICK n \in 1..Len(line) : body' = [body EXCEPT ![c] = Range(First(n))]
      BY <2>3 DEF DrainTakes
    <3>2. pc[c] = "drain" /\ Turns(c, "sendGate", call[c], todo[c], Range(First(n)))
      BY <2>3, <3>1 DEF DrainTakes, Step, First, Turns, ShapeInv, LedgerType
    <3>3. Fits("sendGate", call[c], todo[c], Range(First(n)))
      BY <2>3, <3>1, <3>2, FirstIsEvents DEF ShapeInv, Fits, Sending, Writing, Drainers, Reads
    <3>4. Draining("sendGate", call[c]) <=> Draining(pc[c], call[c])
      BY <2>3, <3>1, <3>2 DEF Draining, Sending, Drainers, Reads, Writing, ShapeInv, Fits,
         DrainTakes
    <3> QED
      BY <2>3, <3>1, <3>2, <3>3, <3>4, ShapeStep, CallerTypes, FirstIsEvents DEF
         DrainTakes, Step, First, Labels, Methods, state, buffer, history
  <2>4. CASE DrainSent(c)
    <3>1. /\ pc[c] = "sent" /\ call[c] \in Drainers /\ Turns(c, "drain", call[c], todo[c], {})
          /\ UNCHANGED <<state, accepting, drainer, owner, erred, issued>>
      BY <2>4 DEF DrainSent, Drains, Drainers, Again, Step, Turns, ShapeInv, LedgerType, history
    <3>2. line' \in Seq(Events) /\ {} \in SUBSET Events
      BY <2>4, LineLeaves, CallerTypes DEF DrainSent, LeaveLine
    <3>3. /\ Fits("drain", call[c], todo[c], {})
          /\ Draining("drain", call[c]) /\ Draining(pc[c], call[c])
      BY <3>1 DEF ShapeInv, Fits, Draining, Sending, Drainers, Writing, Reads
    <3> QED
      BY <3>1, <3>2, <3>3, ShapeStep, CallerTypes DEF Labels, state
  <2>5. CASE DrainRetries(c)
    <3>1. pc[c] = "failed" /\ Turns(c, "drain", call[c], todo[c], {})
      BY <2>5 DEF DrainRetries, Drains, Again, Step, Turns, ShapeInv, LedgerType
    <3>2. Fits("drain", call[c], todo[c], {})
      BY <2>5, <3>1 DEF ShapeInv, Fits, Sending, Writing, Drainers, Reads, Drains, DrainRetries
    <3>3. Draining("drain", call[c]) <=> Draining(pc[c], call[c])
      BY <2>5, <3>1 DEF Draining, Sending, Drainers, Reads, Writing, ShapeInv, Fits,
         DrainRetries, Drains
    <3> QED
      BY <2>5, <3>1, <3>2, <3>3, ShapeStep, CallerTypes DEF DrainRetries, Drains, Again,
         Step, Labels, Methods, state, buffer, history
  <2>6. CASE DrainDrops(c)
    <3>1. /\ pc[c] = "failed" /\ call[c] \in Drainers /\ Turns(c, "drain", call[c], todo[c], {})
          /\ UNCHANGED <<state, accepting, drainer, owner, erred, issued>>
      BY <2>6 DEF DrainDrops, Drains, Drainers, Again, Step, Turns, ShapeInv, LedgerType, history
    <3>2. line' \in Seq(Events) /\ {} \in SUBSET Events
      BY <2>6, LineLeaves, CallerTypes DEF DrainDrops, LeaveLine
    <3>3. /\ Fits("drain", call[c], todo[c], {})
          /\ Draining("drain", call[c]) /\ Draining(pc[c], call[c])
      BY <3>1 DEF ShapeInv, Fits, Draining, Sending, Drainers, Writing, Reads
    <3> QED
      BY <3>1, <3>2, <3>3, ShapeStep, CallerTypes DEF Labels, state
  <2>7. CASE DrainEnds(c)
    <3>1. /\ Unlocks(c, "drain") /\ drainer = c /\ drainer' = None
          /\ call[c] \in Drainers /\ pc[c] = "drain"
          /\ UNCHANGED <<state, line, issued>> /\ accepting' \in BOOLEAN
      BY <2>7, CallerTypes DEF DrainEnds, Unlocks, Ends, Step, Drains, Drainers, Draining,
         Sending, ShapeInv,
                             Fits, history
    <3>2. CASE call[c] # "close"
      <4>1. Ends(c, "drain", "idle")
        BY <3>1, <3>2 DEF Unlocks
      <4> QED
        BY <3>1, <4>1, EndsCall, CallerTypes DEF state
    <3>3. CASE call[c] = "close"
      <4>1. Turns(c, "stopBuffer", call[c], todo[c], {}) /\ UNCHANGED <<owner, erred>>
        BY <3>1, <3>3 DEF Unlocks, Step, Turns, ShapeInv, LedgerType
      <4>2. /\ Fits("stopBuffer", call[c], todo[c], {}) /\ ~Draining("stopBuffer", call[c])
            /\ {} \in SUBSET Events
        BY <3>1, <3>3 DEF ShapeInv, Fits, Draining, Sending, Drainers, Writing, Reads
      <4> QED
        BY <3>1, <4>1, <4>2, ShapeStep, CallerTypes DEF Labels, state
    <3> QED
      BY <3>2, <3>3
  <2>8. CASE DrainStops(c)
    <3>1. /\ Unlocks(c, "failed") /\ drainer = c /\ drainer' = None
          /\ call[c] \in Drainers /\ pc[c] = "failed"
          /\ UNCHANGED <<state, line, issued>> /\ accepting' \in BOOLEAN
      BY <2>8, CallerTypes DEF DrainStops, Unlocks, Ends, Step, Drains, Drainers, Draining,
         Sending, ShapeInv,
                             Fits, history
    <3>2. CASE call[c] # "close"
      <4>1. Ends(c, "failed", "idle")
        BY <3>1, <3>2 DEF Unlocks
      <4> QED
        BY <3>1, <4>1, EndsCall, CallerTypes DEF state
    <3>3. CASE call[c] = "close"
      <4>1. Turns(c, "stopBuffer", call[c], todo[c], {}) /\ UNCHANGED <<owner, erred>>
        BY <3>1, <3>3 DEF Unlocks, Step, Turns, ShapeInv, LedgerType
      <4>2. /\ Fits("stopBuffer", call[c], todo[c], {}) /\ ~Draining("stopBuffer", call[c])
            /\ {} \in SUBSET Events
        BY <3>1, <3>3 DEF ShapeInv, Fits, Draining, Sending, Drainers, Writing, Reads
      <4> QED
        BY <3>1, <4>1, <4>2, ShapeStep, CallerTypes DEF Labels, state
    <3> QED
      BY <3>2, <3>3
  <2>9. CASE DrainRaises(c)
    <3>1. Ends(c, "failed", "raised")
      BY <2>9 DEF DrainRaises
    <3>2. drainer = c
      BY <2>9, <3>1 DEF DrainRaises, Draining, Sending, Drainers, ShapeInv, Fits, Writing,
         Reads, Ends, Step, Drains
    <3> QED
      BY <2>9, <3>1, <3>2, EndsCall, CallerTypes DEF DrainRaises, state, buffer, history
  <2> QED
    BY <1>3, <2>1, <2>2, <2>3, <2>4, <2>5, <2>6, <2>7, <2>8, <2>9 DEF Drain
<1>4. ASSUME NEW c \in Callers, Close(c)
      PROVE  ShapeInv'
  <2> c \in Threads
    BY DEF Threads
  <2>1. CASE CloseBegins(c)
    <3>1. CASE closed
      <4>1. pc[c] = "idle" /\ Turns(c, "idle", "none", todo[c], body[c])
        BY <2>1, <3>1 DEF CloseBegins, Calls, Step, Turns, ShapeInv, LedgerType
      <4>2. Fits("idle", "none", todo[c], body[c])
        BY <2>1, <3>1, <4>1 DEF ShapeInv, Fits, Sending, Writing, Drainers, Reads, CloseBegins
      <4>3. Draining("idle", "none") <=> Draining(pc[c], call[c])
        BY <2>1, <3>1, <4>1 DEF Draining, Sending, Drainers, Reads, Writing, ShapeInv,
           Fits, CloseBegins
      <4> QED
        BY <2>1, <3>1, <4>1, <4>2, <4>3, ShapeStep, CallerTypes DEF CloseBegins, Calls,
           Step, Labels, Methods, state, buffer, history
    <3>2. CASE ~closed /\ buffered
      <4>1. pc[c] = "idle" /\ Turns(c, "drainLock", "close", todo[c], body[c])
        BY <2>1, <3>2 DEF CloseBegins, Calls, Step, Turns, ShapeInv, LedgerType
      <4>2. Fits("drainLock", "close", todo[c], body[c])
        BY <2>1, <3>2, <4>1 DEF ShapeInv, Fits, Sending, Writing, Drainers, Reads, CloseBegins
      <4>3. Draining("drainLock", "close") <=> Draining(pc[c], call[c])
        BY <2>1, <3>2, <4>1 DEF Draining, Sending, Drainers, Reads, Writing, ShapeInv,
           Fits, CloseBegins
      <4> QED
        BY <2>1, <3>2, <4>1, <4>2, <4>3, ShapeStep, CallerTypes DEF CloseBegins, Calls,
           Step, Labels, Methods, state, buffer, history
    <3>3. CASE ~closed /\ ~buffered
      <4>1. pc[c] = "idle" /\ Turns(c, "mark", "close", todo[c], body[c])
        BY <2>1, <3>3 DEF CloseBegins, Calls, Step, Turns, ShapeInv, LedgerType
      <4>2. Fits("mark", "close", todo[c], body[c])
        BY <2>1, <3>3, <4>1 DEF ShapeInv, Fits, Sending, Writing, Drainers, Reads, CloseBegins
      <4>3. Draining("mark", "close") <=> Draining(pc[c], call[c])
        BY <2>1, <3>3, <4>1 DEF Draining, Sending, Drainers, Reads, Writing, ShapeInv,
           Fits, CloseBegins
      <4> QED
        BY <2>1, <3>3, <4>1, <4>2, <4>3, ShapeStep, CallerTypes DEF CloseBegins, Calls,
           Step, Labels, Methods, state, buffer, history
    <3> QED
      BY <2>1, <3>1, <3>2, <3>3 DEF CloseBegins
  <2>2. CASE StopsBuffer(c)
    <3>1. pc[c] = "stopBuffer" /\ Turns(c, "mark", call[c], todo[c], body[c])
      BY <2>2 DEF StopsBuffer, Step, Turns, ShapeInv, LedgerType
    <3>2. Fits("mark", call[c], todo[c], body[c])
      BY <2>2, <3>1 DEF ShapeInv, Fits, Sending, Writing, Drainers, Reads
    <3>3. Draining("mark", call[c]) <=> Draining(pc[c], call[c])
      BY <2>2, <3>1 DEF Draining, Sending, Drainers, Reads, Writing, ShapeInv, Fits, StopsBuffer
    <3> QED
      BY <2>2, <3>1, <3>2, <3>3, ShapeStep, CallerTypes DEF StopsBuffer, Step, Labels,
         Methods, state, buffer, history
  <2>3. CASE Marks(c)
    <3>1. pc[c] = "mark" /\ Turns(c, "release", call[c], todo[c], body[c])
      BY <2>3 DEF Marks, Step, Turns, ShapeInv, LedgerType
    <3>2. Fits("release", call[c], todo[c], body[c])
      BY <2>3, <3>1 DEF ShapeInv, Fits, Sending, Writing, Drainers, Reads
    <3>3. Draining("release", call[c]) <=> Draining(pc[c], call[c])
      BY <2>3, <3>1 DEF Draining, Sending, Drainers, Reads, Writing, ShapeInv, Fits, Marks
    <3> QED
      BY <2>3, <3>1, <3>2, <3>3, ShapeStep, CallerTypes DEF Marks, Step, Labels, Methods,
         state, buffer, history
  <2>4. CASE Releases(c)
    <3>1. Ends(c, "release", "idle")
      BY <2>4 DEF Releases
    <3>2. ~Draining("release", call[c])
      BY <2>4, <3>1 DEF Releases, Draining, Sending, Drainers, ShapeInv, Fits, Writing,
         Reads, Ends, Step
    <3> QED
      BY <2>4, <3>1, <3>2, EndsCall, CallerTypes DEF Releases, state, buffer, history
  <2> QED
    BY <1>4, <2>1, <2>2, <2>3, <2>4 DEF Close
<1>5. ASSUME NEW c \in Callers, Settings(c)
      PROVE  ShapeInv'
  <2> c \in Threads
    BY DEF Threads
  <2>1. CASE OptsOut(c)
    <3>1. pc[c] = "idle" /\ Turns(c, "idle", "none", todo[c], body[c])
      BY <2>1 DEF OptsOut, Calls, Step, Turns, ShapeInv, LedgerType
    <3>2. Fits("idle", "none", todo[c], body[c])
      BY <2>1, <3>1 DEF ShapeInv, Fits, Sending, Writing, Drainers, Reads
    <3>3. Draining("idle", "none") <=> Draining(pc[c], call[c])
      BY <2>1, <3>1 DEF Draining, Sending, Drainers, Reads, Writing, ShapeInv, Fits, OptsOut
    <3> QED
      BY <2>1, <3>1, <3>2, <3>3, ShapeStep, CallerTypes DEF OptsOut, Calls, Step, Labels,
         Methods, state, buffer, history
  <2>2. CASE OptsIn(c)
    <3>1. pc[c] = "idle" /\ Turns(c, "idle", "none", todo[c], body[c])
      BY <2>2 DEF OptsIn, Calls, Step, Turns, ShapeInv, LedgerType
    <3>2. Fits("idle", "none", todo[c], body[c])
      BY <2>2, <3>1 DEF ShapeInv, Fits, Sending, Writing, Drainers, Reads
    <3>3. Draining("idle", "none") <=> Draining(pc[c], call[c])
      BY <2>2, <3>1 DEF Draining, Sending, Drainers, Reads, Writing, ShapeInv, Fits, OptsIn
    <3> QED
      BY <2>2, <3>1, <3>2, <3>3, ShapeStep, CallerTypes DEF OptsIn, Calls, Step, Labels,
         Methods, state, buffer, history
  <2>3. CASE SetConfigBegins(c)
    <3>1. pc[c] = "idle" /\ Turns(c, "assign", "set_config", todo[c], body[c])
      BY <2>3 DEF SetConfigBegins, Calls, Step, Turns, ShapeInv, LedgerType
    <3>2. Fits("assign", "set_config", todo[c], body[c])
      BY <2>3, <3>1 DEF ShapeInv, Fits, Sending, Writing, Drainers, Reads
    <3>3. Draining("assign", "set_config") <=> Draining(pc[c], call[c])
      BY <2>3, <3>1 DEF Draining, Sending, Drainers, Reads, Writing, ShapeInv, Fits, SetConfigBegins
    <3> QED
      BY <2>3, <3>1, <3>2, <3>3, ShapeStep, CallerTypes DEF SetConfigBegins, Calls, Step,
         Labels, Methods, state, buffer, history
  <2>4. CASE Assigns(c)
    <3>1. pc[c] = "assign" /\ Turns(c, "arg", call[c], todo[c], body[c])
      BY <2>4 DEF Assigns, Step, Turns, ShapeInv, LedgerType
    <3>2. Fits("arg", call[c], todo[c], body[c])
      BY <2>4, <3>1 DEF ShapeInv, Fits, Sending, Writing, Drainers, Reads
    <3>3. Draining("arg", call[c]) <=> Draining(pc[c], call[c])
      BY <2>4, <3>1 DEF Draining, Sending, Drainers, Reads, Writing, ShapeInv, Fits, Assigns
    <3> QED
      BY <2>4, <3>1, <3>2, <3>3, ShapeStep, CallerTypes DEF Assigns, Step, Labels, Methods,
         state, buffer, history
  <2>5. CASE PassesOn(c)
    <3>1. pc[c] = "arg" /\ Turns(c, "apply", call[c], todo[c], body[c])
      BY <2>5 DEF PassesOn, Step, Turns, ShapeInv, LedgerType
    <3>2. Fits("apply", call[c], todo[c], body[c])
      BY <2>5, <3>1 DEF ShapeInv, Fits, Sending, Writing, Drainers, Reads
    <3>3. Draining("apply", call[c]) <=> Draining(pc[c], call[c])
      BY <2>5, <3>1 DEF Draining, Sending, Drainers, Reads, Writing, ShapeInv, Fits, PassesOn
    <3> QED
      BY <2>5, <3>1, <3>2, <3>3, ShapeStep, CallerTypes DEF PassesOn, Step, Labels,
         Methods, state, buffer, history
  <2>6. CASE Applies(c)
    <3>1. Ends(c, "apply", "idle")
      BY <2>6 DEF Applies
    <3>2. ~Draining("apply", call[c])
      BY <2>6, <3>1 DEF Applies, Draining, Sending, Drainers, ShapeInv, Fits, Writing,
         Reads, Ends, Step
    <3> QED
      BY <2>6, <3>1, <3>2, EndsCall, CallerTypes DEF Applies, state, buffer, history
  <2> QED
    BY <1>5, <2>1, <2>2, <2>3, <2>4, <2>5, <2>6 DEF Settings
<1>6. ASSUME NEW t \in Threads, Send(t)
      PROVE  ShapeInv'
  <2>1. CASE PassesSendGate(t)
    BY <2>1, SendShape DEF PassesSendGate, Step, Sending, history
  <2>2. CASE Discards(t)
    BY <2>2, SendShape DEF Discards, Step, Sending, history
  <2>3. CASE ReadsPath(t)
    BY <2>3, SendShape DEF ReadsPath, Step, Sending, history
  <2>4. CASE Begins(t)
    BY <2>4, SendShape DEF Begins, Posts, Step, Sending, history
  <2>5. CASE Unserialisable(t)
    BY <2>5, SendShape DEF Unserialisable, Posts, Step, Sending, history
  <2>6. CASE Refused(t)
    BY <2>6, SendShape DEF Refused, Posts, Step, Sending, history
  <2>7. CASE CannotStart(t)
    BY <2>7, SendShape DEF CannotStart, Posts, Step, Sending, history
  <2>8. CASE CannotEncode(t)
    BY <2>8, SendShape DEF CannotEncode, Posts, Step, Sending, history
  <2>9. CASE Accepted(t)
    BY <2>9, SendShape DEF Accepted, Step, Sending, history
  <2>10. CASE Rejected(t)
    BY <2>10, SendShape DEF Rejected, Step, Sending, history
  <2> QED
    BY <1>6, <2>1, <2>2, <2>3, <2>4, <2>5, <2>6, <2>7, <2>8, <2>9, <2>10 DEF Send
<1>7. ASSUME NEW w \in Workers, WorkerEnds(w)
      PROVE  ShapeInv'
  BY <1>7, EndsShape
<1>8. CASE Quiescent
  BY <1>8 DEF Quiescent, vars, state, buffer, local, history, ShapeInv, LedgerType
<1> QED
  BY <1>1, <1>2, <1>3, <1>4, <1>5, <1>6, <1>7, <1>8 DEF Next
-----------------------------------------------------------------------------
(* Where each event is                                                     *)

(* At first there are no events.                                           *)
LEMMA PlaceInit == Init => PlaceInv
<1> SUFFICES ASSUME Init PROVE PlaceInv
  OBVIOUS
<1>1. /\ <<>> \in Seq(Numbered) /\ Range(<<>>) = {} /\ IsInjective(<<>>)
      /\ \A t \in Threads : todo[t] = <<>> /\ body[t] = {}
  BY EmptySeq DEF Init, Range, IsInjective
<1> QED
  BY <1>1, ClientAssumption DEF Init, PlaceInv

(* Thread t, which is not draining, shuffles what it holds: what it has yet*)
(* to hand over may go to its request, and either may gain new numbers.    *)
Handles(t) ==
    /\ drainer # t
    /\ UNCHANGED <<line, drainer, delivered>>
    /\ \A u \in Threads \ {t} : pc'[u] = pc[u] /\ todo'[u] = todo[u] /\ body'[u] = body[u]
    /\ issued' \in Nat /\ issued <= issued'
    /\ todo'[t] \in Seq(Numbered') /\ IsInjective(todo'[t])
    /\ Range(todo'[t]) \subseteq Range(todo[t]) \cup (issued + 1)..issued'
    /\ body'[t] \subseteq body[t] \cup Range(todo[t]) \cup (issued + 1)..issued'
    /\ Range(todo'[t]) \cap body'[t] = {}

(* No event gets to a second place thereby.                                *)
LEMMA HandlesStep ==
    ASSUME ShapeInv, PlaceInv, NEW t \in Threads, Handles(t)
    PROVE  PlaceInv'
<1>1. issued \in Nat
  BY ClientAssumption DEF ShapeInv, LedgerType
<1>2. Numbered \subseteq Numbered' /\ (issued + 1)..issued' \subseteq Numbered'
      /\ Numbered \cap (issued + 1)..issued' = {}
  BY <1>1 DEF Handles, Numbered
<1>3. \A u \in Threads : Range(todo[u]) \subseteq Numbered /\ body[u] \subseteq Numbered
  BY RangeOfSeq DEF PlaceInv
<1>4. Range(line) \subseteq Numbered /\ delivered \subseteq Numbered
  BY RangeOfSeq DEF PlaceInv
<1>5. line' \in Seq(Numbered') /\ IsInjective(line')
  BY <1>2, SeqMonotonic DEF PlaceInv, Handles
<1>6. \A u \in Threads : /\ todo'[u] \in Seq(Numbered') /\ IsInjective(todo'[u])
                         /\ body'[u] \subseteq Numbered'
  <2>1. todo'[t] \in Seq(Numbered') /\ IsInjective(todo'[t]) /\ body'[t] \subseteq Numbered'
    BY <1>2, <1>3 DEF Handles
  <2>2. ASSUME NEW u \in Threads \ {t}
        PROVE  todo'[u] \in Seq(Numbered') /\ IsInjective(todo'[u]) /\ body'[u] \subseteq Numbered'
    <3>1. todo'[u] = todo[u] /\ body'[u] = body[u] /\ todo[u] \in Seq(Numbered)
      BY DEF Handles, PlaceInv
    <3>2. todo[u] \in Seq(Numbered')
      BY <1>2, <3>1, SeqMonotonic
    <3> QED
      BY <1>2, <3>1, <3>2 DEF PlaceInv
  <2> QED
    BY <2>1, <2>2
<1>7. \A u \in Threads : /\ Range(todo'[u]) \cap Range(line') = {}
                         /\ Range(todo'[u]) \cap delivered' = {}
                         /\ drainer' # u => body'[u] \cap Range(line') = {}
  <2>1. /\ Range(todo'[t]) \cap Range(line') = {} /\ Range(todo'[t]) \cap delivered' = {}
        /\ body'[t] \cap Range(line') = {}
    BY <1>2, <1>4 DEF Handles, PlaceInv
  <2> QED
    BY <2>1 DEF Handles, PlaceInv
<1>8. \A u, v \in Threads : Range(todo'[u]) \cap body'[v] = {}
  <2>1. \A u \in Threads \ {t} : /\ Range(todo'[u]) \cap body'[t] = {}
                                 /\ Range(todo'[t]) \cap body'[u] = {}
    <3> SUFFICES ASSUME NEW u \in Threads \ {t}
                 PROVE  /\ Range(todo'[u]) \cap body'[t] = {}
                        /\ Range(todo'[t]) \cap body'[u] = {}
      OBVIOUS
    <3>1. /\ Range(todo[u]) \cap body[t] = {} /\ Range(todo[t]) \cap body[u] = {}
          /\ Range(todo[u]) \cap Range(todo[t]) = {}
      BY DEF PlaceInv
    <3>2. todo'[u] = todo[u] /\ body'[u] = body[u]
      BY DEF Handles
    <3> QED
      BY <1>2, <1>3, <3>1, <3>2 DEF Handles
  <2>2. \A u, v \in Threads \ {t} : Range(todo'[u]) \cap body'[v] = {}
    BY DEF Handles, PlaceInv
  <2> QED
    BY <2>1, <2>2 DEF Handles
<1>9. \A u, v \in Threads : u # v => Range(todo'[u]) \cap Range(todo'[v]) = {}
  <2>1. \A u \in Threads \ {t} : Range(todo'[u]) \cap Range(todo'[t]) = {}
    BY <1>2, <1>3 DEF Handles, PlaceInv
  <2>2. \A u, v \in Threads \ {t} : u # v => Range(todo'[u]) \cap Range(todo'[v]) = {}
    BY DEF Handles, PlaceInv
  <2> QED
    BY <2>1, <2>2
<1>10. \A u \in Threads : drainer' = u /\ pc'[u] # "drain" =>
           \E n \in 1..Len(line') : body'[u] = Range(First(n)')
  BY DEF Handles, PlaceInv, First
<1>11. \A e \in delivered' \cap Range(line') :
           \E u \in Threads : drainer' = u /\ pc'[u] = "sent" /\ e \in body'[u]
  BY DEF Handles, PlaceInv
<1>12. delivered' \subseteq Numbered'
  BY <1>2, <1>4 DEF Handles
<1> QED
  BY <1>5, <1>6, <1>7, <1>8, <1>9, <1>10, <1>11, <1>12 DEF PlaceInv

(* It keeps or forgets what it holds.                                      *)
Keeps(t) ==
    /\ drainer # t
    /\ UNCHANGED <<line, drainer, delivered, issued>>
    /\ \E p \in Labels : pc' = [pc EXCEPT ![t] = p]
    /\ todo' = todo \/ todo' = [todo EXCEPT ![t] = <<>>]
    /\ body' = body \/ body' = [body EXCEPT ![t] = {}]

(* No event gets to a second place thereby.                                *)
LEMMA KeepsStep ==
    ASSUME ShapeInv, PlaceInv, NEW t \in Threads, Keeps(t)
    PROVE  PlaceInv'
<1>1. /\ <<>> \in Seq(Numbered) /\ Range(<<>>) = {} /\ IsInjective(<<>>)
      /\ issued \in Nat
  BY EmptySeq, ClientAssumption DEF Range, IsInjective, ShapeInv, LedgerType
<1>2. /\ todo'[t] = todo[t] \/ todo'[t] = <<>>
      /\ body'[t] = body[t] \/ body'[t] = {}
      /\ \A u \in Threads \ {t} : pc'[u] = pc[u] /\ todo'[u] = todo[u] /\ body'[u] = body[u]
  BY DEF Keeps, ShapeInv, LedgerType
<1>3. /\ todo'[t] \in Seq(Numbered') /\ IsInjective(todo'[t])
      /\ Range(todo'[t]) \subseteq Range(todo[t])
      /\ Range(todo'[t]) \cap body'[t] = {}
  BY <1>1, <1>2 DEF PlaceInv, Keeps, Numbered
<1>4. Handles(t)
  BY <1>1, <1>2, <1>3 DEF Handles, Keeps
<1> QED
  BY <1>4, HandlesStep

(* A request goes on.                                                      *)
LEMMA RequestStep ==
    ASSUME ShapeInv, PlaceInv, NEW t \in Threads, NEW p \in Sending,
           pc[t] \in Sending \ {"sent"}, pc' = [pc EXCEPT ![t] = p],
           UNCHANGED <<issued, line, todo, body, drainer, delivered>>
    PROVE  PlaceInv'
<1>1. pc'[t] = p /\ \A u \in Threads \ {t} : pc'[u] = pc[u]
  BY DEF ShapeInv, LedgerType
<1>2. \A u \in Threads : drainer' = u /\ pc'[u] # "drain" =>
          \E n \in 1..Len(line') : body'[u] = Range(First(n)')
  BY <1>1 DEF PlaceInv, First, Sending
<1>3. \A e \in delivered' \cap Range(line') :
          \E u \in Threads : drainer' = u /\ pc'[u] = "sent" /\ e \in body'[u]
  BY <1>1 DEF PlaceInv
<1> QED
  BY ZenonT(40), <1>2, <1>3 DEF PlaceInv, Numbered

(* The drainer, its request done with, goes on draining or lets the lock   *)
(* go; somebody takes the lock.                                            *)
LockMoves(t) ==
    /\ UNCHANGED <<issued, line, todo, delivered>>
    /\ body' = [body EXCEPT ![t] = {}]
    /\ \E p \in Labels : pc' = [pc EXCEPT ![t] = p]
    /\ drainer = t => pc[t] # "sent"
    /\ drainer \in {t, None}
    /\ drainer' = None \/ (drainer' = t /\ pc'[t] = "drain")

(* The line is as it was, with nothing of it delivered.                    *)
LEMMA LockMovesStep ==
    ASSUME ShapeInv, PlaceInv, NEW t \in Threads, LockMoves(t)
    PROVE  PlaceInv'
<1>1. /\ body'[t] = {}
      /\ \A u \in Threads \ {t} : pc'[u] = pc[u] /\ body'[u] = body[u]
  BY DEF LockMoves, ShapeInv, LedgerType
<1>2. delivered \cap Range(line) = {}
  BY ClientAssumption DEF LockMoves, PlaceInv
<1>3. \A u \in Threads : u # t => drainer # u
  BY ClientAssumption DEF LockMoves
<1>4. \A u \in Threads : body'[u] \subseteq Numbered /\ body'[u] \cap Range(line) = {}
  BY <1>1, <1>3 DEF PlaceInv
<1>5. \A u, v \in Threads : Range(todo[u]) \cap body'[v] = {}
  BY <1>1 DEF PlaceInv
<1>6. \A u \in Threads : drainer' = u => u = t /\ pc'[u] = "drain"
  BY ClientAssumption DEF LockMoves
<1> QED
  BY <1>2, <1>4, <1>5, <1>6 DEF PlaceInv, LockMoves, Numbered

(* The places in line and in requests that change otherwise.               *)
LEMMA EnqueuesPlace ==
    ASSUME ShapeInv, PlaceInv, NEW c \in Callers, Enqueues(c)
    PROVE  PlaceInv'
<1> DEFINE e == Head(todo[c])
<1>1. /\ c \in Threads /\ pc[c] = "enqueue" /\ drainer # c /\ todo[c] # <<>> /\ body[c] = {}
      /\ UNCHANGED <<issued, drainer, delivered>> /\ line' = Append(line, e)
      /\ \A t \in Threads : body'[t] = body[t]
      /\ \A t \in Threads \ {c} : pc'[t] = pc[t] /\ todo'[t] = todo[t]
      /\ todo'[c] = Tail(todo[c]) \/ todo'[c] = <<>>
  <2>1. c \in Threads /\ pc[c] = "enqueue"
    BY DEF Enqueues, MovesOn, Ends, Step, Threads
  <2>2. drainer # c /\ todo[c] # <<>> /\ body[c] = {}
    BY <2>1 DEF ShapeInv, Fits, Draining, Sending
  <2>3. body' = body \/ body' = [body EXCEPT ![c] = {}]
    BY DEF Enqueues, MovesOn, Ends
  <2>4. \A t \in Threads : body'[t] = body[t]
    BY <2>1, <2>2, <2>3 DEF ShapeInv, LedgerType
  <2> QED
    BY <2>1, <2>2, <2>4 DEF Enqueues, MovesOn, Ends, Step, ShapeInv, LedgerType
<1>2. /\ Tail(todo[c]) \in Seq(Numbered) /\ IsInjective(Tail(todo[c]))
      /\ Range(Tail(todo[c])) = Range(todo[c]) \ {e}
      /\ e \in Range(todo[c]) /\ e \in Numbered
  BY <1>1, TailOne, RangeOfSeq DEF PlaceInv
<1>3. /\ <<>> \in Seq(Numbered) /\ Range(<<>>) = {} /\ IsInjective(<<>>)
  BY EmptySeq DEF Range, IsInjective
<1>4. /\ todo'[c] \in Seq(Numbered) /\ IsInjective(todo'[c])
      /\ Range(todo'[c]) \subseteq Range(todo[c]) \ {e}
  BY <1>1, <1>2, <1>3
<1>5. e \notin Range(line) /\ e \notin delivered /\ \A t \in Threads : e \notin body[t]
  BY <1>1, <1>2 DEF PlaceInv
<1>6. /\ line' \in Seq(Numbered) /\ IsInjective(line')
      /\ Range(line') = Range(line) \cup {e}
      /\ \A n \in 1..Len(line) : n \in 1..Len(line') /\ First(n)' = First(n)
  BY <1>1, <1>2, <1>5, AppendOne DEF PlaceInv, First
<1> HIDE DEF e
<1>7. \A t \in Threads : /\ todo'[t] \in Seq(Numbered) /\ IsInjective(todo'[t])
                         /\ Range(todo'[t]) \subseteq Range(todo[t])
                         /\ e \notin Range(todo'[t])
  <2>1. \A t \in Threads \ {c} : e \notin Range(todo[t])
    BY <1>1, <1>2 DEF PlaceInv
  <2> QED
    BY <1>1, <1>4, <2>1 DEF PlaceInv
<1>8. \A t \in Threads : drainer' = t /\ pc'[t] # "drain" =>
          \E n \in 1..Len(line') : body'[t] = Range(First(n)')
  BY <1>1, <1>6 DEF PlaceInv
<1>9. \A x \in delivered' \cap Range(line') :
          \E t \in Threads : drainer' = t /\ pc'[t] = "sent" /\ x \in body'[t]
  BY <1>1, <1>5, <1>6 DEF PlaceInv
<1>10. \A t \in Threads : drainer' # t => body'[t] \cap Range(line') = {}
  BY <1>1, <1>5, <1>6 DEF PlaceInv
<1>11. \A t, u \in Threads : Range(todo'[t]) \cap body'[u] = {}
  BY <1>1, <1>7 DEF PlaceInv
<1>12. \A t, u \in Threads : t # u => Range(todo'[t]) \cap Range(todo'[u]) = {}
  BY <1>7 DEF PlaceInv
<1>13. \A t \in Threads : /\ Range(todo'[t]) \cap Range(line') = {}
                          /\ Range(todo'[t]) \cap delivered' = {}
                          /\ body'[t] \subseteq Numbered
  <2> SUFFICES ASSUME NEW t \in Threads
               PROVE  /\ Range(todo'[t]) \cap Range(line') = {}
                      /\ Range(todo'[t]) \cap delivered' = {}
                      /\ body'[t] \subseteq Numbered
    OBVIOUS
  <2>1. Range(todo[t]) \cap Range(line) = {} /\ Range(todo[t]) \cap delivered = {}
    BY DEF PlaceInv
  <2>2. body'[t] \subseteq Numbered
    BY <1>1 DEF PlaceInv
  <2> QED
    BY <1>1, <1>6, <1>7, <2>1, <2>2
<1> QED
  BY <1>1, <1>6, <1>7, <1>8, <1>9, <1>10, <1>11, <1>12, <1>13 DEF PlaceInv, Numbered

(* An event goes from its caller's hands to a worker's request.            *)
LEMMA TakesPlace ==
    ASSUME ShapeInv, PlaceInv, NEW c \in Callers, NEW w \in Workers, WorkerTakes(w, c)
    PROVE  PlaceInv'
<1> DEFINE e == Head(todo[c])
<1>1. /\ c \in Threads /\ w \in Threads /\ c # w
      /\ todo[c] # <<>> /\ drainer # w /\ drainer # c /\ todo[w] = <<>>
      /\ UNCHANGED <<issued, drainer, delivered, line>>
      /\ \A t \in Threads \ {w} : pc'[t] = pc[t] /\ body'[t] = body[t]
      /\ \A t \in Threads \ {c} : todo'[t] = todo[t]
      /\ todo'[c] = Tail(todo[c]) /\ body'[w] = {e}
  <2>1. c \in Threads /\ w \in Threads /\ c # w /\ pc[w] = "unused" /\ pc[c] = "pool"
    BY ClientAssumption DEF WorkerTakes, Step, Threads
  <2>2. drainer # w /\ drainer # c /\ todo[w] = <<>>
    BY <2>1 DEF ShapeInv, Fits, Draining, Sending, Writing
  <2> QED
    BY <2>1, <2>2 DEF WorkerTakes, Step, ShapeInv, LedgerType, buffer, history
<1>2. /\ Tail(todo[c]) \in Seq(Numbered) /\ IsInjective(Tail(todo[c]))
      /\ Range(Tail(todo[c])) = Range(todo[c]) \ {e}
      /\ e \in Range(todo[c]) /\ e \in Numbered
  BY <1>1, TailOne, RangeOfSeq DEF PlaceInv
<1> HIDE DEF e
<1>3. \A t \in Threads : /\ todo'[t] \in Seq(Numbered) /\ IsInjective(todo'[t])
                         /\ Range(todo'[t]) \subseteq Range(todo[t])
                         /\ e \notin Range(todo'[t])
  <2>1. \A t \in Threads \ {c} : e \notin Range(todo[t])
    BY <1>1, <1>2 DEF PlaceInv
  <2> QED
    BY <1>1, <1>2, <2>1 DEF PlaceInv
<1>4. e \notin Range(line)
  BY <1>1, <1>2 DEF PlaceInv
<1>5. \A t \in Threads : /\ body'[t] \subseteq Numbered
                         /\ drainer # t => body'[t] \cap Range(line) = {}
  BY <1>1, <1>2, <1>4 DEF PlaceInv
<1>6. \A t, u \in Threads : Range(todo'[t]) \cap body'[u] = {}
  <2>1. \A t \in Threads : Range(todo'[t]) \cap body'[w] = {}
    BY <1>1, <1>3
  <2>2. \A t \in Threads : \A u \in Threads \ {w} : Range(todo'[t]) \cap body'[u] = {}
    BY ZenonT(40), <1>1, <1>3 DEF PlaceInv
  <2> QED
    BY <2>1, <2>2
<1>7. \A t, u \in Threads : t # u => Range(todo'[t]) \cap Range(todo'[u]) = {}
  BY <1>3 DEF PlaceInv
<1>8. \A t \in Threads : drainer' = t /\ pc'[t] # "drain" =>
          \E n \in 1..Len(line') : body'[t] = Range(First(n)')
  BY <1>1 DEF PlaceInv, First
<1>9. \A x \in delivered' \cap Range(line') :
          \E t \in Threads : drainer' = t /\ pc'[t] = "sent" /\ x \in body'[t]
  BY <1>1 DEF PlaceInv
<1>10. \A t \in Threads : /\ Range(todo'[t]) \cap Range(line) = {}
                           /\ Range(todo'[t]) \cap delivered = {}
  BY <1>3 DEF PlaceInv
<1> QED
  BY <1>1, <1>3, <1>5, <1>6, <1>7, <1>8, <1>9, <1>10 DEF PlaceInv, Numbered

(* A batch is the head of the line; its events stay in line.               *)
LEMMA DrainTakesPlace ==
    ASSUME ShapeInv, PlaceInv, NEW c \in Callers, DrainTakes(c)
    PROVE  PlaceInv'
<1>1. PICK n \in 1..Len(line) : body' = [body EXCEPT ![c] = Range(First(n))]
  BY DEF DrainTakes
<1>2. /\ c \in Threads /\ drainer = c /\ pc'[c] = "sendGate"
      /\ UNCHANGED <<issued, line, todo, drainer, delivered>>
      /\ body'[c] = Range(First(n))
      /\ \A t \in Threads \ {c} : pc'[t] = pc[t] /\ body'[t] = body[t]
  <2>1. c \in Threads /\ pc[c] = "drain"
    BY DEF DrainTakes, Step, Threads
  <2>2. drainer = c
    BY <2>1 DEF ShapeInv, Draining
  <2> QED
    BY <1>1, <2>1, <2>2 DEF DrainTakes, Step, ShapeInv, LedgerType, buffer, history
<1>3. Range(First(n)) \subseteq Range(line) /\ Range(line) \subseteq Numbered
  BY CutHead, RangeOfSeq DEF PlaceInv, First
<1>4. delivered \cap Range(line) = {}
  <2>1. pc[c] = "drain"
    BY DEF DrainTakes, Step
  <2> QED
    BY <1>2, <2>1 DEF PlaceInv
<1>5. \A t \in Threads : drainer' = t => t = c
  BY <1>2
<1>6. \A t, u \in Threads : Range(todo'[t]) \cap body'[u] = {}
  BY <1>2, <1>3 DEF PlaceInv
<1>7. \E k \in 1..Len(line') : body'[c] = Range(First(k)')
  BY <1>2 DEF First
<1>8. \A t \in Threads : body'[t] \subseteq Numbered
                         /\ (drainer # t => body'[t] \cap Range(line) = {})
  BY <1>2, <1>3 DEF PlaceInv
<1> QED
  BY <1>2, <1>4, <1>5, <1>6, <1>7, <1>8 DEF PlaceInv, Numbered

(* As many events leave the line as the request had: those it had.         *)
LEMMA LineLeavesPlace ==
    ASSUME ShapeInv, PlaceInv, NEW c \in Callers, drainer = c, pc[c] \in {"sent", "failed"},
           Again(c, pc[c]), LeaveLine(Cardinality(body[c])), UNCHANGED <<issued, delivered>>
    PROVE  PlaceInv'
<1>1. /\ c \in Threads /\ pc'[c] = "drain" /\ body'[c] = {}
      /\ UNCHANGED <<todo, drainer>>
      /\ \A t \in Threads \ {c} : pc'[t] = pc[t] /\ body'[t] = body[t]
  BY DEF Again, Step, Threads, ShapeInv, LedgerType
<1>2. PICK n \in 1..Len(line) : body[c] = Range(First(n))
  BY <1>1 DEF PlaceInv
<1>3. /\ line' \in Seq(Numbered) /\ IsInjective(line')
      /\ Range(line') = Range(line) \ body[c]
  BY <1>2, CutHead DEF PlaceInv, First, LeaveLine
<1>4. delivered \cap Range(line') = {}
  BY <1>3, ClientAssumption DEF PlaceInv
<1>5. \A t \in Threads : drainer' = t => t = c
  BY <1>1
<1>6. \A t, u \in Threads : Range(todo'[t]) \cap body'[u] = {}
  BY <1>1 DEF PlaceInv
<1>7. \A t \in Threads : /\ body'[t] \subseteq Numbered /\ body'[t] \cap Range(line') = {}
                         /\ Range(todo[t]) \cap Range(line') = {}
  BY <1>1, <1>3 DEF PlaceInv
<1> QED
  BY <1>1, <1>3, <1>4, <1>5, <1>6, <1>7 DEF PlaceInv, Numbered

(* What the service accepts was nobody's to hand over.                     *)
LEMMA AcceptedPlace ==
    ASSUME ShapeInv, PlaceInv, NEW t \in Threads, Accepted(t)
    PROVE  PlaceInv'
<1>1. /\ pc[t] = "wait" /\ pc'[t] = "sent" /\ delivered' = delivered \cup body[t]
      /\ \A u \in Threads \ {t} : pc'[u] = pc[u]
      /\ UNCHANGED <<issued, line, drainer, todo, body>>
  BY DEF Accepted, Step, ShapeInv, LedgerType, buffer
<1>2. \A u \in Threads : Range(todo[u]) \cap delivered' = {}
  BY <1>1 DEF PlaceInv
<1>3. \A u \in Threads : drainer' = u /\ pc'[u] # "drain" =>
          \E n \in 1..Len(line') : body'[u] = Range(First(n)')
  BY <1>1 DEF PlaceInv, First
<1>4. \A e \in delivered' \cap Range(line') :
          \E u \in Threads : drainer' = u /\ pc'[u] = "sent" /\ e \in body'[u]
  <2> SUFFICES ASSUME NEW e \in delivered', e \in Range(line)
               PROVE  \E u \in Threads : drainer' = u /\ pc'[u] = "sent" /\ e \in body'[u]
    BY <1>1
  <2>1. CASE e \in delivered
    BY <1>1, <2>1 DEF PlaceInv
  <2>2. CASE e \in body[t]
    <3>1. drainer = t
      BY <2>2 DEF PlaceInv
    <3> QED
      BY <1>1, <2>2, <3>1
  <2> QED
    BY <1>1, <2>1, <2>2
<1> QED
  BY <1>1, <1>2, <1>3, <1>4 DEF PlaceInv, Numbered

(* Outside a request and a drain, nothing is held.                          *)
LEMMA Outside ==
    ASSUME ShapeInv, NEW c \in Callers, pc[c] \notin Sending \cup {"drain"}
    PROVE  issued \in Nat /\ body[c] = {} /\ drainer # c
<1>1. c \in Threads
  BY DEF Threads
<1>2. issued \in Nat
  BY ClientAssumption DEF ShapeInv, LedgerType
<1>3. body[c] = {}
  BY <1>1 DEF ShapeInv, Fits
<1>4. drainer # c
  BY <1>1 DEF ShapeInv, Draining
<1> QED
  BY <1>2, <1>3, <1>4

(* The numbers a write is given fit in its hands.                          *)
LEMMA NumbersFit ==
    ASSUME issued \in Nat, NEW n \in Nat \ {0}, issued' = issued + n, issued' <= MaxEvents
    PROVE  /\ Numbers(n) \in Seq(Numbered') /\ IsInjective(Numbers(n))
           /\ Range(Numbers(n)) = (issued + 1)..issued'
           /\ Tail(Numbers(n)) \in Seq(Numbered') /\ IsInjective(Tail(Numbers(n)))
           /\ Range(Tail(Numbers(n))) = (issued + 1)..issued' \ {Head(Numbers(n))}
           /\ Head(Numbers(n)) \in (issued + 1)..issued'
<1>1. /\ Numbers(n) \in Seq((issued + 1)..issued') /\ IsInjective(Numbers(n))
      /\ Range(Numbers(n)) = (issued + 1)..issued' /\ Numbers(n) # <<>>
  BY NumbersAreNew
<1>2. (issued + 1)..issued' \subseteq Numbered'
  BY DEF Numbered
<1>3. Numbers(n) \in Seq(Numbered')
  BY <1>1, <1>2, SeqMonotonic
<1> QED
  BY <1>1, <1>3, TailOne

(* No step brings an event to a second place.                              *)
LEMMA PlaceNext ==
    ASSUME ShapeInv, PlaceInv, Next
    PROVE  PlaceInv'
<1>1. ASSUME NEW c \in Callers, WriteOrRead(c)
      PROVE  PlaceInv'
  <2> c \in Threads
    BY DEF Threads
  <2>1. CASE WriteBegins(c)
    <3>1. /\ pc[c] = "idle" /\ issued' = issued + 1 /\ issued' <= MaxEvents
          /\ todo' = [todo EXCEPT ![c] = Numbers(1)]
          /\ UNCHANGED <<line, drainer, delivered, body>>
          /\ \A t \in Threads \ {c} : pc'[t] = pc[t]
      BY <2>1 DEF WriteBegins, Calls, Step, Writes, buffer, ShapeInv, LedgerType
    <3>2. issued \in Nat /\ body[c] = {} /\ drainer # c
      BY <3>1, Outside DEF Sending
    <3>3. Handles(c)
      BY <3>1, <3>2, NumbersFit DEF Handles, ShapeInv, LedgerType
    <3> QED
      BY <3>3, HandlesStep
  <2>2. CASE ReadBegins(c)
    <3>1. Keeps(c)
      BY <2>2 DEF ReadBegins, Calls, Step, Keeps, Labels, state, buffer, history,
         ShapeInv, Fits, Draining, Sending, Drainers, Reads, Writing
    <3> QED
      BY <3>1, KeepsStep
  <2>3. CASE AssertsOpen(c)
    <3>1. Keeps(c)
      BY <2>3 DEF AssertsOpen, Ends, Step, Keeps, Labels, state, buffer, history,
         ShapeInv, Fits, Draining, Sending, Drainers, Reads, Writing
    <3> QED
      BY <3>1, KeepsStep
  <2>4. CASE PassesGate(c)
    <3>1. /\ pc[c] = "gate" /\ UNCHANGED <<issued, line, drainer, delivered>>
          /\ \A t \in Threads \ {c} : pc'[t] = pc[t]
          /\ \/ UNCHANGED <<todo, body>>
             \/ /\ todo' = [todo EXCEPT ![c] = <<>>]
                /\ body' = [body EXCEPT ![c] = Range(todo[c])]
      BY <2>4 DEF PassesGate, Step, buffer, history, ShapeInv, LedgerType
    <3>2. issued \in Nat /\ body[c] = {} /\ drainer # c
      BY <3>1, Outside DEF Sending
    <3>3. <<>> \in Seq(Numbered) /\ Range(<<>>) = {} /\ IsInjective(<<>>)
      BY EmptySeq DEF Range, IsInjective
    <3>4. /\ \A t \in Threads \ {c} : todo'[t] = todo[t] /\ body'[t] = body[t]
          /\ \/ todo'[c] = todo[c] /\ body'[c] = {}
             \/ todo'[c] = <<>> /\ body'[c] = Range(todo[c])
      BY <3>1, <3>2 DEF ShapeInv, LedgerType
    <3>5. /\ todo'[c] \in Seq(Numbered') /\ IsInjective(todo'[c])
          /\ Range(todo'[c]) \subseteq Range(todo[c]) /\ body'[c] \subseteq Range(todo[c])
          /\ Range(todo'[c]) \cap body'[c] = {}
      BY <3>1, <3>3, <3>4 DEF PlaceInv, Numbered
    <3>6. Handles(c)
      BY <3>1, <3>2, <3>4, <3>5 DEF Handles
    <3> QED
      BY <3>6, HandlesStep
  <2>5. CASE DiscardsQuietly(c)
    <3>1. Keeps(c)
      BY <2>5 DEF DiscardsQuietly, Ends, Step, Keeps, Labels, state, buffer, history,
         ShapeInv, Fits, Draining, Sending, Drainers, Reads, Writing
    <3> QED
      BY <3>1, KeepsStep
  <2>6. CASE Enqueues(c)
    BY <2>6, EnqueuesPlace
  <2>7. CASE TurnedAway(c)
    <3>1. CASE Ends(c, "enqueue", "idle") \/ Ends(c, "enqueue", "raised")
      <4>1. Keeps(c)
        BY <2>7, <3>1 DEF TurnedAway, Ends, Step, Keeps, Labels, buffer, ShapeInv, Draining, Sending
      <4> QED
        BY <4>1, KeepsStep
    <3>2. CASE Len(todo[c]) # 1 /\ MovesOn(c)
      <4>1. /\ pc[c] = "enqueue" /\ UNCHANGED <<issued, line, drainer, delivered, pc, body>>
            /\ todo' = [todo EXCEPT ![c] = Tail(@)]
        BY <2>7, <3>2 DEF TurnedAway, MovesOn, buffer
      <4>2. issued \in Nat /\ body[c] = {} /\ drainer # c /\ todo[c] # <<>>
        BY <4>1, Outside DEF Sending, ShapeInv, Fits
      <4>3. /\ Tail(todo[c]) \in Seq(Numbered) /\ IsInjective(Tail(todo[c]))
            /\ Range(Tail(todo[c])) = Range(todo[c]) \ {Head(todo[c])}
        BY <4>2, TailOne DEF PlaceInv
      <4>4. Handles(c)
        BY <4>1, <4>2, <4>3 DEF Handles, Numbered, ShapeInv, LedgerType
      <4> QED
        BY <4>4, HandlesStep
    <3> QED
      BY <2>7, <3>1, <3>2 DEF TurnedAway, MovesOn
  <2>8. CASE Returns(c)
    <3>1. Keeps(c)
      BY <2>8 DEF Returns, Ends, Step, Keeps, Labels, state, buffer, history,
         ShapeInv, Fits, Draining, Sending, Drainers, Reads, Writing
    <3> QED
      BY <3>1, KeepsStep
  <2>9. CASE ServesDefault(c)
    <3>1. Keeps(c)
      BY <2>9 DEF ServesDefault, Ends, Step, Keeps, Labels, state, buffer, history,
         ShapeInv, Fits, Draining, Sending, Drainers, Reads, Writing
    <3> QED
      BY <3>1, KeepsStep
  <2>10. CASE Raises(c)
    <3>1. Keeps(c)
      BY <2>10 DEF Raises, Ends, Step, Keeps, Labels, state, buffer, history,
         ShapeInv, Fits, Draining, Sending, Drainers, Reads, Writing
    <3> QED
      BY <3>1, KeepsStep
  <2>11. CASE Catches(c)
    <3>1. Keeps(c)
      BY <2>11 DEF Catches, Step, Keeps, Labels, state, buffer, history,
         ShapeInv, Fits, Draining, Sending, Drainers, Reads, Writing
    <3> QED
      BY <3>1, KeepsStep
  <2> QED
    BY <1>1, <2>1, <2>2, <2>3, <2>4, <2>5, <2>6, <2>7, <2>8, <2>9, <2>10, <2>11 DEF WriteOrRead
<1>2. ASSUME NEW c \in Callers, Batch(c)
      PROVE  PlaceInv'
  <2> c \in Threads
    BY DEF Threads
  <2>1. CASE BatchBegins(c)
    <3>1. PICK n \in 1..MaxEvents :
              /\ Writes(c, n)
              /\ UNCHANGED buffer
              /\ \/ todo' = [todo EXCEPT ![c] = Numbers(n)] /\ UNCHANGED body
                 \/ /\ todo' = [todo EXCEPT ![c] = Tail(Numbers(n))]
                    /\ body' = [body EXCEPT ![c] = {Head(Numbers(n))}]
      BY <2>1 DEF BatchBegins
    <3>2. /\ pc[c] = "idle" /\ issued' = issued + n /\ issued' <= MaxEvents
          /\ UNCHANGED <<line, drainer, delivered>>
          /\ \A t \in Threads \ {c} : pc'[t] = pc[t]
      BY <2>1, <3>1 DEF BatchBegins, Calls, Step, Writes, buffer, ShapeInv, LedgerType
    <3>3. issued \in Nat /\ body[c] = {} /\ drainer # c
      BY <3>2, Outside DEF Sending
    <3>4. /\ Numbers(n) \in Seq(Numbered') /\ IsInjective(Numbers(n))
          /\ Range(Numbers(n)) = (issued + 1)..issued'
          /\ Tail(Numbers(n)) \in Seq(Numbered') /\ IsInjective(Tail(Numbers(n)))
          /\ Range(Tail(Numbers(n))) = (issued + 1)..issued' \ {Head(Numbers(n))}
          /\ Head(Numbers(n)) \in (issued + 1)..issued'
      BY <3>2, <3>3, NumbersFit
    <3>5. /\ \A t \in Threads \ {c} : todo'[t] = todo[t] /\ body'[t] = body[t]
          /\ \/ todo'[c] = Numbers(n) /\ body'[c] = {}
             \/ todo'[c] = Tail(Numbers(n)) /\ body'[c] = {Head(Numbers(n))}
      BY <3>1, <3>3 DEF ShapeInv, LedgerType
    <3>6. /\ todo'[c] \in Seq(Numbered') /\ IsInjective(todo'[c])
          /\ Range(todo'[c]) \subseteq (issued + 1)..issued'
          /\ body'[c] \subseteq (issued + 1)..issued' /\ Range(todo'[c]) \cap body'[c] = {}
      <4>1. CASE todo'[c] = Numbers(n) /\ body'[c] = {}
        BY <3>4, <4>1
      <4>2. CASE todo'[c] = Tail(Numbers(n)) /\ body'[c] = {Head(Numbers(n))}
        BY <3>4, <4>2
      <4> QED
        BY <3>5, <4>1, <4>2
    <3>7. issued' \in Nat /\ issued <= issued'
      BY <3>2, <3>3
    <3>8. Handles(c)
      BY <3>2, <3>3, <3>5, <3>6, <3>7 DEF Handles
    <3> QED
      BY <3>8, HandlesStep
  <2>2. CASE SendsNext(c)
    <3>1. drainer # c /\ UNCHANGED <<issued, line, drainer, delivered>>
      BY <2>2 DEF SendsNext, Ends, Step, ShapeInv, Draining, Drainers, buffer, history
    <3>2. CASE Ends(c, "sent", "idle")
      <4>1. Keeps(c)
        BY <3>1, <3>2 DEF Ends, Step, Keeps, Labels
      <4> QED
        BY <4>1, KeepsStep
    <3>3. CASE /\ todo[c] # <<>> /\ Step(c, "sent", "sendGate")
               /\ todo' = [todo EXCEPT ![c] = Tail(@)]
               /\ body' = [body EXCEPT ![c] = {Head(todo[c])}]
      <4>1. issued \in Nat /\ \A t \in Threads \ {c} : pc'[t] = pc[t]
        BY <3>3, ClientAssumption DEF Step, ShapeInv, LedgerType
      <4>2. /\ Tail(todo[c]) \in Seq(Numbered) /\ IsInjective(Tail(todo[c]))
            /\ Range(Tail(todo[c])) = Range(todo[c]) \ {Head(todo[c])}
            /\ Head(todo[c]) \in Range(todo[c])
        BY <3>3, TailOne DEF PlaceInv
      <4>3. Handles(c)
        BY <3>1, <3>3, <4>1, <4>2 DEF Handles, Numbered, ShapeInv, LedgerType
      <4> QED
        BY <4>3, HandlesStep
    <3> QED
      BY <2>2, <3>2, <3>3 DEF SendsNext
  <2>3. CASE PoolEnds(c)
    <3>1. Keeps(c)
      BY <2>3 DEF PoolEnds, AllSettled, Step, Keeps, Labels, state, buffer, history,
         ShapeInv, Fits, Draining, Sending, Drainers, Reads, Writing
    <3> QED
      BY <3>1, KeepsStep
  <2>4. ASSUME NEW w \in Workers, WorkerTakes(w, c)
        PROVE  PlaceInv'
    BY <2>4, TakesPlace
  <2> QED
    BY <1>2, <2>1, <2>2, <2>3, <2>4 DEF Batch
<1>3. ASSUME NEW c \in Callers, Drain(c)
      PROVE  PlaceInv'
  <2> c \in Threads
    BY DEF Threads
  <2>1. CASE FlushBegins(c)
    <3>1. Keeps(c)
      BY <2>1 DEF FlushBegins, Calls, Step, Keeps, Labels, state, buffer, history,
         ShapeInv, Fits, Draining, Sending, Drainers, Reads, Writing
    <3> QED
      BY <3>1, KeepsStep
  <2>2. CASE DrainLocks(c)
    <3>1. /\ drainer \in {c, None} /\ (drainer = c => pc[c] # "sent")
          /\ todo[c] = <<>> /\ body[c] \in SUBSET Events
      BY <2>2 DEF DrainLocks, Step, ShapeInv, LedgerType, Fits, Draining, Sending, Drainers, Writing
    <3>2. LockMoves(c)
      BY ZenonT(40), <2>2, <3>1 DEF DrainLocks, Step, LockMoves, Labels, state, history,
         ShapeInv, LedgerType, Fits, Sending, Drainers, buffer
    <3> QED
      BY <3>2, LockMovesStep
  <2>3. CASE DrainTakes(c)
    BY <2>3, DrainTakesPlace
  <2>4. CASE DrainSent(c)
    <3>1. pc[c] = "sent" /\ call[c] \in Drainers /\ c \in Threads
      BY <2>4 DEF DrainSent, Drains, Drainers, Again, Step, Threads
    <3>2. drainer = c
      BY <3>1 DEF ShapeInv, Draining, Sending
    <3> QED
      BY <2>4, <3>1, <3>2, LineLeavesPlace DEF DrainSent, history
  <2>5. CASE DrainRetries(c)
    <3>1. /\ drainer \in {c, None} /\ (drainer = c => pc[c] # "sent")
          /\ todo[c] = <<>> /\ body[c] \in SUBSET Events
      BY <2>5 DEF DrainRetries, Drains, Again, Step, ShapeInv, LedgerType, Fits, Draining,
         Sending, Drainers, Writing
    <3>2. LockMoves(c)
      BY <2>5, <3>1 DEF DrainRetries, Drains, Again, Step, LockMoves, Labels, state, history,
         ShapeInv, LedgerType, Fits, Sending, Drainers, buffer
    <3> QED
      BY <3>2, LockMovesStep
  <2>6. CASE DrainDrops(c)
    <3>1. pc[c] = "failed" /\ call[c] \in Drainers /\ c \in Threads
      BY <2>6 DEF DrainDrops, Drains, Drainers, Again, Step, Threads
    <3>2. drainer = c
      BY <3>1 DEF ShapeInv, Draining, Sending
    <3> QED
      BY <2>6, <3>1, <3>2, LineLeavesPlace DEF DrainDrops, history
  <2>7. CASE DrainEnds(c)
    <3>1. /\ drainer \in {c, None} /\ (drainer = c => pc[c] # "sent")
          /\ todo[c] = <<>> /\ body[c] \in SUBSET Events
      BY <2>7 DEF DrainEnds, Unlocks, Ends, Step, ShapeInv, LedgerType, Fits, Draining,
         Sending, Drainers, Writing
    <3>2. LockMoves(c)
      BY <2>7, <3>1 DEF DrainEnds, Unlocks, Ends, Step, LockMoves, Labels, state, history,
         ShapeInv, LedgerType
    <3> QED
      BY <3>2, LockMovesStep
  <2>8. CASE DrainStops(c)
    <3>1. /\ drainer \in {c, None} /\ (drainer = c => pc[c] # "sent")
          /\ todo[c] = <<>> /\ body[c] \in SUBSET Events
      BY <2>8 DEF DrainStops, Drains, Unlocks, Ends, Step, ShapeInv, LedgerType, Fits,
         Draining, Sending, Drainers, Writing
    <3>2. LockMoves(c)
      BY <2>8, <3>1 DEF DrainStops, Drains, Unlocks, Ends, Step, LockMoves, Labels, state, history,
         ShapeInv, LedgerType
    <3> QED
      BY <3>2, LockMovesStep
  <2>9. CASE DrainRaises(c)
    <3>1. /\ drainer \in {c, None} /\ (drainer = c => pc[c] # "sent")
          /\ todo[c] = <<>> /\ body[c] \in SUBSET Events
      BY <2>9 DEF DrainRaises, Drains, Ends, Step, ShapeInv, LedgerType, Fits, Draining,
         Sending, Drainers, Writing
    <3>2. LockMoves(c)
      BY <2>9, <3>1 DEF DrainRaises, Drains, Ends, Step, LockMoves, Labels, state, history,
         ShapeInv, LedgerType
    <3> QED
      BY <3>2, LockMovesStep
  <2> QED
    BY <1>3, <2>1, <2>2, <2>3, <2>4, <2>5, <2>6, <2>7, <2>8, <2>9 DEF Drain
<1>4. ASSUME NEW c \in Callers, Close(c)
      PROVE  PlaceInv'
  <2> c \in Threads
    BY DEF Threads
  <2>1. CASE CloseBegins(c)
    <3>1. Keeps(c)
      BY <2>1 DEF CloseBegins, Calls, Step, Keeps, Labels, state, buffer, history,
         ShapeInv, Fits, Draining, Sending, Drainers, Reads, Writing
    <3> QED
      BY <3>1, KeepsStep
  <2>2. CASE StopsBuffer(c)
    <3>1. Keeps(c)
      BY <2>2 DEF StopsBuffer, Step, Keeps, Labels, state, buffer, history,
         ShapeInv, Fits, Draining, Sending, Drainers, Reads, Writing
    <3> QED
      BY <3>1, KeepsStep
  <2>3. CASE Marks(c)
    <3>1. Keeps(c)
      BY <2>3 DEF Marks, Step, Keeps, Labels, state, buffer, history,
         ShapeInv, Fits, Draining, Sending, Drainers, Reads, Writing
    <3> QED
      BY <3>1, KeepsStep
  <2>4. CASE Releases(c)
    <3>1. Keeps(c)
      BY <2>4 DEF Releases, Ends, Step, Keeps, Labels, state, buffer, history,
         ShapeInv, Fits, Draining, Sending, Drainers, Reads, Writing
    <3> QED
      BY <3>1, KeepsStep
  <2> QED
    BY <1>4, <2>1, <2>2, <2>3, <2>4 DEF Close
<1>5. ASSUME NEW c \in Callers, Settings(c)
      PROVE  PlaceInv'
  <2> c \in Threads
    BY DEF Threads
  <2>1. CASE OptsOut(c)
    <3>1. Keeps(c)
      BY <2>1 DEF OptsOut, Calls, Step, Keeps, Labels, state, buffer, history,
         ShapeInv, Fits, Draining, Sending, Drainers, Reads, Writing
    <3> QED
      BY <3>1, KeepsStep
  <2>2. CASE OptsIn(c)
    <3>1. Keeps(c)
      BY <2>2 DEF OptsIn, Calls, Step, Keeps, Labels, state, buffer, history,
         ShapeInv, Fits, Draining, Sending, Drainers, Reads, Writing
    <3> QED
      BY <3>1, KeepsStep
  <2>3. CASE SetConfigBegins(c)
    <3>1. Keeps(c)
      BY <2>3 DEF SetConfigBegins, Calls, Step, Keeps, Labels, state, buffer, history,
         ShapeInv, Fits, Draining, Sending, Drainers, Reads, Writing
    <3> QED
      BY <3>1, KeepsStep
  <2>4. CASE Assigns(c)
    <3>1. Keeps(c)
      BY <2>4 DEF Assigns, Step, Keeps, Labels, state, buffer, history,
         ShapeInv, Fits, Draining, Sending, Drainers, Reads, Writing
    <3> QED
      BY <3>1, KeepsStep
  <2>5. CASE PassesOn(c)
    <3>1. Keeps(c)
      BY <2>5 DEF PassesOn, Step, Keeps, Labels, state, buffer, history,
         ShapeInv, Fits, Draining, Sending, Drainers, Reads, Writing
    <3> QED
      BY <3>1, KeepsStep
  <2>6. CASE Applies(c)
    <3>1. Keeps(c)
      BY <2>6 DEF Applies, Ends, Step, Keeps, Labels, state, buffer, history,
         ShapeInv, Fits, Draining, Sending, Drainers, Reads, Writing
    <3> QED
      BY <3>1, KeepsStep
  <2> QED
    BY <1>5, <2>1, <2>2, <2>3, <2>4, <2>5, <2>6 DEF Settings
<1>6. ASSUME NEW t \in Threads, Send(t)
      PROVE  PlaceInv'
  <2>1. CASE PassesSendGate(t)
    BY <2>1, RequestStep DEF PassesSendGate, Step, Sending, buffer, history
  <2>2. CASE Discards(t)
    BY <2>2, RequestStep DEF Discards, Step, Sending, buffer, history
  <2>3. CASE ReadsPath(t)
    BY <2>3, RequestStep DEF ReadsPath, Step, Sending, buffer, history
  <2>4. CASE Begins(t)
    BY <2>4, RequestStep DEF Begins, Posts, Step, Sending, buffer, history
  <2>5. CASE Unserialisable(t)
    BY <2>5, RequestStep DEF Unserialisable, Posts, Step, Sending, buffer, history
  <2>6. CASE Refused(t)
    BY <2>6, RequestStep DEF Refused, Posts, Step, Sending, buffer, history
  <2>7. CASE CannotStart(t)
    BY <2>7, RequestStep DEF CannotStart, Posts, Step, Sending, buffer, history
  <2>8. CASE CannotEncode(t)
    BY <2>8, RequestStep DEF CannotEncode, Posts, Step, Sending, buffer, history
  <2>9. CASE Accepted(t)
    BY <2>9, AcceptedPlace
  <2>10. CASE Rejected(t)
    BY <2>10, RequestStep DEF Rejected, Step, Sending, buffer, history
  <2> QED
    BY <1>6, <2>1, <2>2, <2>3, <2>4, <2>5, <2>6, <2>7, <2>8, <2>9, <2>10 DEF Send
<1>7. ASSUME NEW w \in Workers, WorkerEnds(w)
      PROVE  PlaceInv'
  <2>1. Keeps(w) /\ w \in Threads
    BY <1>7 DEF WorkerEnds, Step, Keeps, Labels, buffer, history, Threads,
       ShapeInv, Draining, Sending, Drainers
  <2> QED
    BY <2>1, KeepsStep
<1>8. CASE Quiescent
  BY <1>8 DEF Quiescent, vars, buffer, local, history, PlaceInv, Numbered, First
<1> QED
  BY <1>1, <1>2, <1>3, <1>4, <1>5, <1>6, <1>7, <1>8 DEF Next
=============================================================================
