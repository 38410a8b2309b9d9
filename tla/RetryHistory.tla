---------------------------- MODULE RetryHistory ----------------------------
(***************************************************************************)
(* The retry table run against every sequence of answers, with the answers *)
(* kept.  RetryPolicy updates four numbers in place; here each of them is  *)
(* compared with what it stands for, defined on the whole history: a run of*)
(* failures, a run of drops, a width that only a run of full-width         *)
(* successes may widen.                                                    *)
(***************************************************************************)
EXTENDS RetryPolicy, Sequences, FiniteSets, FiniteSetsExt

CONSTANT MaxAnswers  \* length of the histories explored: a bound

ASSUME HistoryAssumption == MaxAnswers \in Nat

VARIABLES
    pol,     \* the policy's four numbers
    log,     \* what became of each request, oldest first
    notices  \* how often the notice about oversized events was logged

vars == <<pol, log, notices>>

Kinds == {"sent", "halved", "oversized", "refused", "retry"}

Entry == [kind : Kinds, size : Nat, width : Nat]

Init ==
    /\ pol = InitialPolicy
    /\ log = <<>>
    /\ notices = 0

\* A request of n events ended as `kind'; the queue may hold fewer events
\* than the width.  Nothing is sent once the breaker has opened.
Request(kind, n, p) ==
    /\ Len(log) < MaxAnswers
    /\ ~BreakerOpens(pol)
    /\ n <= pol.batchSize
    /\ pol' = p
    /\ log' = Append(log, [kind |-> kind, size |-> n, width |-> pol.batchSize])

Sent(n)   == Request("sent", n, AfterSent(pol, n)) /\ UNCHANGED notices
Halved(n) == n > 1 /\ Request("halved", n, AfterHalving(pol, n)) /\ UNCHANGED notices

Oversized ==
    /\ Request("oversized", 1, AfterOversized(pol))
    /\ notices' = IF GivesNotice(pol) THEN notices + 1 ELSE notices

Refused(n) == Request("refused", n, AfterRefused(pol)) /\ UNCHANGED notices
Retried(n) == Request("retry", n, AfterRetryable(pol)) /\ UNCHANGED notices

Over == (Len(log) = MaxAnswers \/ BreakerOpens(pol)) /\ UNCHANGED vars

Next ==
    \/ \E n \in 1..FullWidth : Sent(n) \/ Halved(n) \/ Refused(n) \/ Retried(n)
    \/ Oversized
    \/ Over

Spec == Init /\ [][Next]_vars

-----------------------------------------------------------------------------
(* Reference definitions on the history.                                   *)

\* How many requests ended as `kind' since one last ended in one of `kinds'.
RunOf(kind, kinds) ==
    LET last == Max({0} \cup {i \in 1..Len(log) : log[i].kind \in kinds})
    IN  Cardinality({i \in (last + 1)..Len(log) : log[i].kind = kind})

\* A success that filled a width below the full one.
Earning(i) == log[i].kind = "sent" /\ log[i].width < FullWidth /\ log[i].size = log[i].width

(* Every variable has a value of its type.                                 *)
TypeOK ==
    /\ pol \in Policy
    /\ log \in Seq(Entry)
    /\ notices \in Nat

(* The breaker counts retryable failures in a row.  A success or a drop    *)
(* ends the row, halving a batch does not; so it opens on the fifth        *)
(* failure of a row and on no other request.                               *)
FailuresAreARow == pol.failures = RunOf("retry", {"sent", "oversized", "refused"})

(* "rejected as too large with none accepted in between": drops are counted*)
(* across retries, refusals and halvings, and the notice is logged once    *)
(* for each such row that is long enough, when it gets that long.          *)
NoticePerRow ==
    /\ pol.drops = Lesser(DropsBound, RunOf("oversized", {"sent"}))
    /\ notices = Cardinality({i \in 1..Len(log) :
         /\ log[i].kind = "oversized"
         /\ \E j \in 1..i :
               /\ \A k \in j..i : log[k].kind # "sent"
               /\ j = 1 \/ log[j - 1].kind = "sent"
               /\ Cardinality({k \in j..i : log[k].kind = "oversized"}) = DropsBeforeWarning})

(* The width grows for two reasons only: an oversized event is gone, or    *)
(* ten successes in a row, failures of any kind ending the row, each       *)
(* filled the same reduced width.                                          *)
WideningIsEarned ==
    [][ pol'.batchSize > pol.batchSize =>
          \/ log'[Len(log')].kind = "oversized"
          \/ LET w    == pol.batchSize
                 row  == {i \in 1..Len(log') :
                            /\ log'[i].kind = "sent"
                            /\ log'[i].size = w
                            /\ log'[i].width = w
                            /\ \A j \in i..Len(log') : log'[j].kind = "sent"}
             IN  Cardinality(row) = SuccessesBeforeWidening ]_vars

(* A reduced width is never for good: the last successes in a row, enough  *)
(* of them for a doubling and each filling the width of its time, leave    *)
(* the width at least twice what it was before them.                       *)
ReductionEnds ==
    LET n == Len(log) IN
    n >= SuccessesBeforeWidening
    /\ (\A i \in (n - SuccessesBeforeWidening + 1)..n :
            log[i].kind = "sent" /\ log[i].size = log[i].width)
    => pol.batchSize >= Lesser(FullWidth, 2 * log[n - SuccessesBeforeWidening + 1].width)
=============================================================================
