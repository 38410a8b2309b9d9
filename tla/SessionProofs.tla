---------------------------- MODULE SessionProofs ---------------------------
(***************************************************************************)
(* For any options, patches, calls and answers: the configuration stays    *)
(* usable, its host and port were asked for together, no write leaves a    *)
(* client that is opted out or closed, a flag read gives the default or    *)
(* what was served, the same by both paths, every request names somebody,  *)
(* and track_batch sends its events once, in whatever order its pool does. *)
(***************************************************************************)
EXTENDS SessionProperties, FiniteSetTheorems, SequenceTheorems, WellFoundedInduction, TLAPS

-----------------------------------------------------------------------------
(* The inductive invariant: what a patch leaves in place is what was there.*)

ConfigFields == {"host", "port", "scheme", "timeout", "source_id", "batch",
                 "max_request_events", "max_concurrent_requests", "logger"}

ConfigInv ==
    /\ DOMAIN cfg = ConfigFields
    /\ ConfigStaysUsable
    /\ PairWasAsked

(* Every call but set_config leaves the configuration alone.               *)
LEMMA OtherCalls ==
    ASSUME Next, ~SetConfig
    PROVE  cfg' = cfg
<1>1. CASE Return
  BY <1>1 DEF Return, client
<1>2. CASE OptIn \/ OptOut \/ Close \/ WaitForInitialization
  BY <1>2 DEF OptIn, OptOut, Close, WaitForInitialization, client
<1>3. CASE Track \/ Identify \/ Group
  BY <1>3 DEF Track, Identify, Group, Submits, client
<1>4. CASE Commerce
  BY <1>4 DEF Commerce, Submits, client
<1>5. CASE RecordConsent \/ TrackBatch
  BY <1>5 DEF RecordConsent, TrackBatch, client
<1>6. CASE Recommend \/ Vary \/ ReadAll
  BY <1>6 DEF Recommend, Vary, ReadAll, Reads, client
<1> QED
  BY <1>1, <1>2, <1>3, <1>4, <1>5, <1>6 DEF Next, Calls

(* What the constructor accepts is usable.                                 *)
LEMMA ConstructedUsable == Init => ConfigInv
<1> SUFFICES ASSUME Init PROVE ConfigInv
  OBVIOUS
<1>1. PICK o \in Options : ResolveAccepts(o) /\ cfg = Resolved(o)
  BY DEF Init
<1>2. DOMAIN cfg = ConfigFields
  BY <1>1 DEF Resolved, ConfigFields
<1>3. /\ cfg.host = HostOption(o).name /\ cfg.port = HostOption(o).port
      /\ cfg.scheme = OrElse(o.scheme, "https")
      /\ cfg.timeout = OrElse(o.timeout, DefaultTimeout)
      /\ cfg.logger = OrElse(o.logger, DefaultLogger)
  BY <1>1 DEF Resolved
<1>4. ConfigStaysUsable
  <2>1. HostIsUsable(HostOption(o))
    BY <1>1 DEF ResolveAccepts
  <2>2. HostIsUsable([name |-> cfg.host, port |-> cfg.port])
    BY <1>3, <2>1 DEF HostIsUsable
  <2>3. SchemeIsUsable(cfg.scheme) /\ IsPositive(cfg.timeout) /\ cfg.logger \in Loggers
    BY <1>1, <1>3 DEF ResolveAccepts
  <2> QED
    BY <2>2, <2>3 DEF ConfigStaysUsable
<1>5. HostOption(o) = [name |-> HostOption(o).name, port |-> HostOption(o).port]
  BY SessionAssumption DEF HostOption, OrElse, HostIsSplit
<1>6. PairWasAsked
  BY <1>3, <1>5 DEF PairWasAsked, PairsAskedFor
<1> QED
  BY <1>2, <1>4, <1>6 DEF ConfigInv

(* An accepted patch gives usable values, or leaves the old ones.          *)
LEMMA PatchedUsable ==
    ASSUME ConfigInv, NEW p \in Patches, MergeAccepts(p), cfg' = Merged(cfg, p)
    PROVE  ConfigInv'
<1>1. DOMAIN cfg' = ConfigFields
  BY DEF ConfigInv, Merged
<1>2. /\ cfg'.host = (IF p.host = None THEN cfg.host ELSE p.host.name)
      /\ cfg'.port = PortOf(cfg, p)
      /\ cfg'.scheme = OrElse(p.scheme, cfg.scheme)
      /\ cfg'.timeout = OrElse(p.timeout, cfg.timeout)
      /\ cfg'.logger = OrElse(p.logger, cfg.logger)
  BY DEF ConfigInv, ConfigFields, Merged
<1>3. HostIsUsable([name |-> cfg'.host, port |-> cfg'.port])
  <2>1. CASE p.host = None
    BY <1>2, <2>1 DEF ConfigInv, ConfigStaysUsable, PortOf
  <2>2. CASE p.host # None
    <3>1. HostIsUsable(p.host)
      BY <2>2 DEF MergeAccepts
    <3> QED
      BY <1>2, <2>2, <3>1 DEF HostIsUsable, PortOf
  <2> QED
    BY <2>1, <2>2
<1>4. SchemeIsUsable(cfg'.scheme) /\ IsPositive(cfg'.timeout) /\ cfg'.logger \in Loggers
  BY <1>2 DEF ConfigInv, ConfigStaysUsable, MergeAccepts, TimeoutIsAccepted, OrElse
<1>5. PairWasAsked'
  <2>1. CASE p.host = None
    BY <1>2, <2>1 DEF ConfigInv, PairWasAsked, PortOf, PairsAskedFor
  <2>2. CASE p.host # None
    <3>1. p.host = [name |-> cfg'.host, port |-> cfg'.port]
      BY <1>2, <2>2, SessionAssumption DEF PortOf, HostIsSplit
    <3> QED
      BY <3>1 DEF PairWasAsked, PairsAskedFor
  <2> QED
    BY <2>1, <2>2
<1> QED
  BY <1>1, <1>3, <1>4, <1>5 DEF ConfigInv, ConfigStaysUsable

(* Every step keeps the configuration usable.                              *)
LEMMA StepsKeepUsable == ConfigInv /\ [Next]_vars => ConfigInv'
<1> SUFFICES ASSUME ConfigInv, [Next]_vars PROVE ConfigInv'
  OBVIOUS
<1>1. CASE cfg' = cfg
  BY <1>1 DEF ConfigInv, ConfigStaysUsable, PairWasAsked, PairsAskedFor
<1>2. CASE SetConfig
  <2>1. PICK p \in Patches : cfg' = IF MergeAccepts(p) THEN Merged(cfg, p) ELSE cfg
    BY <1>2 DEF SetConfig
  <2> QED
    BY <1>1, <2>1, PatchedUsable
<1>3. CASE UNCHANGED vars
  BY <1>1, <1>3 DEF vars, client
<1> QED
  BY <1>1, <1>2, <1>3, OtherCalls

(* No sequence of patches makes a client the constructor would refuse for  *)
(* its host, port, scheme, timeout or logger (merge_config).               *)
THEOREM PatchesKeepUsable == Spec => []ConfigStaysUsable
<1>1. ConfigInv => ConfigStaysUsable
  BY DEF ConfigInv
<1> QED
  BY <1>1, ConstructedUsable, StepsKeepUsable, PTL DEF Spec

(* A host never gets another host's port, however many patches follow one  *)
(* another (_split_host, merge_config).                                    *)
THEOREM HostKeepsItsPort == Spec => []PairWasAsked
<1>1. ConfigInv => PairWasAsked
  BY DEF ConfigInv
<1> QED
  BY <1>1, ConstructedUsable, StepsKeepUsable, PTL DEF Spec

LEMMA ConfigInvHolds == Spec => []ConfigInv
  BY ConstructedUsable, StepsKeepUsable, PTL DEF Spec

-----------------------------------------------------------------------------
(* Names of calls                                                          *)

(* A call is recorded under its name.                                      *)
LEMMA NameOfCall ==
    ASSUME NEW op, NEW given, Makes(op, given)
    PROVE  call'.op = op
  BY DEF Makes

(* Every other call has a name of its own.                                 *)
LEMMA OtherReads ==
    ASSUME Next, ~Vary, ~ReadAll
    PROVE  call'.op \notin {"variation", "all_flags"}
<1>1. CASE Return
  BY <1>1 DEF Return, Idle
<1>2. CASE OptIn \/ OptOut \/ Close \/ WaitForInitialization
  BY <1>2, NameOfCall DEF OptIn, OptOut, Close, WaitForInitialization
<1>3. CASE Track
  BY <1>3, NameOfCall DEF Track
<1>4. CASE Identify \/ Group
  BY <1>4, NameOfCall DEF Identify, Group
<1>5. CASE Commerce
  <2>1. PICK op, given :
          op \in {"product_viewed", "added_to_cart", "ordered"} /\ Makes(op, given)
    BY <1>5 DEF Commerce
  <2> QED
    BY <2>1, NameOfCall
<1>6. CASE RecordConsent
  BY <1>6, NameOfCall DEF RecordConsent
<1>7. CASE TrackBatch
  BY <1>7, NameOfCall DEF TrackBatch
<1>8. CASE Recommend
  BY <1>8, NameOfCall DEF Recommend
<1>9. CASE SetConfig
  BY <1>9, NameOfCall DEF SetConfig
<1> QED
  BY <1>1, <1>2, <1>3, <1>4, <1>5, <1>6, <1>7, <1>8, <1>9 DEF Next, Calls

-----------------------------------------------------------------------------
(* Opting out                                                              *)

(* Nothing that writes sends anything unless the client is opted in.       *)
LEMMA StepsSuppress == WritesAreSuppressed /\ [Next]_vars => WritesAreSuppressed'
<1> SUFFICES ASSUME WritesAreSuppressed, [Next]_vars PROVE WritesAreSuppressed'
  OBVIOUS
<1>1. CASE sent' = <<>>
  BY <1>1 DEF WritesAreSuppressed
<1>2. CASE optedIn' /\ ~closed'
  BY <1>2 DEF WritesAreSuppressed
<1>3. ASSUME NEW accepts, NEW events, Submits(accepts, events) PROVE WritesAreSuppressed'
  BY <1>1, <1>2, <1>3 DEF Submits, Sends, NothingToSend, Refuses, ReturnsAtOnce, IsOptedIn, client
<1>4. CASE UNCHANGED vars
  BY <1>4 DEF WritesAreSuppressed, vars, client
<1>5. CASE Return
  BY <1>1, <1>5 DEF Return
<1>6. CASE SetConfig
  BY <1>1, <1>6 DEF SetConfig, ReturnsAtOnce, Refuses, Sends
<1>7. CASE OptIn \/ OptOut \/ Close
  BY <1>1, <1>7 DEF OptIn, OptOut, Close, ReturnsAtOnce, Sends
<1>8. CASE Track \/ Identify \/ Group
  BY <1>3, <1>8 DEF Track, Identify, Group
<1>9. CASE Commerce
  BY <1>3, <1>9 DEF Commerce
<1>10. CASE RecordConsent
  BY <1>1, <1>2, <1>10 DEF RecordConsent, ConsentIsSuppressed, Sends, NothingToSend, Refuses,
                           ReturnsAtOnce, IsOptedIn, client
<1>11. CASE TrackBatch
  BY <1>1, <1>2, <1>11 DEF TrackBatch, Sends, NothingToSend, Refuses, ReturnsAtOnce, IsOptedIn,
                           client
<1>12. ASSUME Recommend \/ Vary \/ ReadAll PROVE WritesAreSuppressed'
  <2>1. call'.op \in {"recommend", "variation", "all_flags"}
    <3>1. CASE Recommend
      BY <3>1, NameOfCall DEF Recommend
    <3>2. CASE Vary
      BY <3>2, NameOfCall DEF Vary
    <3>3. CASE ReadAll
      BY <3>3, NameOfCall DEF ReadAll
    <3> QED
      BY <1>12, <3>1, <3>2, <3>3
  <2>2. sent' = <<>> \/ ~closed'
    BY <1>12 DEF Recommend, Vary, ReadAll, Reads, Sends, Refuses, client
  <2> QED
    BY <2>1, <2>2 DEF WritesAreSuppressed
<1>13. CASE WaitForInitialization
  BY <1>1, <1>13 DEF WaitForInitialization, ReturnsAtOnce, Refuses, Sends
<1> QED
  BY <1>4, <1>5, <1>6, <1>7, <1>8, <1>9, <1>10, <1>11, <1>12, <1>13 DEF Next, Calls

(* Track, batch, commerce and consent send nothing for a client that is    *)
(* opted out, and nothing at all is sent for one that is closed.           *)
THEOREM OptOutSuppresses == Spec => []WritesAreSuppressed
<1>1. Init => WritesAreSuppressed
  BY DEF Init, Rests, WritesAreSuppressed
<1> QED
  BY <1>1, StepsSuppress, PTL DEF Spec

-----------------------------------------------------------------------------
(* Flag reads                                                              *)

LEMMA KindsOfPosted == ASSUME NEW a PROVE Posted(a).kind \in {"crash", "api", "returned"}
  BY DEF Posted, Ends

LEMMA FailuresAreAbsorbed == ASSUME NEW a PROVE ~(Fails(a) /\ ~Absorbs(Posted(a).kind))
  BY KindsOfPosted DEF Fails, Absorbs

(* An answer that is no list of choices leaves none.                       *)
LEMMA NoChoices ==
    ASSUME NEW a, Unanswered(a)
    PROVE  ChoicesOf(a) = <<>>
<1>1. CASE Overflows(a)
  BY <1>1 DEF ChoicesOf, Posted, Ends
<1>2. CASE ~Overflows(a) /\ a.status = 0
  BY <1>2 DEF ChoicesOf, Posted, Ends
<1>3. CASE ~Overflows(a) /\ a.status # 0 /\ a.status \notin 200..299
  BY <1>3 DEF ChoicesOf, Posted, Ends
<1>4. CASE ~Overflows(a) /\ a.status \in 200..299 /\ a.body.form # "choices"
  <2>1. a.status # 0
    BY <1>4
  <2>2. Posted(a) = Ends("returned", a.body, None)
    BY <1>4, <2>1 DEF Posted
  <2> QED
    BY <1>4, <2>2 DEF ChoicesOf, Ends
<1> QED
  BY <1>1, <1>2, <1>3, <1>4 DEF Unanswered

LEMMA VariationOfNothing ==
    ASSUME NEW a, NEW form, NEW key, Unanswered(a)
    PROVE  VariationEnds(form, key, a) = Ends("returned", Default, None)
<1>1. ChoicesOf(a) = <<>>
  BY NoChoices
<1>2. Variation(<<>>, key) = Default /\ ~VariationRaises(<<>>, key)
  BY DEF Variation, VariationRaises, Match, Reached
<1>3. ~FloatRaises(form, Default)
  BY FlagsAssumption DEF FloatRaises, Bodies
<1>4. Typed(form, Default) = Default
  BY DEF Typed
<1> QED
  BY <1>1, <1>2, <1>3, <1>4, FailuresAreAbsorbed DEF VariationEnds, ReadEnds

LEMMA AllFlagsOfNothing ==
    ASSUME NEW a, Unanswered(a)
    PROVE  AllFlagsEnds(a).kind = "returned" /\ DOMAIN AllFlagsEnds(a).value = {}
<1>1. ChoicesOf(a) = <<>>
  BY NoChoices
<1>2. Kept(<<>>) = {}
  BY DEF Kept
<1>3. ~AllFlagsRaises(<<>>)
  BY <1>2 DEF AllFlagsRaises
<1>4. DOMAIN AllFlags(<<>>) = {}
  BY <1>2 DEF AllFlags
<1>5. AllFlagsEnds(a) = Ends("returned", AllFlags(<<>>), None)
  BY <1>1, <1>3, FailuresAreAbsorbed DEF AllFlagsEnds, ReadEnds
<1> QED
  BY <1>4, <1>5 DEF Ends

(* A read that is not refused ends as its answer says.                     *)
LEMMA StepsSurvive == ReadsSurviveOutages /\ [Next]_vars => ReadsSurviveOutages'
<1> SUFFICES ASSUME ReadsSurviveOutages, [Next]_vars PROVE ReadsSurviveOutages'
  OBVIOUS
<1>1. CASE UNCHANGED vars
  BY <1>1 DEF vars, ReadsSurviveOutages, IsRead
<1>2. CASE answers' = <<>>
  BY <1>2 DEF ReadsSurviveOutages
<1>3. CASE call'.op \notin {"variation", "all_flags"}
  BY <1>3 DEF ReadsSurviveOutages, IsRead
<1>4. CASE Vary
  <2>1. PICK form, key, given :
          /\ form \in Forms
          /\ Makes("variation", given)
          /\ answers' = <<>> \/ \E a \in Evaluations :
                answers' = <<a>> /\ outcome' = VariationEnds(form, key, a)
    BY <1>4 DEF Vary, Reads, Sends, Refuses
  <2>2. call'.op = "variation"
    BY <2>1, NameOfCall
  <2>3. ASSUME NEW a \in Evaluations, answers' = <<a>>, outcome' = VariationEnds(form, key, a)
        PROVE  ReadsSurviveOutages'
    <3>1. answers'[1] = a
      BY <2>3
    <3>2. Unanswered(a) => outcome'.kind = "returned" /\ outcome'.value = Default
      BY <2>3, VariationOfNothing DEF Ends
    <3> QED
      BY <2>2, <3>1, <3>2 DEF ReadsSurviveOutages
  <2> QED
    BY <1>2, <2>1, <2>3
<1>5. CASE ReadAll
  <2>1. PICK given :
          /\ Makes("all_flags", given)
          /\ answers' = <<>> \/ \E a \in Evaluations :
                answers' = <<a>> /\ outcome' = AllFlagsEnds(a)
    BY <1>5 DEF ReadAll, Reads, Sends, Refuses
  <2>2. call'.op = "all_flags"
    BY <2>1, NameOfCall
  <2>3. ASSUME NEW a \in Evaluations, answers' = <<a>>, outcome' = AllFlagsEnds(a)
        PROVE  ReadsSurviveOutages'
    <3>1. answers'[1] = a
      BY <2>3
    <3>2. Unanswered(a) => outcome'.kind = "returned" /\ DOMAIN outcome'.value = {}
      BY <2>3, AllFlagsOfNothing
    <3> QED
      BY <2>2, <3>1, <3>2 DEF ReadsSurviveOutages
  <2> QED
    BY <1>2, <2>1, <2>3
<1>6. CASE Next /\ ~Vary /\ ~ReadAll
  BY <1>3, <1>6, OtherReads
<1> QED
  BY <1>1, <1>4, <1>5, <1>6

(* Whatever fails between the client and the service, or in the envelope of*)
(* the answer, a flag read returns the default (_choose_or_empty).         *)
THEOREM OutagesServeDefaults == Spec => []ReadsSurviveOutages
<1>1. Init => ReadsSurviveOutages
  BY DEF Init, Rests, ReadsSurviveOutages
<1> QED
  BY <1>1, StepsSurvive, PTL DEF Spec

-----------------------------------------------------------------------------
(* The two read paths                                                      *)

(* Only what the service sends is read.                                    *)
LEMMA ChoicesAreASequence ==
    ASSUME NEW a \in Evaluations
    PROVE  ChoicesOf(a) \in Seq(Choice)
<1>1. CASE ChoicesOf(a) = <<>>
  BY <1>1
<1>2. CASE ChoicesOf(a) # <<>>
  <2>1. ~Unanswered(a)
    BY <1>2, NoChoices
  <2>2. Posted(a) = Ends("returned", a.body, None)
    BY <2>1 DEF Unanswered, Posted
  <2>3. ChoicesOf(a) = a.body.choices
    BY <2>1, <2>2 DEF Unanswered, ChoicesOf, Ends
  <2> QED
    BY <2>3, SessionAssumption
<1> QED
  BY <1>1, <1>2

(* At most one index: the first choice of a name is the last of that name. *)
LEMMA PathsAgreeOnce ==
    ASSUME NEW choices \in Seq(Choice), NEW key \in Keys,
           Cardinality({i \in DOMAIN choices : choices[i].name = key}) <= 1
    PROVE  LET flags == AllFlags(choices)
           IN Variation(choices, key) = IF key \in DOMAIN flags THEN flags[key] ELSE Default
<1> DEFINE S == {i \in DOMAIN choices : choices[i].name = key}
           last(name) == CHOOSE i \in Kept(choices) :
                             /\ choices[i].name = name
                             /\ \A j \in Kept(choices) : choices[j].name = name => j <= i
           names == {choices[i].name : i \in Kept(choices)}
<1>1. DOMAIN choices = 1..Len(choices) /\ Len(choices) \in Nat
  OBVIOUS
<1>2. IsFiniteSet(S)
  <2>1. IsFiniteSet(1..Len(choices))
    BY <1>1, FS_Interval
  <2> QED
    BY <1>1, <2>1, FS_Subset
<1>3. S = {} \/ \E k : S = {k}
  <2>1. Cardinality(S) \in Nat /\ Cardinality(S) <= 1
    BY <1>2, FS_CardinalityType
  <2>2. Cardinality(S) = 0 \/ Cardinality(S) = 1
    BY <2>1
  <2> QED
    BY <1>2, <2>2, FS_EmptySet, FS_Singleton
<1>4. AllFlags(choices) = [name \in names |-> choices[last(name)].body]
  BY DEF AllFlags
<1>5. key # ""
  BY FlagsAssumption DEF NoNames
<1>6. CASE S = {}
  <2>1. Variation(choices, key) = Default
    BY <1>6 DEF Variation, Match, Reached
  <2>2. key \notin names
    BY <1>6 DEF Kept
  <2> QED
    BY <1>4, <2>1, <2>2
<1>7. ASSUME NEW k, S = {k} PROVE
        Variation(choices, key) = IF key \in names THEN choices[last(key)].body ELSE Default
  <2>1. /\ k \in DOMAIN choices
        /\ choices[k].name = key
        /\ \A i \in DOMAIN choices : choices[i].name = key => i = k
    BY <1>7
  <2>2. k \in Reached(choices, key)
    BY <1>1, <2>1 DEF Reached
  <2>3. Match(choices, key) = {k}
    BY <2>1, <2>2 DEF Match, Reached
  <2>4. Variation(choices, key) = IF choices[k].body # "null" THEN choices[k].body ELSE Default
    BY <2>3 DEF Variation
  <2>5. k \in Kept(choices) <=> choices[k].body # "null"
    BY <1>5, <2>1 DEF Kept
  <2>6. key \in names <=> k \in Kept(choices)
    BY <2>1 DEF Kept
  <2>7. ASSUME k \in Kept(choices) PROVE last(key) = k
    <3>1. \A i \in Kept(choices) : choices[i].name = key => i = k
      BY <2>1 DEF Kept
    <3>2. \A j \in Kept(choices) : choices[j].name = key => j <= k
      BY <1>1, <2>1, <3>1
    <3> QED
      BY <2>1, <2>7, <3>1, <3>2
  <2> QED
    BY <2>4, <2>5, <2>6, <2>7
<1> QED
  BY <1>3, <1>4, <1>6, <1>7

\* A flag read has the answer to its own request.
ReadsAnswers ==
    IsRead /\ answers # <<>> => \E a \in Evaluations : answers = <<a>>

LEMMA StepsReadAnswers == ReadsAnswers /\ [Next]_vars => ReadsAnswers'
<1> SUFFICES ASSUME ReadsAnswers, [Next]_vars PROVE ReadsAnswers'
  OBVIOUS
<1>1. CASE UNCHANGED vars
  BY <1>1 DEF vars, ReadsAnswers, IsRead
<1>2. CASE Vary
  BY <1>2 DEF Vary, Reads, Sends, Refuses, ReadsAnswers
<1>3. CASE ReadAll
  BY <1>3 DEF ReadAll, Reads, Sends, Refuses, ReadsAnswers
<1>4. CASE Next /\ ~Vary /\ ~ReadAll
  BY <1>4, OtherReads DEF ReadsAnswers, IsRead
<1> QED
  BY <1>1, <1>2, <1>3, <1>4

LEMMA AnswersAgree == ReadsAnswers => ReadPathsAgree
<1> SUFFICES ASSUME ReadsAnswers, IsRead, answers # <<>>,
                    NEW key \in Keys,
                    Cardinality({i \in DOMAIN ChoicesOf(answers[1]) :
                                    ChoicesOf(answers[1])[i].name = key}) <= 1
             PROVE  LET flags == AllFlags(ChoicesOf(answers[1]))
                    IN Variation(ChoicesOf(answers[1]), key) =
                           IF key \in DOMAIN flags THEN flags[key] ELSE Default
  BY DEF ReadPathsAgree
<1>1. PICK a \in Evaluations : answers = <<a>>
  BY DEF ReadsAnswers
<1>2. answers[1] = a
  BY <1>1
<1>3. ChoicesOf(answers[1]) \in Seq(Choice)
  BY <1>2, ChoicesAreASequence
<1> QED
  BY <1>3, PathsAgreeOnce

(* However long the answer, variation and all_flags make the same of every *)
(* key it answers once (_variation_detail, all_flags).                     *)
THEOREM BothPathsAgree == Spec => []ReadPathsAgree
<1>1. Init => ReadsAnswers
  BY DEF Init, Rests, ReadsAnswers
<1> QED
  BY <1>1, StepsReadAnswers, AnswersAgree, PTL DEF Spec

-----------------------------------------------------------------------------
(* Typed reads                                                             *)

(* A value that is not the default is the body of a choice for the key.    *)
LEMMA VariationIsServed ==
    ASSUME NEW choices \in Seq(Choice), NEW key, Variation(choices, key) # Default
    PROVE  \E i \in DOMAIN choices :
              /\ choices[i].name = key
              /\ choices[i].body = Variation(choices, key)
              /\ choices[i].body # "null"
<1>1. PICK i \in Match(choices, key) : choices[i].body # "null"
  BY DEF Variation
<1>2. \A j \in Match(choices, key) : j = i
  <2>1. DOMAIN choices = 1..Len(choices) /\ Len(choices) \in Nat
    OBVIOUS
  <2>2. SUFFICES ASSUME NEW j \in Match(choices, key), j # i PROVE FALSE
    OBVIOUS
  <2>3. i \in Int /\ j \in Int /\ i >= 1 /\ j >= 1
    BY <2>1 DEF Match, Reached
  <2>4. CASE i < j
    BY <2>3, <2>4 DEF Match, Reached
  <2>5. CASE j < i
    BY <2>3, <2>5 DEF Match, Reached
  <2> QED
    BY <2>2, <2>3, <2>4, <2>5
<1>3. Variation(choices, key) = choices[i].body
  BY <1>1, <1>2 DEF Variation
<1> QED
  BY <1>1, <1>3 DEF Match, Reached

LEMMA TypesAreTyped ==
    ASSUME NEW form \in Forms, NEW body \in TypesOf(form), body # "null", ~FloatRaises(form, body)
    PROVE  HasType(form, body)
<1>1. CASE form = "variation"
  BY <1>1 DEF HasType
<1>2. CASE form = "bool"
  BY <1>2 DEF TypesOf, HasType
<1>3. CASE form = "string"
  BY <1>3 DEF TypesOf, HasType
<1>4. CASE form = "number"
  BY <1>4 DEF TypesOf, Numbers, FloatRaises, HasType
<1>5. CASE form = "json"
  BY <1>5 DEF TypesOf, HasType
<1> QED
  BY <1>1, <1>2, <1>3, <1>4, <1>5 DEF Forms

(* What a typed read returns was served for its key, and has its type.     *)
LEMMA ReturnedIsServed ==
    ASSUME NEW form \in Forms, NEW key, NEW a \in Evaluations,
           VariationEnds(form, key, a).kind = "returned",
           VariationEnds(form, key, a).value # Default
    PROVE  \E choice \in Range(ChoicesOf(a)) :
              /\ choice.name = key
              /\ choice.body = VariationEnds(form, key, a).value
              /\ HasType(form, choice.body)
<1> DEFINE value == Variation(ChoicesOf(a), key)
<1>1. ~FloatRaises(form, value) /\ VariationEnds(form, key, a).value = Typed(form, value)
  BY FailuresAreAbsorbed DEF VariationEnds, ReadEnds, Ends
<1>2. value \in TypesOf(form) /\ VariationEnds(form, key, a).value = value /\ value # Default
  BY <1>1 DEF Typed
<1>3. PICK i \in DOMAIN ChoicesOf(a) :
        /\ ChoicesOf(a)[i].name = key
        /\ ChoicesOf(a)[i].body = value
        /\ ChoicesOf(a)[i].body # "null"
  BY <1>2, ChoicesAreASequence, VariationIsServed
<1>4. HasType(form, value)
  BY <1>1, <1>2, <1>3, TypesAreTyped
<1>5. ChoicesOf(a)[i] \in Range(ChoicesOf(a))
  BY DEF Range
<1> QED
  BY <1>2, <1>3, <1>4, <1>5

LEMMA StepsServe == ServedOrDefault /\ [Next]_vars => ServedOrDefault'
<1> SUFFICES ASSUME ServedOrDefault, [Next]_vars PROVE ServedOrDefault'
  OBVIOUS
<1>1. CASE UNCHANGED vars
  BY <1>1 DEF vars, ServedOrDefault
<1>2. CASE answers' = <<>>
  BY <1>2 DEF ServedOrDefault
<1>3. CASE Vary
  <2>1. PICK form, key, who :
          /\ form \in Forms
          /\ call' = [op |-> "variation", given |-> [form |-> form, key |-> key, who |-> who]]
          /\ answers' = <<>> \/ \E a \in Evaluations :
                answers' = <<a>> /\ outcome' = VariationEnds(form, key, a)
    BY <1>3 DEF Vary, Makes, Reads, Sends, Refuses
  <2>2. ASSUME NEW a \in Evaluations, answers' = <<a>>, outcome' = VariationEnds(form, key, a)
        PROVE  ServedOrDefault'
    <3>1. answers'[1] = a
      BY <2>2
    <3>2. call'.given.key = key /\ call'.given.form = form
      BY <2>1
    <3> QED
      BY <2>1, <2>2, <3>1, <3>2, ReturnedIsServed DEF ServedOrDefault
  <2> QED
    BY <1>2, <2>1, <2>2
<1>4. CASE ReadAll
  <2>1. call'.op = "all_flags"
    BY <1>4, NameOfCall DEF ReadAll
  <2> QED
    BY <2>1 DEF ServedOrDefault
<1>5. CASE Next /\ ~Vary /\ ~ReadAll
  BY <1>5, OtherReads DEF ServedOrDefault
<1> QED
  BY <1>1, <1>3, <1>4, <1>5

(* No read invents or coerces a value (variation and its typed forms).     *)
THEOREM ReadsAreServed == Spec => []ServedOrDefault
<1>1. Init => ServedOrDefault
  BY DEF Init, Rests, ServedOrDefault
<1> QED
  BY <1>1, StepsServe, PTL DEF Spec

-----------------------------------------------------------------------------
(* Numbers                                                                 *)

(* Of some natural numbers one is the least.  It is induction with a set in*)
(* the place of a predicate, which is what the provers can instantiate.    *)
LEMMA LeastOf ==
    ASSUME NEW T \in SUBSET Nat, T # {}
    PROVE  \E n \in T : \A m \in T : n <= m
<1> DEFINE R == OpToRel(<, Nat)
<1>1. IsWellFoundedOn(R, Nat)
  BY NatLessThanWellFounded
<1> HIDE DEF R
<1>2. PICK n \in T : \A m \in T : ~ (<<m, n>> \in R)
  BY <1>1, WFMin
<1>3. \A m \in T : m < n => <<m, n>> \in R
  BY DEF R, OpToRel
<1>4. \A m \in T : ~(m < n)
  BY <1>2, <1>3
<1>5. n \in Nat /\ \A m \in T : m \in Nat
  OBVIOUS
<1>6. ASSUME NEW m \in T PROVE n <= m
  <2>1. ~(m < n) /\ m \in Nat
    BY <1>4, <1>5
  <2> QED
    BY <1>5, <2>1
<1> QED
  BY <1>6

(* Sizes multiply.                                                         *)
LEMMA Products ==
    ASSUME NEW a \in Nat, NEW b \in Nat
    PROVE  a * b \in Nat
  OBVIOUS

(* What is left of a division is less than the divisor.                    *)
LEMMA Division ==
    ASSUME NEW n \in Nat, NEW size \in Nat \ {0}
    PROVE  /\ n \div size \in Nat
           /\ (n \div size) * size <= n
           /\ n < (n \div size) * size + size
  OBVIOUS

(* One multiple more or less.                                              *)
LEMMA Multiples ==
    ASSUME NEW i \in Int, NEW size \in Int
    PROVE  i * size \in Int /\ (i - 1) * size + size = i * size /\ (i + 1) * size = i * size + size
  OBVIOUS

(* More chunks hold more.                                                  *)
LEMMA Monotone ==
    ASSUME NEW i \in Int, NEW j \in Int, NEW size \in Nat, i <= j
    PROVE  i * size <= j * size
  OBVIOUS

-----------------------------------------------------------------------------
(* Chunks                                                                  *)

(* The chunks of a list are its consecutive pieces, none of them empty or  *)
(* wider than the size, and the last one ends where the list does.         *)
LEMMA ChunkBounds ==
    ASSUME NEW S, NEW s \in Seq(S), NEW size \in Nat \ {0}
    PROVE  /\ ChunkCount(s, size) \in Nat
           /\ ChunkCount(s, size) = 0 <=> s = <<>>
           /\ \A i \in 1..ChunkCount(s, size) :
                 /\ ChunkEnd(s, size, i) \in Nat
                 /\ (i - 1) * size \in Nat
                 /\ (i - 1) * size < ChunkEnd(s, size, i)
                 /\ ChunkEnd(s, size, i) <= Len(s)
                 /\ ChunkEnd(s, size, i) <= (i - 1) * size + size
                 /\ i # 1 => ChunkEnd(s, size, i - 1) = (i - 1) * size
           /\ s # <<>> => ChunkEnd(s, size, ChunkCount(s, size)) = Len(s)
<1> DEFINE n == Len(s)
           c == ChunkCount(s, size)
<1>1. n \in Nat /\ (n = 0 <=> s = <<>>)
  BY LenProperties, EmptySeq
<1>2. c \in Nat /\ c * size <= n + size - 1 /\ n + size - 1 < c * size + size
  BY <1>1, Division DEF ChunkCount
<1>3. c = 0 <=> n = 0
  <2>1. CASE c = 0
    BY <1>1, <1>2, <2>1
  <2>2. CASE n = 0 /\ c # 0
    <3>1. 1 * size <= c * size
      BY <1>2, <2>2, Monotone
    <3> QED
      BY <1>1, <1>2, <2>2, <3>1
  <2> QED
    BY <1>1, <1>2, <2>1, <2>2
<1>4. ASSUME NEW i \in 1..c
      PROVE  /\ (i - 1) * size \in Nat /\ i * size \in Nat
             /\ i * size = (i - 1) * size + size
             /\ (i - 1) * size < n
  <2>1. i \in Nat /\ i - 1 \in Nat
    BY <1>2
  <2>2. (i - 1) * size \in Nat /\ i * size \in Nat /\ c * size \in Nat
    BY <1>2, <2>1, Products
  <2>3. i * size = (i - 1) * size + size
    BY <2>1, Multiples
  <2>4. i * size <= c * size
    BY <1>2, <2>1, Monotone
  <2> QED
    BY <1>1, <1>2, <2>2, <2>3, <2>4
<1>5. ASSUME NEW i \in 1..c, i # 1
      PROVE  ChunkEnd(s, size, i - 1) = (i - 1) * size
  BY <1>1, <1>4, <1>5 DEF ChunkEnd
<1>6. ASSUME NEW i \in 1..c
      PROVE  /\ ChunkEnd(s, size, i) \in Nat
             /\ (i - 1) * size < ChunkEnd(s, size, i)
             /\ ChunkEnd(s, size, i) <= n
             /\ ChunkEnd(s, size, i) <= (i - 1) * size + size
  BY <1>1, <1>4 DEF ChunkEnd
<1>7. s # <<>> => ChunkEnd(s, size, c) = n
  <2>1. c * size \in Nat
    BY <1>2, Products
  <2> QED
    BY <1>1, <1>2, <2>1 DEF ChunkEnd
<1> HIDE DEF n, c
<1> QED
  BY <1>1, <1>2, <1>3, <1>4, <1>5, <1>6, <1>7 DEF n, c

(* Each chunk is a slice of the list.                                      *)
LEMMA ChunksAreSlices ==
    ASSUME NEW S, NEW s \in Seq(S), NEW size \in Nat \ {0}
    PROVE  /\ Chunk(s, size) \in Seq(Seq(S))
           /\ Len(Chunk(s, size)) = ChunkCount(s, size)
           /\ \A i \in 1..ChunkCount(s, size) :
                 /\ Chunk(s, size)[i] =
                        SubSeq(s, (i - 1) * size + 1, ChunkEnd(s, size, i))
                 /\ Len(Chunk(s, size)[i]) \in 1..size
<1>1. ChunkCount(s, size) \in Nat
  BY ChunkBounds
<1>2. ASSUME NEW i \in 1..ChunkCount(s, size)
      PROVE  /\ SubSeq(s, (i - 1) * size + 1, ChunkEnd(s, size, i)) \in Seq(S)
             /\ Len(SubSeq(s, (i - 1) * size + 1, ChunkEnd(s, size, i))) \in 1..size
  <2> DEFINE m == (i - 1) * size
             e == ChunkEnd(s, size, i)
  <2>1. m \in Nat /\ e \in Nat /\ m < e /\ e <= Len(s) /\ e <= m + size
    BY ChunkBounds
  <2> HIDE DEF m, e
  <2>2. Len(s) \in Nat
    BY LenProperties
  <2>3. m + 1 \in 1..(Len(s) + 1) /\ e \in m..Len(s)
    BY <2>1, <2>2
  <2>4. SubSeq(s, m + 1, e) \in Seq(S) /\ Len(SubSeq(s, m + 1, e)) = e - m
    BY <2>1, <2>2, <2>3, SubSeqProperties
  <2> QED
    BY <2>1, <2>4 DEF m, e
<1>3. DOMAIN Chunk(s, size) = 1..ChunkCount(s, size)
  BY DEF Chunk
<1>4. Chunk(s, size) \in [1..ChunkCount(s, size) -> Seq(S)]
  BY <1>2 DEF Chunk
<1>5. Chunk(s, size) \in Seq(Seq(S))
  BY <1>1, <1>4, SeqDef
<1>6. Len(Chunk(s, size)) = ChunkCount(s, size)
  BY <1>1, <1>3, <1>5, LenProperties
<1>7. \A i \in 1..ChunkCount(s, size) :
         Chunk(s, size)[i] = SubSeq(s, (i - 1) * size + 1, ChunkEnd(s, size, i))
  BY DEF Chunk
<1> QED
  BY <1>2, <1>5, <1>6, <1>7

(* What holds of 1, and of i if of i - 1, holds up to n.                   *)
LEMMA Ascent ==
    ASSUME NEW n \in Nat, NEW T, \A i \in 1..n : i = 1 \/ i - 1 \in T => i \in T
    PROVE  1..n \subseteq T
<1> DEFINE F == (1..n) \ T
<1>1. F \in SUBSET Nat
  OBVIOUS
<1>2. CASE F # {}
  <2> HIDE DEF F
  <2>1. PICK k \in F : \A m \in F : k <= m
    BY <1>1, <1>2, LeastOf
  <2>2. k \in 1..n /\ k \notin T
    BY <2>1 DEF F
  <2>3. k # 1 /\ k - 1 \notin T
    BY <2>2
  <2>4. k - 1 \in 1..n
    BY <2>2, <2>3
  <2>5. k - 1 \in F
    BY <2>3, <2>4 DEF F
  <2> QED
    BY <2>1, <2>2, <2>5
<1> QED
  BY <1>2

(* What joins the pieces one after the other is what they flatten to.      *)
LEMMA FlattenIs ==
    ASSUME NEW S, NEW seqs \in Seq(S), Len(seqs) # 0,
           NEW g, g = [i \in 1..Len(seqs) |-> IF i = 1 THEN seqs[1] ELSE g[i - 1] \o seqs[i]]
    PROVE  FlattenSeq(seqs) = g[Len(seqs)]
<1> DEFINE n == Len(seqs)
           Rec(f) == f = [i \in 1..n |-> IF i = 1 THEN seqs[i] ELSE f[i - 1] \o seqs[i]]
           h == CHOOSE f : Rec(f)
<1>1. n \in Nat
  BY LenProperties
<1>2. Rec(g)
  OBVIOUS
<1>3. Rec(h)
  BY <1>2
<1>4. FlattenSeq(seqs) = h[n]
  BY DEF FlattenSeq
<1> HIDE DEF h
<1> HIDE DEF n
<1>5. \A i \in 1..n : h[i] = IF i = 1 THEN seqs[i] ELSE h[i - 1] \o seqs[i]
  BY <1>3
<1>6. \A i \in 1..n : g[i] = IF i = 1 THEN seqs[i] ELSE g[i - 1] \o seqs[i]
  BY <1>2
<1> HIDE DEF Rec
<1> DEFINE T == {i \in 1..n : h[i] = g[i]}
<1>7. T \subseteq 1..n
  OBVIOUS
<1>8. ASSUME NEW i \in 1..n, i = 1 \/ i - 1 \in T PROVE i \in T
  BY <1>5, <1>6, <1>8
<1>9. n \in T
  <2> HIDE DEF T
  <2>1. n \in 1..n
    BY <1>1 DEF n
  <2> QED
    BY <1>1, <1>7, <1>8, <2>1, Ascent DEF n
<1> QED
  BY <1>4, <1>9 DEF n

(* Adjacent slices join.                                                   *)
LEMMA Adjacent ==
    ASSUME NEW S, NEW s \in Seq(S), NEW m \in Nat, NEW e \in Nat, m <= e, e <= Len(s)
    PROVE  SubSeq(s, 1, m) \o SubSeq(s, m + 1, e) = SubSeq(s, 1, e)
<1>1. Len(s) \in Nat
  BY LenProperties
<1>2. 1 \in 1..(Len(s) + 1) /\ m \in (1 - 1)..Len(s) /\ e \in m..Len(s)
  BY <1>1
<1> QED
  BY <1>2, ConcatAdjacentSubSeq

(* The first n chunks, joined, are the list up to the end of the n-th.     *)
LEMMA FlattenChunks ==
    ASSUME NEW S, NEW s \in Seq(S), NEW size \in Nat \ {0}, NEW n \in 1..ChunkCount(s, size)
    PROVE  FlattenSeq([i \in 1..n |-> Chunk(s, size)[i]]) = SubSeq(s, 1, ChunkEnd(s, size, n))
<1> DEFINE seqs == [i \in 1..n |-> Chunk(s, size)[i]]
           g == [i \in 1..n |-> SubSeq(s, 1, ChunkEnd(s, size, i))]
<1>1. /\ n \in Nat \ {0} /\ Len(s) \in Nat
      /\ \A i \in 1..n : i \in 1..ChunkCount(s, size)
  BY ChunkBounds, LenProperties
<1>2. seqs \in Seq(Seq(S)) /\ Len(seqs) = n
  <2>1. \A i \in 1..n : Chunk(s, size)[i] \in Seq(S)
    BY <1>1, ChunksAreSlices, ElementOfSeq
  <2>2. seqs \in [1..n -> Seq(S)]
    BY <2>1
  <2>3. seqs \in Seq(Seq(S))
    BY <1>1, <2>2, SeqDef
  <2> QED
    BY <1>1, <2>3, LenProperties
<1>3. ASSUME NEW i \in 1..n
      PROVE  g[i] = IF i = 1 THEN seqs[1] ELSE g[i - 1] \o seqs[i]
  <2> DEFINE m == (i - 1) * size
             e == ChunkEnd(s, size, i)
  <2>1. m \in Nat /\ e \in Nat /\ m <= e /\ e <= Len(s)
    <3>1. i \in 1..ChunkCount(s, size)
      BY <1>1
    <3>2. m \in Nat /\ e \in Nat /\ m < e /\ e <= Len(s)
      BY <3>1, ChunkBounds
    <3> HIDE DEF m, e
    <3> QED
      BY <3>2
  <2>2. seqs[i] = SubSeq(s, m + 1, e) /\ g[i] = SubSeq(s, 1, e)
    BY <1>1, ChunksAreSlices
  <2>3. CASE i = 1
    <3>1. m = 0
      BY <2>3, Multiples
    <3> QED
      BY <2>2, <2>3, <3>1
  <2>4. CASE i # 1
    <3>1. i - 1 \in 1..n
      BY <2>4
    <3>2. ChunkEnd(s, size, i - 1) = m
      BY <1>1, <2>4, ChunkBounds
    <3>3. g[i - 1] = SubSeq(s, 1, m)
      BY <3>1, <3>2
    <3>4. SubSeq(s, 1, m) \o SubSeq(s, m + 1, e) = SubSeq(s, 1, e)
      <4> HIDE DEF m, e
      <4> QED
        BY <2>1, Adjacent
    <3> QED
      BY <2>2, <2>4, <3>3, <3>4
  <2> QED
    BY <2>3, <2>4
<1>4. g = [i \in 1..n |-> IF i = 1 THEN seqs[1] ELSE g[i - 1] \o seqs[i]]
  <2>1. g = [i \in 1..n |-> g[i]]
    OBVIOUS
  <2> HIDE DEF g, seqs
  <2> QED
    BY <1>3, <2>1
<1>5. FlattenSeq(seqs) = g[n]
  <2> HIDE DEF g, seqs
  <2> QED
    BY <1>1, <1>2, <1>4, FlattenIs
<1>6. g[n] = SubSeq(s, 1, ChunkEnd(s, size, n))
  <2>1. n \in 1..n
    BY <1>1
  <2> QED
    BY <2>1
<1> QED
  BY <1>5, <1>6

-----------------------------------------------------------------------------
(* Types                                                                   *)

SizesInv ==
    {cfg.max_request_events, cfg.max_concurrent_requests} \subseteq Int \cup {Junk}

(* A patch changes a size as it likes, or leaves it.                        *)
LEMMA StepsKeepSizes == ConfigInv /\ SizesInv /\ [Next]_vars => SizesInv'
<1> SUFFICES ASSUME ConfigInv, SizesInv, [Next]_vars PROVE SizesInv'
  OBVIOUS
<1>1. CASE cfg' = cfg
  BY <1>1 DEF SizesInv
<1>2. CASE SetConfig
  <2>1. PICK p \in Patches : cfg' = IF MergeAccepts(p) THEN Merged(cfg, p) ELSE cfg
    BY <1>2 DEF SetConfig
  <2>2. CASE cfg' = Merged(cfg, p)
    <3>1. /\ cfg'.max_request_events = OrElse(p.max_request_events, cfg.max_request_events)
          /\ cfg'.max_concurrent_requests =
                 OrElse(p.max_concurrent_requests, cfg.max_concurrent_requests)
      BY <2>2 DEF ConfigInv, ConfigFields, Merged
    <3> QED
      BY <3>1, ArgumentAssumption DEF SizesInv, OrElse
  <2> QED
    BY <1>1, <2>1, <2>2
<1>3. CASE UNCHANGED vars
  BY <1>1, <1>3 DEF vars, client
<1> QED
  BY <1>1, <1>2, <1>3, OtherCalls

(* The constructor wants them positive.                                    *)
LEMMA ConstructedSizes == Init => SizesInv
<1> SUFFICES ASSUME Init PROVE SizesInv
  OBVIOUS
<1>1. PICK o \in Options : ResolveAccepts(o) /\ cfg = Resolved(o)
  BY DEF Init
<1>2. /\ cfg.max_request_events = OrElse(o.max_request_events, DefaultLimit)
      /\ cfg.max_concurrent_requests = OrElse(o.max_concurrent_requests, 1)
  BY <1>1 DEF Resolved
<1> QED
  BY <1>1, <1>2 DEF SizesInv, ResolveAccepts, IsPositive

\* What a call leaves: an answer for each request, and a result.
IsResult(e) == e.kind \in {"returned", "refused", "api", "crash"} /\ e.wait \in Nat \cup {None}

ResultInv ==
    /\ DOMAIN call = {"op", "given"}
    /\ Len(sent) = Len(answers)
    /\ \A i \in DOMAIN answers : answers[i] \in Answers \/ answers[i] \in Evaluations
    /\ IsResult(outcome)

(* A result without a wait.                                                *)
LEMMA EndsAreResults ==
    ASSUME NEW kind \in {"returned", "refused", "api", "crash"}, NEW value
    PROVE  IsResult(Ends(kind, value, None))
  BY DEF IsResult, Ends

(* What post returns or raises; only a refusal of the service is an error  *)
(* of it.                                                                  *)
LEMMA PostedIsResult ==
    ASSUME NEW a \in Answers \cup Evaluations
    PROVE  IsResult(Posted(a)) /\ (Posted(a).kind = "returned" => a.status \in 200..299)
                               /\ (Posted(a).kind = "api" => a.status \notin 200..299)
                               /\ Posted(a).kind # "refused"
<1>1. RetryAfterMs(a.header) \in Nat \cup {None}
  <2>1. a.header.n \in Int
    BY ArgumentAssumption
  <2> QED
    BY <2>1 DEF RetryAfterMs, IsAWait
<1>2. CASE Overflows(a)
  BY <1>2, EndsAreResults DEF Posted, Ends
<1>3. CASE ~Overflows(a) /\ a.status = 0
  BY <1>3, EndsAreResults DEF Posted, Ends
<1>4. CASE ~Overflows(a) /\ a.status # 0 /\ a.status \in 200..299
  BY <1>4, EndsAreResults DEF Posted, Ends
<1>5. CASE ~Overflows(a) /\ a.status # 0 /\ a.status \notin 200..299
  BY <1>1, <1>5 DEF Posted, Ends, IsResult
<1> QED
  BY <1>2, <1>3, <1>4, <1>5

(* A write gives no more than what post raises.                            *)
LEMMA QuietlyIsResult ==
    ASSUME NEW a \in Answers
    PROVE  IsResult(Quietly(a))
  BY PostedIsResult, EndsAreResults DEF Quietly, Returned

(* A flag read returns or crashes.                                         *)
LEMMA ReadsAreResults ==
    ASSUME NEW a, NEW raises \in BOOLEAN, NEW value
    PROVE  IsResult(ReadEnds(a, raises, value))
<1>1. ReadEnds(a, raises, value) \in {Ends("crash", None, None), Ends("returned", value, None)}
  BY FailuresAreAbsorbed DEF ReadEnds
<1> QED
  BY <1>1, EndsAreResults

\* The call sends nothing and ends there.
SaysNothing ==
    /\ sent' = <<>> /\ answers' = <<>>
    /\ outcome' \in {Returned, Refused, Ends("crash", None, None)}

(* A call that sends nothing has no answer.                                *)
LEMMA SilenceIsTyped ==
    ASSUME SaysNothing
    PROVE  /\ Len(sent') = Len(answers')
           /\ \A i \in DOMAIN answers' : answers'[i] \in Answers \/ answers'[i] \in Evaluations
           /\ IsResult(outcome')
  BY EndsAreResults DEF SaysNothing, Returned, Refused

(* A call that sends one request has one.                                  *)
LEMMA OneIsTyped ==
    ASSUME NEW request, NEW a \in Answers \cup Evaluations,
           sent' = <<request>>, answers' = <<a>>, IsResult(outcome')
    PROVE  /\ Len(sent') = Len(answers')
           /\ \A i \in DOMAIN answers' : answers'[i] \in Answers \/ answers'[i] \in Evaluations
           /\ IsResult(outcome')
  OBVIOUS

(* What every call but track_batch puts on the wire, if anything.          *)
LEMMA SubmitsOne ==
    ASSUME NEW accepts, NEW events, Submits(accepts, events)
    PROVE  \/ SaysNothing
           \/ /\ accepts
              /\ sent' = <<Request(TrackPath(cfg.source_id), None, events)>>
              /\ \E a \in Answers : answers' = <<a>> /\ IsResult(outcome')
<1>1. CASE accepts /\ IsOptedIn
  BY <1>1, QuietlyIsResult DEF Submits, Sends
<1>2. CASE ~(accepts /\ IsOptedIn)
  BY <1>2 DEF Submits, Sends, NothingToSend, ReturnsAtOnce, Refuses, SaysNothing
<1> QED
  BY <1>1, <1>2

(* What a read puts on the wire, if anything.                              *)
LEMMA ReadsOne ==
    ASSUME NEW accepts, NEW path, NEW who, NEW ends, Reads(accepts, path, who, ends),
           \A a \in DOMAIN ends : a \in Answers \cup Evaluations /\ IsResult(ends[a])
    PROVE  \/ SaysNothing
           \/ /\ accepts
              /\ sent' = <<Request(path, cfg.source_id, <<EventOf(1, "read", who)>>)>>
              /\ \E a \in Answers \cup Evaluations : answers' = <<a>> /\ IsResult(outcome')
<1>1. CASE accepts /\ ~closed
  BY <1>1 DEF Reads, Sends
<1>2. CASE ~(accepts /\ ~closed)
  BY <1>2 DEF Reads, Sends, Refuses, SaysNothing
<1> QED
  BY <1>1, <1>2

\* The call posts one request, and every item in it names somebody.
PostsOne ==
    \E r, a :
        /\ sent' = <<r>> /\ answers' = <<a>>
        /\ a \in Answers \cup Evaluations
        /\ IsResult(outcome')
        /\ \A j \in DOMAIN r.items : Resolves(r, r.items[j].who)

(* A track endpoint resolves whoever has an identifier.                    *)
LEMMA EventsNameSomebody ==
    ASSUME NEW events, NEW source, \A j \in DOMAIN events : HasIdentifier(events[j].who)
    PROVE  LET r == Request(TrackPath(source), None, events)
           IN  \A j \in DOMAIN r.items : Resolves(r, r.items[j].who)
<1> DEFINE r == Request(TrackPath(source), None, events)
<1>1. r.items = events /\ r.path \in {"/track", "/sources/track"}
  BY DEF Request, TrackPath
<1>2. ASSUME NEW who, HasIdentifier(who) PROVE Resolves(r, who)
  <2> HIDE DEF r
  <2> QED
    BY <1>1, <1>2 DEF Resolves, HasIdentifier, NotBlank
<1> QED
  BY <1>1, <1>2

(* A method that looks for an identifier posts no event without.           *)
LEMMA SubmitsNamed ==
    ASSUME NEW accepts, NEW events, Submits(accepts, events),
           accepts => \A j \in DOMAIN events : HasIdentifier(events[j].who)
    PROVE  SaysNothing \/ PostsOne
<1>1. CASE SaysNothing
  BY <1>1
<1>2. CASE ~SaysNothing
  <2> DEFINE r == Request(TrackPath(cfg.source_id), None, events)
  <2>1. accepts /\ sent' = <<r>>
    BY <1>2, SubmitsOne
  <2>2. PICK a \in Answers : answers' = <<a>> /\ IsResult(outcome')
    BY <1>2, SubmitsOne
  <2>3. \A j \in DOMAIN r.items : Resolves(r, r.items[j].who)
    BY <2>1, EventsNameSomebody
  <2> HIDE DEF r
  <2> QED
    BY <2>1, <2>2, <2>3 DEF PostsOne
<1> QED
  BY <1>1, <1>2

(* The same of a read and the one it is for.                               *)
LEMMA ReadsNamed ==
    ASSUME NEW accepts, NEW path, NEW who, NEW ends, Reads(accepts, path, who, ends),
           \A a \in DOMAIN ends : a \in Answers \cup Evaluations /\ IsResult(ends[a]),
           accepts => Resolves(Request(path, cfg.source_id, <<EventOf(1, "read", who)>>), who)
    PROVE  SaysNothing \/ PostsOne
<1>1. CASE SaysNothing
  BY <1>1
<1>2. CASE ~SaysNothing
  <2> DEFINE items == <<EventOf(1, "read", who)>>
             r == Request(path, cfg.source_id, items)
  <2>1. accepts /\ sent' = <<r>>
    BY <1>2, ReadsOne
  <2>2. PICK a \in Answers \cup Evaluations : answers' = <<a>> /\ IsResult(outcome')
    BY <1>2, ReadsOne
  <2>3. r.items = items /\ \A j \in DOMAIN items : items[j].who = who
    BY DEF Request, EventOf
  <2>4. Resolves(r, who)
    BY <2>1
  <2> HIDE DEF r, items
  <2> QED
    BY <2>1, <2>2, <2>3, <2>4 DEF PostsOne
<1> QED
  BY <1>1, <1>2

(* Every write looks for one.                                              *)
LEMMA WritesNamed ==
    ASSUME Track \/ Identify \/ Group \/ Commerce
    PROVE  SaysNothing \/ PostsOne
<1>1. \A id, event, who : LET s == <<EventOf(id, event, who)>>
                          IN  \A j \in DOMAIN s : s[j].who = who
  BY DEF EventOf
<1>2. CASE Track
  <2>1. PICK o \in Happenings :
          Submits(EventIsUsable(o), <<EventOf(1, o.event, o.who)>>)
    BY <1>2 DEF Track
  <2>2. EventIsUsable(o) => HasIdentifier(o.who)
    BY DEF EventIsUsable
  <2> QED
    BY <1>1, <2>1, <2>2, SubmitsNamed
<1>3. CASE Identify
  <2>1. PICK o \in Happenings :
          Submits(ReservedNameIsUsable(o.event) /\ HasIdentifier(o.who) /\ o.timely,
                  <<EventOf(1, ReservedName(o.event), o.who)>>)
    BY <1>3 DEF Identify
  <2> QED
    BY <1>1, <2>1, SubmitsNamed
<1>4. CASE Group
  <2>1. PICK o \in Happenings :
          Submits(ReservedNameIsUsable(o.event) /\ NotBlank(o.who.account) /\ o.timely,
                  <<EventOf(1, ReservedName(o.event), o.who)>>)
    BY <1>4 DEF Group
  <2>2. NotBlank(o.who.account) => HasIdentifier(o.who)
    BY DEF HasIdentifier, Fields
  <2> QED
    BY <1>1, <2>1, <2>2, SubmitsNamed
<1>5. CASE Commerce
  <2>1. PICK accepts, who, products :
          /\ Submits(accepts, Lines(who, products))
          /\ accepts => HasIdentifier(who)
    BY <1>5 DEF Commerce
  <2>2. \A j \in DOMAIN Lines(who, products) : Lines(who, products)[j].who = who
    BY DEF Lines, EventOf
  <2> QED
    BY <2>1, <2>2, SubmitsNamed
<1> QED
  BY <1>2, <1>3, <1>4, <1>5

(* Consent by a profile has a source.                                      *)
LEMMA ConsentNamed ==
    ASSUME RecordConsent
    PROVE  SaysNothing \/ PostsOne
<1>1. PICK who :
        \/ SaysNothing
        \/ /\ ConsentIsIdentified(who) /\ ConsentIsUsable(who, cfg.source_id)
           /\ \E a \in Answers :
                Sends(<<Request("/consents", ConsentSource(who, cfg.source_id),
                                <<EventOf(1, "consent", who)>>)>>, <<a>>, Quietly(a))
  BY DEF RecordConsent, Sends, NothingToSend, ReturnsAtOnce, Refuses, SaysNothing
<1>2. CASE ~SaysNothing
  <2> DEFINE items == <<EventOf(1, "consent", who)>>
             r == Request("/consents", ConsentSource(who, cfg.source_id), items)
  <2>1. PICK a \in Answers : sent' = <<r>> /\ answers' = <<a>> /\ outcome' = Quietly(a)
    BY <1>1, <1>2 DEF Sends
  <2>2. r.items = items /\ \A j \in DOMAIN items : items[j].who = who
    BY DEF Request, EventOf
  <2>3. r.path = "/consents" /\ r.source = ConsentSource(who, cfg.source_id)
    BY DEF Request
  <2> HIDE DEF r, items
  <2>4. Resolves(r, who)
    BY <1>1, <1>2, <2>3 DEF Resolves, ConsentIsIdentified, ConsentIsUsable, ConsentSource,
                            NotBlank, Truthy
  <2>5. IsResult(outcome')
    BY <2>1, QuietlyIsResult
  <2> QED
    BY <2>1, <2>2, <2>4, <2>5 DEF PostsOne
<1> QED
  BY <1>2

(* A feed is asked for exactly one entity.                                 *)
LEMMA OneEntityIsOne ==
    ASSUME NEW who, OneEntity(who)
    PROVE  Cardinality({f \in Fields : Entity(who)[f] # "absent"}) = 1
<1>1. {f \in Fields : Entity(who)[f] # "absent"} \in {{"user"}, {"account"}}
  BY DEF OneEntity, Entity, NotBlank, Fields
<1> QED
  BY <1>1, FS_Singleton

(* Every read is for somebody its endpoint resolves.                       *)
LEMMA DecisionsNamed ==
    ASSUME Recommend \/ Vary \/ ReadAll
    PROVE  SaysNothing \/ PostsOne
<1>1. \A path, source, items :
          Request(path, source, items).path = path /\ Request(path, source, items).source = source
  BY DEF Request
<1>2. ASSUME NEW who, HasIdentity(who, cfg.source_id), NEW items
      PROVE  Resolves(Request("/choose", cfg.source_id, items), who)
  BY <1>1, <1>2 DEF Resolves, HasIdentity, NotBlank
<1>3. CASE Recommend
  <2>1. PICK who, limit :
          Reads(OneEntity(who) /\ limit # "other", "/feeds", Entity(who),
                [a \in Answers |-> Posted(a)])
    BY <1>3 DEF Recommend
  <2>2. \A a \in Answers : IsResult(Posted(a))
    BY PostedIsResult
  <2>3. OneEntity(who) =>
          Resolves(Request("/feeds", cfg.source_id, <<EventOf(1, "read", Entity(who))>>),
                   Entity(who))
    BY <1>1, OneEntityIsOne DEF Resolves
  <2> DEFINE ends == [a \in Answers |-> Posted(a)]
  <2>4. \A a \in DOMAIN ends : a \in Answers \cup Evaluations /\ IsResult(ends[a])
    BY <2>2
  <2> HIDE DEF ends
  <2>5. Reads(OneEntity(who) /\ limit # "other", "/feeds", Entity(who), ends)
    BY <2>1 DEF ends
  <2> QED
    BY <2>3, <2>4, <2>5, ReadsNamed
<1>4. CASE Vary
  <2>1. PICK form, key, who :
          Reads(key \in Keys /\ HasIdentity(who, cfg.source_id), "/choose", who,
                [a \in Evaluations |-> VariationEnds(form, key, a)])
    BY <1>4 DEF Vary
  <2>2. \A a \in Evaluations : IsResult(VariationEnds(form, key, a))
    BY ReadsAreResults DEF VariationEnds, VariationRaises, FloatRaises
  <2> DEFINE ends == [a \in Evaluations |-> VariationEnds(form, key, a)]
  <2>3. \A a \in DOMAIN ends : a \in Answers \cup Evaluations /\ IsResult(ends[a])
    BY <2>2
  <2> HIDE DEF ends
  <2>4. Reads(key \in Keys /\ HasIdentity(who, cfg.source_id), "/choose", who, ends)
    BY <2>1 DEF ends
  <2> QED
    BY <1>2, <2>3, <2>4, ReadsNamed
<1>5. CASE ReadAll
  <2>1. PICK who :
          Reads(HasIdentity(who, cfg.source_id), "/choose", who,
                [a \in Evaluations |-> AllFlagsEnds(a)])
    BY <1>5 DEF ReadAll
  <2>2. \A a \in Evaluations : IsResult(AllFlagsEnds(a))
    BY ReadsAreResults DEF AllFlagsEnds, AllFlagsRaises
  <2> DEFINE ends == [a \in Evaluations |-> AllFlagsEnds(a)]
  <2>3. \A a \in DOMAIN ends : a \in Answers \cup Evaluations /\ IsResult(ends[a])
    BY <2>2
  <2> HIDE DEF ends
  <2>4. Reads(HasIdentity(who, cfg.source_id), "/choose", who, ends)
    BY <2>1 DEF ends
  <2> QED
    BY <1>2, <2>3, <2>4, ReadsNamed
<1> QED
  BY <1>3, <1>4, <1>5

(* Every call but track_batch posts nothing, or one request.               *)
LEMMA OneOrNothing ==
    ASSUME Next, ~TrackBatch
    PROVE  SaysNothing \/ PostsOne
<1>1. CASE Return
  BY <1>1 DEF Return, SaysNothing
<1>2. CASE SetConfig
  BY <1>2 DEF SetConfig, ReturnsAtOnce, Refuses, Sends, SaysNothing
<1>3. CASE OptIn \/ OptOut \/ Close \/ WaitForInitialization
  BY <1>3 DEF OptIn, OptOut, Close, WaitForInitialization, ReturnsAtOnce, Refuses, Sends,
              SaysNothing
<1> QED
  BY <1>1, <1>2, <1>3, WritesNamed, ConsentNamed, DecisionsNamed DEF Next, Calls

(* The events of a batch, one for each of its entries.                     *)
LEMMA WireIsASequence ==
    ASSUME NEW batch \in Batches
    PROVE  /\ Wire(batch) \in Seq(Range(Wire(batch)))
           /\ DOMAIN Wire(batch) = DOMAIN batch
           /\ \A i \in DOMAIN batch : Wire(batch)[i].who = batch[i].who /\ Wire(batch)[i].id = i
           /\ batch = <<>> <=> Wire(batch) = <<>>
<1>1. batch \in Seq(Happenings)
  BY ArgumentAssumption
<1>2. Len(batch) \in Nat /\ DOMAIN batch = 1..Len(batch)
  BY <1>1, LenProperties
<1>3. Wire(batch) \in [1..Len(batch) -> Range(Wire(batch))]
  BY <1>2 DEF Wire, Range
<1>4. Wire(batch) \in Seq(Range(Wire(batch)))
  BY <1>2, <1>3, SeqDef
<1>5. Len(Wire(batch)) = Len(batch)
  BY <1>2, <1>3, <1>4, LenProperties
<1>6. batch = <<>> <=> Wire(batch) = <<>>
  BY <1>1, <1>4, <1>5, EmptySeq
<1> QED
  BY <1>2, <1>3, <1>4, <1>6 DEF Wire, EventOf

\* A call that sends chunks: `replies' are the answers in the order of the
\* chunks, `order' the order in which the chunks were posted.
Posts(batch, order, replies) ==
    LET s == Wire(batch)
        size == cfg.max_request_events
        n == Len(replies)
    IN  /\ batch \in Batches /\ batch # <<>> /\ BatchIsValid(batch)
        /\ call' = [op |-> "track_batch", given |-> batch]
        /\ size \in Nat \ {0} /\ cfg.max_concurrent_requests \in Int
        /\ replies \in Seq(Answers) /\ n \in 1..ChunkCount(s, size)
        /\ order \in Bijection(1..n, 1..n)
        /\ cfg.max_concurrent_requests > 1 => n = ChunkCount(s, size)
        /\ cfg.max_concurrent_requests <= 1 =>
              /\ order = [k \in 1..n |-> k]
              /\ n < ChunkCount(s, size) => Fails(replies[n])
        /\ sent' = [k \in 1..n |-> ChunkRequest(Chunk(s, size)[order[k]])]
        /\ answers' = [k \in 1..n |-> replies[order[k]]]
        /\ outcome' = FirstFailure(replies)

(* What is in order is one of the orders.                                  *)
LEMMA InOrder ==
    ASSUME NEW n
    PROVE  [k \in 1..n |-> k] \in Bijection(1..n, 1..n)
  BY DEF Bijection, Injection, Surjection, IsInjective

(* Every chunk is posted at one place in the order.                        *)
LEMMA OrdersArrange ==
    ASSUME NEW n, NEW order \in Bijection(1..n, 1..n)
    PROVE  /\ order \in [1..n -> 1..n]
           /\ \A k, l \in 1..n : k # l => order[k] # order[l]
           /\ \A i \in 1..n : \E k \in 1..n : order[k] = i
<1>1. order \in [1..n -> 1..n] /\ \A i \in 1..n : \E k \in 1..n : order[k] = i
  BY DEF Bijection, Surjection
<1>2. IsInjective(order) /\ DOMAIN order = 1..n
  BY <1>1 DEF Bijection, Injection
<1>3. \A k, l \in 1..n : k # l => order[k] # order[l]
  BY <1>2 DEF IsInjective
<1> QED
  BY <1>1, <1>3

(* What a track_batch that sends anything leaves.                          *)
LEMMA BatchSends ==
    ASSUME SizesInv, TrackBatch, ~SaysNothing
    PROVE  \E batch, order, replies : Posts(batch, order, replies)
<1> DEFINE size == cfg.max_request_events
           workers == cfg.max_concurrent_requests
<1>1. PICK batch \in Batches :
        /\ Makes("track_batch", batch)
        /\ \/ batch = <<>> /\ ReturnsAtOnce
           \/ /\ batch # <<>> /\ ~(BatchIsValid(batch) /\ IsOptedIn)
              /\ NothingToSend(BatchIsValid(batch))
           \/ batch # <<>> /\ BatchIsValid(batch) /\ IsOptedIn /\ SendsChunks(Wire(batch))
  BY DEF TrackBatch
<1> DEFINE s == Wire(batch)
           chunks == Chunk(s, size)
<1>2. batch # <<>> /\ BatchIsValid(batch) /\ SendsChunks(s)
  BY <1>1 DEF ReturnsAtOnce, NothingToSend, Refuses, Sends, SaysNothing
<1>3. /\ size # Junk /\ ChunkIsDefined(size) /\ workers # Junk
      /\ IF workers <= 1 THEN SendsInTurn(chunks) ELSE SendsByPool(chunks)
  BY <1>2 DEF SendsChunks, Refuses, Crashes, Sends, SaysNothing
<1>4. size \in Nat \ {0} /\ workers \in Int
  BY <1>3 DEF SizesInv, ChunkIsDefined
<1>5. s \in Seq(Range(s)) /\ s # <<>>
  BY <1>2, WireIsASequence
<1>6. Len(chunks) = ChunkCount(s, size) /\ ChunkCount(s, size) \in Nat \ {0}
  BY <1>4, <1>5, ChunksAreSlices, ChunkBounds
<1>7. call' = [op |-> "track_batch", given |-> batch]
  BY <1>1 DEF Makes
<1> HIDE DEF s, chunks
<1>8. CASE workers <= 1
  <2>1. PICK n, replies :
          /\ n \in 1..Len(chunks) /\ replies \in [1..n -> Answers]
          /\ InTurn(Len(chunks), replies)
          /\ Sends([k \in DOMAIN replies |-> ChunkRequest(chunks[k])], replies,
                   FirstFailure(replies))
    BY <1>3, <1>8 DEF SendsInTurn
  <2> DEFINE order == [k \in 1..n |-> k]
  <2>2. n \in Nat /\ replies \in Seq(Answers) /\ Len(replies) = n /\ DOMAIN replies = 1..n
    <3>1. n \in Nat
      BY <1>6, <2>1
    <3> QED
      BY <2>1, <3>1, SeqDef, LenProperties
  <2>3. n < ChunkCount(s, size) => Fails(replies[n])
    BY <1>6, <2>1, <2>2 DEF InTurn
  <2>4. answers' = [k \in 1..n |-> replies[order[k]]]
    BY <2>1, <2>2 DEF Sends
  <2>5. sent' = [k \in 1..n |-> ChunkRequest(chunks[order[k]])]
    BY <2>1, <2>2 DEF Sends
  <2>6. order \in Bijection(1..n, 1..n)
    BY InOrder
  <2>7. outcome' = FirstFailure(replies)
    BY <2>1 DEF Sends
  <2>8. ~(workers > 1) /\ n \in 1..ChunkCount(s, size)
    BY <1>4, <1>6, <1>8, <2>1
  <2>9. Posts(batch, order, replies)
    <3> HIDE DEF order
    <3> QED
      BY <1>2, <1>4, <1>7, <2>2, <2>3, <2>4, <2>5, <2>6, <2>7, <2>8
         DEF Posts, s, chunks, order
  <2> QED
    BY <2>9
<1>9. CASE ~(workers <= 1)
  <2> DEFINE n == Len(chunks)
  <2>1. PICK order \in PostingOrders(n), replies \in [1..n -> Answers] :
          Sends([k \in DOMAIN order |-> ChunkRequest(chunks[order[k]])],
                [k \in DOMAIN order |-> replies[order[k]]],
                FirstFailure(replies))
    BY <1>3, <1>9 DEF SendsByPool
  <2>2. replies \in Seq(Answers) /\ Len(replies) = n
    BY <1>6, <2>1, SeqDef, LenProperties
  <2>3. order \in Bijection(1..n, 1..n)
    BY DEF PostingOrders
  <2>4. DOMAIN order = 1..n
    BY <2>3, OrdersArrange
  <2>5. n \in 1..ChunkCount(s, size) /\ n = ChunkCount(s, size)
    BY <1>6
  <2> HIDE DEF n
  <2>6. /\ sent' = [k \in 1..n |-> ChunkRequest(chunks[order[k]])]
        /\ answers' = [k \in 1..n |-> replies[order[k]]]
        /\ outcome' = FirstFailure(replies)
    BY <2>1, <2>4 DEF Sends
  <2>7. Posts(batch, order, replies)
    BY <1>2, <1>4, <1>7, <1>9, <2>2, <2>3, <2>5, <2>6 DEF Posts, s, chunks
  <2> QED
    BY <2>7
<1> QED
  BY <1>8, <1>9

(* The error that is raised is that of the first chunk that failed.        *)
LEMMA FirstFailureIsFirst ==
    ASSUME NEW replies \in Seq(Answers)
    PROVE  \/ /\ FirstFailure(replies) = Returned
              /\ \A i \in DOMAIN replies : replies[i].status \in 200..299 /\ ~Fails(replies[i])
           \/ \E c \in DOMAIN replies :
                 /\ FirstFailure(replies) = Posted(replies[c]) /\ Fails(replies[c])
                 /\ \A i \in DOMAIN replies : Fails(replies[i]) => c <= i
<1> DEFINE Bad == {i \in DOMAIN replies : Fails(replies[i])}
           First(k) == Fails(replies[k]) /\ \A j \in 1..(k - 1) : ~Fails(replies[j])
<1>1. DOMAIN replies = 1..Len(replies) /\ Len(replies) \in Nat
  BY LenProperties
<1>2. \A i \in DOMAIN replies : replies[i] \in Answers
  BY <1>1, ElementOfSeq
<1>3. CASE Bad = {}
  <2>1. FirstFailure(replies) = Returned
    BY <1>3 DEF FirstFailure
  <2>2. \A i \in DOMAIN replies : ~Fails(replies[i])
    BY <1>3
  <2>3. \A i \in DOMAIN replies : replies[i].status \in 200..299
    BY <1>2, <2>2, PostedIsResult DEF Fails
  <2> QED
    BY <2>1, <2>2, <2>3
<1>4. CASE Bad # {}
  <2>1. Bad \in SUBSET Nat
    BY <1>1
  <2>2. \E k \in DOMAIN replies : First(k)
    <3>1. PICK k \in Bad : \A m \in Bad : k <= m
      BY <1>4, <2>1, LeastOf
    <3>2. \A j \in 1..(k - 1) : j \in 1..Len(replies) /\ ~(k <= j)
      BY <1>1, <3>1
    <3> QED
      BY <1>1, <3>1, <3>2
  <2>3. PICK c \in DOMAIN replies : First(c) /\ FirstFailure(replies) = Posted(replies[c])
    <3> DEFINE c == CHOOSE i \in DOMAIN replies : First(i)
    <3>1. c \in DOMAIN replies /\ First(c)
      BY <2>2
    <3>2. FirstFailure(replies) = Posted(replies[c])
      BY <1>4 DEF FirstFailure
    <3> QED
      BY <3>1, <3>2
  <2>4. ASSUME NEW i \in DOMAIN replies, Fails(replies[i]) PROVE c <= i
    <3>1. i \notin 1..(c - 1)
      BY <2>3, <2>4
    <3> QED
      BY <1>1, <2>3, <3>1
  <2> QED
    BY <2>3, <2>4
<1> QED
  BY <1>3, <1>4

(* It is a result, and says what the answers were.                         *)
LEMMA FirstFailureIsResult ==
    ASSUME NEW replies \in Seq(Answers)
    PROVE  IsResult(FirstFailure(replies)) /\ FirstFailure(replies).kind # "refused"
<1>1. \A i \in DOMAIN replies : replies[i] \in Answers
  BY LenProperties, ElementOfSeq
<1>2. CASE FirstFailure(replies) = Returned
  BY <1>2, EndsAreResults DEF Returned, Ends
<1>3. CASE \E c \in DOMAIN replies : FirstFailure(replies) = Posted(replies[c])
  BY <1>1, <1>3, PostedIsResult
<1> QED
  BY <1>2, <1>3, FirstFailureIsFirst

(* A call is recorded with what it was given.                              *)
LEMMA CallsAreRecords ==
    ASSUME Next
    PROVE  DOMAIN call' = {"op", "given"}
<1>1. \A op, given : Makes(op, given) => DOMAIN call' = {"op", "given"}
  BY DEF Makes
<1>2. CASE Return
  BY <1>2 DEF Return, Idle
<1>3. CASE SetConfig \/ OptIn \/ OptOut \/ Close \/ WaitForInitialization
  BY <1>1, <1>3 DEF SetConfig, OptIn, OptOut, Close, WaitForInitialization
<1>4. CASE Track \/ Identify \/ Group
  BY <1>1, <1>4 DEF Track, Identify, Group
<1>5. CASE Commerce
  BY <1>1, <1>5 DEF Commerce
<1>6. CASE RecordConsent \/ TrackBatch
  BY <1>1, <1>6 DEF RecordConsent, TrackBatch
<1>7. CASE Recommend \/ Vary \/ ReadAll
  BY <1>1, <1>7 DEF Recommend, Vary, ReadAll
<1> QED
  BY <1>2, <1>3, <1>4, <1>5, <1>6, <1>7 DEF Next, Calls

(* Every call leaves an answer for each request.                           *)
LEMMA StepsLeaveResults ==
    ASSUME SizesInv, ResultInv, [Next]_vars
    PROVE  ResultInv'
<1>1. CASE UNCHANGED vars
  BY <1>1 DEF vars, ResultInv
<1>2. ASSUME Next PROVE ResultInv'
  <2>1. DOMAIN call' = {"op", "given"}
    BY <1>2, CallsAreRecords
  <2>2. CASE SaysNothing
    BY <2>1, <2>2, SilenceIsTyped DEF ResultInv
  <2>3. CASE PostsOne
    BY <2>1, <2>3, OneIsTyped DEF ResultInv, PostsOne
  <2>4. CASE TrackBatch /\ ~SaysNothing
    <3>1. PICK batch, order, replies : Posts(batch, order, replies)
      BY <2>4, BatchSends
    <3> DEFINE n == Len(replies)
    <3>2. replies \in Seq(Answers) /\ n \in Nat /\ DOMAIN replies = 1..n
      BY <3>1, LenProperties DEF Posts
    <3>3. /\ answers' = [k \in 1..n |-> replies[order[k]]]
          /\ \E chunks : sent' = [k \in 1..n |-> ChunkRequest(chunks[order[k]])]
          /\ outcome' = FirstFailure(replies) /\ order \in Bijection(1..n, 1..n)
      BY <3>1 DEF Posts
    <3>4. \A k \in 1..n : replies[order[k]] \in Answers
      <4>1. \A k \in 1..n : order[k] \in 1..n
        <5>1. order \in Bijection(1..n, 1..n)
          BY <3>3
        <5> HIDE DEF n
        <5>2. order \in [1..n -> 1..n]
          BY <5>1, OrdersArrange
        <5> QED
          BY <5>2
      <4>2. \A i \in 1..n : replies[i] \in Answers
        BY <3>2, ElementOfSeq
      <4> QED
        BY <4>1, <4>2
    <3>5. IsResult(outcome')
      BY <3>2, <3>3, FirstFailureIsResult
    <3> HIDE DEF n
    <3>6. Len(sent') = Len(answers') /\ DOMAIN answers' = 1..n
      BY <3>2, <3>3
    <3> QED
      BY <2>1, <3>3, <3>4, <3>5, <3>6 DEF ResultInv
  <2> QED
    BY <1>2, <2>2, <2>3, <2>4, OneOrNothing
<1> QED
  BY <1>1, <1>2

\* What no call changes but the few that are meant to.
FlagsInv == {optedIn, closed} \subseteq BOOLEAN

(* The flags are set to TRUE and FALSE only.                               *)
LEMMA StepsKeepFlags == FlagsInv /\ [Next]_vars => FlagsInv'
<1> SUFFICES ASSUME FlagsInv, [Next]_vars PROVE FlagsInv'
  OBVIOUS
<1>1. CASE UNCHANGED <<optedIn, closed>>
  BY <1>1 DEF FlagsInv
<1>2. CASE UNCHANGED vars
  BY <1>1, <1>2 DEF vars, client
<1>3. CASE SetConfig \/ OptIn \/ OptOut \/ Close
  BY <1>3 DEF SetConfig, OptIn, OptOut, Close, FlagsInv
<1>4. CASE Return \/ WaitForInitialization
  BY <1>1, <1>4 DEF Return, WaitForInitialization, client
<1>5. CASE Track \/ Identify \/ Group
  BY <1>1, <1>5 DEF Track, Identify, Group, Submits, client
<1>6. CASE Commerce
  BY <1>1, <1>6 DEF Commerce, Submits, client
<1>7. CASE RecordConsent \/ TrackBatch
  BY <1>1, <1>7 DEF RecordConsent, TrackBatch, client
<1>8. CASE Recommend \/ Vary \/ ReadAll
  BY <1>1, <1>8 DEF Recommend, Vary, ReadAll, Reads, client
<1> QED
  BY <1>2, <1>3, <1>4, <1>5, <1>6, <1>7, <1>8 DEF Next, Calls

(* What a call may leave behind, whatever it was given and whatever the    *)
(* service answered; no wait asked for by an answer is negative (post,     *)
(* parse_retry_after).                                                     *)
THEOREM SessionTypes == Spec => []TypeOK
<1>1. Init => SizesInv /\ FlagsInv /\ ResultInv
  <2>1. Init => FlagsInv
    BY DEF Init, FlagsInv
  <2>2. IsResult(Returned)
    BY EndsAreResults DEF Returned
  <2>3. Init => ResultInv
    BY <2>2 DEF Init, Rests, ResultInv, Idle
  <2> QED
    BY <2>1, <2>3, ConstructedSizes
<1>2. ConfigInv /\ SizesInv /\ FlagsInv /\ ResultInv => TypeOK
  BY DEF ConfigInv, ConfigFields, SizesInv, FlagsInv, ResultInv, IsResult, TypeOK
<1> QED
  BY <1>1, <1>2, ConfigInvHolds, StepsKeepSizes, StepsKeepFlags, StepsLeaveResults, PTL DEF Spec

-----------------------------------------------------------------------------
(* Whom the requests name                                                  *)

(* The chunks of a valid batch have its events, each of which names        *)
(* somebody.                                                               *)
LEMMA ChunksNameSomebody ==
    ASSUME NEW batch \in Batches, BatchIsValid(batch), NEW size \in Nat \ {0},
           NEW i \in 1..ChunkCount(Wire(batch), size)
    PROVE  \A j \in DOMAIN Chunk(Wire(batch), size)[i] :
               HasIdentifier(Chunk(Wire(batch), size)[i][j].who)
<1> DEFINE s == Wire(batch)
           part == Chunk(s, size)[i]
<1>1. s \in Seq(Range(s))
  BY WireIsASequence
<1>2. part \in Seq(Range(s))
  <2>1. Chunk(s, size) \in Seq(Seq(Range(s))) /\ Len(Chunk(s, size)) = ChunkCount(s, size)
    BY <1>1, ChunksAreSlices
  <2> QED
    BY <2>1, ElementOfSeq
<1>3. \A e \in Range(s) : HasIdentifier(e.who)
  <2>1. \A k \in DOMAIN batch : HasIdentifier(batch[k].who)
    BY DEF BatchIsValid, EventIsUsable
  <2>2. DOMAIN s = DOMAIN batch /\ \A k \in DOMAIN batch : s[k].who = batch[k].who
    BY WireIsASequence
  <2> HIDE DEF s
  <2> QED
    BY <2>1, <2>2 DEF Range
<1>4. \A j \in DOMAIN part : part[j] \in Range(s)
  <2> HIDE DEF part, s
  <2> QED
    BY <1>2, LenProperties, ElementOfSeq
<1> QED
  BY <1>3, <1>4

(* Every call posts only such requests.                                    *)
LEMMA StepsNameSomebody ==
    ASSUME SizesInv, RequestsNameSomebody, [Next]_vars
    PROVE  RequestsNameSomebody'
<1>1. CASE UNCHANGED vars
  BY <1>1 DEF vars, RequestsNameSomebody
<1>2. CASE SaysNothing
  BY <1>2 DEF SaysNothing, RequestsNameSomebody
<1>3. CASE PostsOne
  <2>1. PICK r : sent' = <<r>> /\ \A j \in DOMAIN r.items : Resolves(r, r.items[j].who)
    BY <1>3 DEF PostsOne
  <2>2. \A i \in DOMAIN sent' : sent'[i] = r
    BY <2>1
  <2> QED
    BY <2>1, <2>2 DEF RequestsNameSomebody
<1>4. CASE TrackBatch /\ ~SaysNothing
  <2> DEFINE size == cfg.max_request_events
  <2>1. PICK batch, order, replies : Posts(batch, order, replies)
    BY <1>4, BatchSends
  <2> DEFINE n == Len(replies)
  <2>2. /\ batch \in Batches /\ BatchIsValid(batch) /\ size \in Nat \ {0}
        /\ n \in 1..ChunkCount(Wire(batch), size) /\ order \in Bijection(1..n, 1..n)
        /\ sent' = [k \in 1..n |-> ChunkRequest(Chunk(Wire(batch), size)[order[k]])]
    BY <2>1 DEF Posts
  <2>3. ChunkCount(Wire(batch), size) \in Nat
    BY <2>2, WireIsASequence, ChunkBounds
  <2>4. ASSUME NEW k \in DOMAIN sent'
        PROVE  \A j \in DOMAIN sent'[k].items : Resolves(sent'[k], sent'[k].items[j].who)
    <3> DEFINE part == Chunk(Wire(batch), size)[order[k]]
    <3>1. order[k] \in 1..ChunkCount(Wire(batch), size)
      <4>1. k \in 1..n /\ order \in Bijection(1..n, 1..n)
        BY <2>2
      <4>2. n \in 1..ChunkCount(Wire(batch), size)
        BY <2>2
      <4> HIDE DEF n
      <4>3. order \in [1..n -> 1..n]
        BY <4>1, OrdersArrange
      <4>4. order[k] \in 1..n
        BY <4>1, <4>3
      <4> QED
        BY <2>3, <4>2, <4>4
    <3>2. sent'[k] = Request(TrackPath(cfg.source_id), None, part)
      BY <2>2 DEF ChunkRequest
    <3>3. \A j \in DOMAIN part : HasIdentifier(part[j].who)
      BY <2>2, <3>1, ChunksNameSomebody
    <3> HIDE DEF size, part
    <3> QED
      BY <3>2, <3>3, EventsNameSomebody
  <2> QED
    BY <2>4 DEF RequestsNameSomebody
<1> QED
  BY <1>1, <1>2, <1>3, <1>4, OneOrNothing

(* Whichever method posted it, every item on the wire names somebody its   *)
(* endpoint can resolve.                                                   *)
THEOREM EveryRequestNamesSomebody == Spec => []RequestsNameSomebody
<1>1. Init => RequestsNameSomebody
  BY DEF Init, Rests, RequestsNameSomebody
<1> QED
  BY <1>1, ConstructedUsable, StepsKeepUsable, ConstructedSizes, StepsKeepSizes,
     StepsNameSomebody, PTL DEF Spec

-----------------------------------------------------------------------------
(* track_batch                                                             *)

(* Nothing else is recorded as a batch.                                    *)
LEMMA OtherBatches ==
    ASSUME Next, ~TrackBatch
    PROVE  call'.op # "track_batch"
<1>1. CASE Return
  BY <1>1 DEF Return, Idle
<1>2. CASE SetConfig \/ OptIn \/ OptOut \/ Close \/ WaitForInitialization
  BY <1>2, NameOfCall DEF SetConfig, OptIn, OptOut, Close, WaitForInitialization
<1>3. CASE Track
  BY <1>3, NameOfCall DEF Track
<1>4. CASE Identify \/ Group
  BY <1>4, NameOfCall DEF Identify, Group
<1>5. CASE Commerce
  <2>1. PICK op, given :
          op \in {"product_viewed", "added_to_cart", "ordered"} /\ Makes(op, given)
    BY <1>5 DEF Commerce
  <2> QED
    BY <2>1, NameOfCall
<1>6. CASE RecordConsent
  BY <1>6, NameOfCall DEF RecordConsent
<1>7. CASE Recommend
  BY <1>7, NameOfCall DEF Recommend
<1>8. CASE Vary
  BY <1>8, NameOfCall DEF Vary
<1>9. CASE ReadAll
  BY <1>9, NameOfCall DEF ReadAll
<1> QED
  BY <1>1, <1>2, <1>3, <1>4, <1>5, <1>6, <1>7, <1>8, <1>9 DEF Next, Calls

(* A chunk is a run of the batch, and says where in it its events are.     *)
LEMMA ChunkPlaces ==
    ASSUME NEW batch \in Batches, NEW size \in Nat \ {0},
           NEW i \in 1..ChunkCount(Wire(batch), size)
    PROVE  LET s == Wire(batch)
               part == Chunk(s, size)[i]
               m == (i - 1) * size
           IN  /\ Len(part) \in 1..size /\ IsRunOf(part, s)
               /\ part[1].id = m + 1
               /\ {part[j].id : j \in DOMAIN part} = (m + 1)..ChunkEnd(s, size, i)
<1> DEFINE s == Wire(batch)
           m == (i - 1) * size
           e == ChunkEnd(s, size, i)
           part == Chunk(s, size)[i]
<1>1. s \in Seq(Range(s)) /\ Len(s) \in Nat /\ DOMAIN s = 1..Len(s)
  BY WireIsASequence, LenProperties
<1>2. \A k \in DOMAIN s : s[k].id = k
  BY WireIsASequence
<1>3. m \in Nat /\ e \in Nat /\ m < e /\ e <= Len(s)
  BY <1>1, ChunkBounds
<1>4. part = SubSeq(s, m + 1, e) /\ Len(part) \in 1..size
  BY <1>1, ChunksAreSlices
<1> HIDE DEF s, m, e, part
<1>5. /\ Len(part) = e - m /\ DOMAIN part = 1..(e - m)
      /\ \A j \in 1..(e - m) : part[j] = s[m + j]
  <2>1. m + 1 \in 1..(Len(s) + 1) /\ e \in m..Len(s)
    BY <1>1, <1>3
  <2>2. part \in Seq(Range(s)) /\ Len(part) = e - m
    BY <1>1, <1>3, <1>4, <2>1, SubSeqProperties
  <2>3. DOMAIN part = 1..(e - m)
    BY <2>2, LenProperties
  <2>4. \A j \in 1..(e - m) : part[j] = s[m + j]
    BY <1>1, <1>3, <1>4
  <2> QED
    BY <2>2, <2>3, <2>4
<1>6. \A j \in 1..(e - m) : m + j \in DOMAIN s /\ part[j].id = m + j
  BY <1>1, <1>2, <1>3, <1>5
<1>7. {part[j].id : j \in DOMAIN part} = (m + 1)..e
  <2>1. ASSUME NEW p \in (m + 1)..e
        PROVE  \E j \in DOMAIN part : part[j].id = p
    <3>1. p - m \in 1..(e - m) /\ m + (p - m) = p
      BY <1>3
    <3> QED
      BY <1>5, <1>6, <3>1
  <2>2. \A j \in DOMAIN part : part[j].id \in (m + 1)..e
    BY <1>3, <1>5, <1>6
  <2> QED
    BY <2>1, <2>2
<1>8. part[1].id = m + 1
  BY <1>3, <1>6
<1>9. IsRunOf(part, s)
  <2>1. m + 1 \in DOMAIN s /\ (m + 1) + Len(part) - 1 = e
    BY <1>1, <1>3, <1>5
  <2> QED
    BY <1>4, <2>1 DEF IsRunOf
<1> QED
  BY <1>4, <1>7, <1>8, <1>9 DEF s, m, e, part

(* Of two chunks the earlier one ends where, or before, the later begins.  *)
LEMMA ChunksAreApart ==
    ASSUME NEW batch \in Batches, NEW size \in Nat \ {0},
           NEW i \in 1..ChunkCount(Wire(batch), size), NEW l \in 1..ChunkCount(Wire(batch), size),
           i < l
    PROVE  ChunkEnd(Wire(batch), size, i) <= (l - 1) * size
<1> DEFINE s == Wire(batch)
<1>1. s \in Seq(Range(s))
  BY WireIsASequence
<1>2. /\ ChunkEnd(s, size, i) \in Nat /\ (i - 1) * size \in Nat /\ (l - 1) * size \in Nat
      /\ ChunkEnd(s, size, i) <= (i - 1) * size + size
      /\ ChunkCount(s, size) \in Nat
  BY <1>1, ChunkBounds
<1> HIDE DEF s
<1>3. i \in Nat /\ l \in Nat /\ i <= l - 1
  BY <1>2 DEF s
<1>4. (i - 1) * size + size = i * size /\ i * size \in Int
  BY <1>3, Multiples
<1>5. i * size <= (l - 1) * size
  BY <1>3, Monotone
<1> QED
  BY <1>2, <1>4, <1>5 DEF s

(* Every event is in a chunk.                                              *)
LEMMA ChunksCover ==
    ASSUME NEW batch \in Batches, NEW size \in Nat \ {0}, NEW p \in DOMAIN batch
    PROVE  \E i \in 1..ChunkCount(Wire(batch), size) :
               p \in ((i - 1) * size + 1)..ChunkEnd(Wire(batch), size, i)
<1> DEFINE s == Wire(batch)
           c == ChunkCount(s, size)
           q == (p - 1) \div size
<1>1. s \in Seq(Range(s)) /\ Len(s) \in Nat /\ p \in 1..Len(s)
  BY WireIsASequence, LenProperties
<1>2. c \in Nat /\ s # <<>> /\ c # 0
  BY <1>1, ChunkBounds
<1>3. p - 1 \in Nat
  BY <1>1
<1>4. q \in Nat /\ q * size <= p - 1 /\ p - 1 < q * size + size
  BY <1>3, Division
<1>5. ChunkEnd(s, size, c) = Len(s)
  BY <1>1, <1>2, ChunkBounds
<1> HIDE DEF q
<1>6. (q + 1) * size = q * size + size /\ q * size \in Nat
  BY <1>4, Multiples, Products
<1>7. Len(s) <= c * size /\ c * size \in Nat
  <2>1. c * size \in Nat
    BY <1>2, Products
  <2> HIDE DEF c, s
  <2> QED
    BY <1>1, <1>5, <2>1 DEF ChunkEnd
<1> HIDE DEF c, s
<1>8. q < c
  <2>1. CASE c <= q
    <3>1. c * size <= q * size
      BY <1>2, <1>4, <2>1, Monotone
    <3> QED
      BY <1>1, <1>3, <1>4, <1>6, <1>7, <3>1
  <2> QED
    BY <1>2, <1>4, <2>1
<1> DEFINE i == q + 1
<1>9. i \in 1..c /\ (i - 1) * size = q * size /\ i * size = q * size + size
  <2>1. i \in 1..c /\ i - 1 = q
    BY <1>2, <1>4, <1>8
  <2> QED
    BY <1>6, <2>1
<1> HIDE DEF i
<1>10. p <= ChunkEnd(s, size, i) /\ ChunkEnd(s, size, i) \in Nat
  BY <1>1, <1>4, <1>6, <1>9 DEF ChunkEnd
<1>11. p \in ((i - 1) * size + 1)..ChunkEnd(s, size, i)
  BY <1>1, <1>3, <1>4, <1>6, <1>9, <1>10
<1> QED
  BY <1>9, <1>11 DEF s, c

(* What track_batch leaves when it sends nothing: a refusal, an exception  *)
(* of a size that is no number, or the return of an empty batch or from a  *)
(* client that is opted out.                                               *)
LEMMA SilentBatch ==
    ASSUME SizesInv, TrackBatch, SaysNothing
    PROVE  BatchIsWhole'
<1>1. PICK batch \in Batches :
        /\ Makes("track_batch", batch)
        /\ \/ batch = <<>> /\ ReturnsAtOnce
           \/ /\ batch # <<>> /\ ~(BatchIsValid(batch) /\ IsOptedIn)
              /\ NothingToSend(BatchIsValid(batch))
           \/ batch # <<>> /\ BatchIsValid(batch) /\ IsOptedIn /\ SendsChunks(Wire(batch))
  BY DEF TrackBatch
<1>2. UNCHANGED <<optedIn, closed>>
  BY DEF TrackBatch, client
<1>3. sent' = <<>> /\ answers' = <<>> /\ call'.given = batch
  BY <1>1 DEF SaysNothing, Makes
<1>4. ASSUME SendsChunks(Wire(batch)), batch # <<>> PROVE outcome'.kind # "returned"
  <2> DEFINE s == Wire(batch)
             size == cfg.max_request_events
             chunks == Chunk(s, size)
  <2>1. CASE Refuses \/ Crashes
    BY <2>1 DEF Refuses, Crashes, Sends, Refused, Ends
  <2>2. CASE SendsInTurn(chunks)
    <3>1. PICK n, replies :
            n \in 1..Len(chunks) /\ replies \in [1..n -> Answers] /\ answers' = replies
      BY <2>2 DEF SendsInTurn, Sends
    <3>2. 1 \in DOMAIN replies
      BY <3>1
    <3> QED
      BY <1>3, <3>1, <3>2
  <2>3. CASE size # Junk /\ ChunkIsDefined(size) /\ SendsByPool(chunks)
    <3>1. size \in Nat \ {0}
      BY <2>3 DEF SizesInv, ChunkIsDefined
    <3>2. s \in Seq(Range(s)) /\ s # <<>>
      BY <1>4, WireIsASequence
    <3>3. Len(chunks) \in Nat \ {0}
      <4>1. ChunkCount(s, size) \in Nat /\ ChunkCount(s, size) # 0
        BY <3>1, <3>2, ChunkBounds
      <4>2. Len(chunks) = ChunkCount(s, size)
        BY <3>1, <3>2, ChunksAreSlices
      <4> QED
        BY <4>1, <4>2
    <3> HIDE DEF chunks
    <3>4. PICK order \in PostingOrders(Len(chunks)) : DOMAIN answers' = DOMAIN order
      BY <2>3 DEF SendsByPool, Sends
    <3>5. order \in Bijection(1..Len(chunks), 1..Len(chunks))
      BY DEF PostingOrders
    <3>6. 1 \in DOMAIN answers'
      BY <3>3, <3>4, <3>5, OrdersArrange
    <3> QED
      BY <1>3, <3>6
  <2> QED
    BY <1>4, <2>1, <2>2, <2>3 DEF SendsChunks
<1>5. outcome'.kind = "returned" /\ optedIn' => batch = <<>>
  <2>1. CASE batch # <<>> /\ NothingToSend(BatchIsValid(batch)) /\ ~(BatchIsValid(batch) /\ IsOptedIn)
    BY <1>2, <2>1 DEF NothingToSend, IsOptedIn, Refuses, Sends, Refused, Ends
  <2> QED
    BY <1>1, <1>4, <2>1
<1>6. outcome'.kind # "api"
  BY DEF SaysNothing, Returned, Refused, Ends
<1>7. outcome'.kind = "returned" /\ optedIn' => AllPosted'
  <2>1. DOMAIN <<>> = {} /\ DOMAIN sent' = {}
    BY <1>3
  <2> QED
    BY <1>3, <1>5, <2>1 DEF AllPosted
<1>8. \A k \in DOMAIN sent' : FALSE
  BY <1>3
<1>9. \A k \in DOMAIN answers' : FALSE
  BY <1>3
<1> QED
  BY <1>3, <1>6, <1>7, <1>8, <1>9 DEF BatchIsWhole

(* What track_batch leaves when it sends: chunks of its batch, in the order*)
(* of the batch up to the last answer, or all of them in another.          *)
LEMMA SentBatch ==
    ASSUME SizesInv, TrackBatch, ~SaysNothing
    PROVE  BatchIsWhole'
<1>1. PICK batch, order, replies : Posts(batch, order, replies)
  BY BatchSends
<1> DEFINE size == cfg.max_request_events
           parallel == cfg.max_concurrent_requests > 1
           s == Wire(batch)
           n == Len(replies)
           c == ChunkCount(s, size)
           chunks == Chunk(s, size)
<1>2. /\ batch \in Batches /\ batch # <<>> /\ BatchIsValid(batch) /\ call'.given = batch
      /\ size \in Nat \ {0} /\ cfg.max_concurrent_requests \in Int
      /\ replies \in Seq(Answers) /\ n \in 1..c /\ order \in Bijection(1..n, 1..n)
      /\ parallel => n = c
      /\ ~parallel => order = [k \in 1..n |-> k] /\ (n < c => Fails(replies[n]))
      /\ sent' = [k \in 1..n |-> ChunkRequest(chunks[order[k]])]
      /\ answers' = [k \in 1..n |-> replies[order[k]]]
      /\ outcome' = FirstFailure(replies)
  BY <1>1 DEF Posts
<1>3. cfg' = cfg
  BY DEF TrackBatch, client
<1>4. s \in Seq(Range(s)) /\ s # <<>> /\ Len(s) \in Nat /\ DOMAIN s = DOMAIN batch
  BY <1>2, WireIsASequence, LenProperties
<1>5. c \in Nat
  BY <1>2, <1>4, ChunkBounds
<1>6. n \in Nat \ {0} /\ DOMAIN replies = 1..n /\ \A i \in 1..n : i \in 1..c
  BY <1>2, <1>5, LenProperties
<1>7. /\ \A k \in 1..n : order[k] \in 1..n
      /\ \A k, l \in 1..n : k # l => order[k] # order[l]
      /\ \A i \in 1..n : \E k \in 1..n : order[k] = i
  <2>1. order \in Bijection(1..n, 1..n)
    BY <1>2
  <2> HIDE DEF n
  <2>2. order \in [1..n -> 1..n]
    BY <2>1, OrdersArrange
  <2>3. \A k, l \in 1..n : k # l => order[k] # order[l]
    BY <2>1, OrdersArrange
  <2>4. \A i \in 1..n : \E k \in 1..n : order[k] = i
    BY <2>1, OrdersArrange
  <2> QED
    BY <2>2, <2>3, <2>4
<1>8. DOMAIN sent' = 1..n /\ DOMAIN answers' = 1..n /\ sent' # <<>>
  <2>1. DOMAIN sent' = 1..n /\ DOMAIN answers' = 1..n
    BY <1>2
  <2>2. 1 \in DOMAIN sent'
    BY <1>6, <2>1
  <2> QED
    BY <2>1, <2>2
<1>9. \A k \in 1..n : sent'[k].items = chunks[order[k]] /\ answers'[k] = replies[order[k]]
  BY <1>2 DEF ChunkRequest, Request
<1>10. ASSUME NEW i \in 1..n
       PROVE  /\ Len(chunks[i]) \in 1..size /\ IsRunOf(chunks[i], s)
              /\ chunks[i][1].id = (i - 1) * size + 1
              /\ {chunks[i][j].id : j \in DOMAIN chunks[i]}
                     = ((i - 1) * size + 1)..ChunkEnd(s, size, i)
  <2>1. i \in 1..ChunkCount(Wire(batch), size) /\ batch \in Batches
    BY <1>2, <1>6
  <2>2. size \in Nat \ {0}
    BY <1>2
  <2> HIDE DEF size
  <2> QED
    BY <2>1, <2>2, ChunkPlaces
<1> HIDE DEF chunks, s
<1>11. ASSUME NEW k \in 1..n
       PROVE  Places(sent'[k]) = ((order[k] - 1) * size + 1)..ChunkEnd(s, size, order[k])
  <2> DEFINE part == chunks[order[k]]
  <2>1. order[k] \in 1..n
    BY <1>7
  <2>2. sent'[k].items = part
    BY <1>9
  <2>3. {part[j].id : j \in DOMAIN part}
            = ((order[k] - 1) * size + 1)..ChunkEnd(s, size, order[k])
    BY <1>10, <2>1
  <2> HIDE DEF part
  <2> QED
    BY <2>2, <2>3 DEF Places
<1> HIDE DEF n, c
<1>12. ASSUME NEW k \in 1..n, NEW l \in 1..n, order[k] < order[l]
       PROVE  Places(sent'[k]) \cap Places(sent'[l]) = {}
  <2> DEFINE e == ChunkEnd(s, size, order[k])
             m == (order[l] - 1) * size
  <2>1. order[k] \in 1..c /\ order[l] \in 1..c
    BY <1>6, <1>7
  <2>2. e <= m
    BY <1>2, <1>12, <2>1, ChunksAreApart DEF s, c
  <2>3. e \in Nat /\ m \in Nat /\ (order[k] - 1) * size \in Nat /\ ChunkEnd(s, size, order[l]) \in Nat
    BY <1>2, <1>4, <2>1, ChunkBounds DEF c
  <2>4. Places(sent'[k]) = ((order[k] - 1) * size + 1)..e
        /\ Places(sent'[l]) = (m + 1)..ChunkEnd(s, size, order[l])
    BY <1>11
  <2> HIDE DEF e, m
  <2> QED
    BY <2>2, <2>3, <2>4
<1>13. \A k, l \in 1..n : k # l => Places(sent'[k]) \cap Places(sent'[l]) = {}
  <2>1. SUFFICES ASSUME NEW k \in 1..n, NEW l \in 1..n, k # l
                 PROVE  Places(sent'[k]) \cap Places(sent'[l]) = {}
    OBVIOUS
  <2>2. order[k] < order[l] \/ order[l] < order[k]
    <3>1. order[k] # order[l]
      BY <1>7, <2>1
    <3>2. order[k] \in 1..n /\ order[l] \in 1..n
      BY <1>7
    <3> QED
      BY <3>1, <3>2
  <2> QED
    BY <1>12, <2>2
<1>14. n = c => AllPosted'
  <2>1. SUFFICES ASSUME n = c PROVE AllPosted'
    OBVIOUS
  <2>2. ASSUME NEW p \in DOMAIN batch PROVE \E k \in 1..n : p \in Places(sent'[k])
    <3>1. PICK i \in 1..n : p \in ((i - 1) * size + 1)..ChunkEnd(s, size, i)
      BY <1>2, <2>1, ChunksCover DEF s, c
    <3>2. PICK k \in 1..n : order[k] = i
      BY <1>7
    <3> QED
      BY <1>11, <3>1, <3>2
  <2>3. ASSUME NEW k \in 1..n PROVE Places(sent'[k]) \subseteq DOMAIN batch
    <3> DEFINE m == (order[k] - 1) * size
               e == ChunkEnd(s, size, order[k])
    <3>1. order[k] \in 1..c
      BY <1>6, <1>7
    <3>2. m \in Nat /\ e \in Nat /\ e <= Len(s)
      BY <1>2, <1>4, <3>1, ChunkBounds DEF c
    <3>3. Places(sent'[k]) = (m + 1)..e
      BY <1>11
    <3>4. Len(s) \in Nat /\ DOMAIN batch = 1..Len(s)
      BY <1>4, LenProperties
    <3> HIDE DEF m, e
    <3>5. (m + 1)..e \subseteq 1..Len(s)
      BY <3>2, <3>4
    <3> QED
      BY <3>3, <3>4, <3>5
  <2>4. UNION {Places(sent'[k]) : k \in 1..n} = DOMAIN batch
    BY <2>2, <2>3
  <2>5. DOMAIN sent' = 1..n /\ call'.given = batch
    BY <1>2, <1>8
  <2> QED
    BY <2>4, <2>5 DEF AllPosted
<1>15. outcome'.kind = "returned" =>
          AllPosted' /\ \A k \in 1..n : answers'[k].status \in 200..299
  <2>1. SUFFICES ASSUME outcome'.kind = "returned"
                 PROVE  AllPosted' /\ \A k \in 1..n : answers'[k].status \in 200..299
    OBVIOUS
  <2>2. \A i \in 1..n : replies[i].status \in 200..299 /\ ~Fails(replies[i])
    BY <1>2, <1>6, <2>1, FirstFailureIsFirst DEF Fails
  <2>3. n = c
    BY <1>2, <1>5, <1>6, <2>2 DEF n, c
  <2> QED
    BY <1>7, <1>9, <1>14, <2>2, <2>3
<1>16. outcome'.kind # "returned" => RaisesNearest'
  <2>1. SUFFICES ASSUME outcome'.kind # "returned" PROVE RaisesNearest'
    OBVIOUS
  <2>2. PICK i \in 1..n :
          /\ outcome' = Posted(replies[i]) /\ Fails(replies[i])
          /\ \A l \in 1..n : Fails(replies[l]) => i <= l
    <3>1. replies \in Seq(Answers) /\ DOMAIN replies = 1..n /\ outcome' = FirstFailure(replies)
      BY <1>2, <1>6
    <3>2. outcome' # Returned
      BY <2>1 DEF Returned, Ends
    <3> QED
      BY <3>1, <3>2, FirstFailureIsFirst
  <2>3. PICK k \in 1..n : order[k] = i
    BY <1>7
  <2>4. ASSUME NEW l \in 1..n, Fails(answers'[l])
        PROVE  sent'[k].items[1].id <= sent'[l].items[1].id
    <3>1. i <= order[l] /\ order[l] \in 1..n
      <4>1. order[l] \in 1..n
        BY <1>7
      <4>2. Fails(replies[order[l]])
        BY <1>9, <2>4
      <4> QED
        BY <2>2, <4>1, <4>2
    <3>2. (i - 1) * size <= (order[l] - 1) * size
      <4>1. i - 1 \in Int /\ order[l] - 1 \in Int /\ i - 1 <= order[l] - 1
        BY <1>6, <3>1
      <4>2. size \in Nat
        BY <1>2
      <4> QED
        BY <4>1, <4>2, Monotone
    <3>3. (i - 1) * size \in Nat /\ (order[l] - 1) * size \in Nat
      BY <1>2, <1>4, <1>6, <3>1, ChunkBounds DEF c
    <3>4. sent'[k].items[1].id = (i - 1) * size + 1 /\ sent'[l].items[1].id = (order[l] - 1) * size + 1
      BY <1>9, <1>10, <2>3, <3>1
    <3> QED
      BY <3>2, <3>3, <3>4
  <2>5. Failed' = {l \in 1..n : Fails(answers'[l])}
    BY <1>8 DEF Failed
  <2>6. k \in Failed' /\ outcome' = Posted(answers'[k])
    BY <1>9, <2>2, <2>3, <2>5
  <2> QED
    BY <2>4, <2>5, <2>6 DEF RaisesNearest
<1>17. ~parallel => IsPrefix(FlattenSeq([k \in DOMAIN sent' |-> sent'[k].items]), s)
  <2>1. SUFFICES ASSUME ~parallel
                 PROVE  IsPrefix(FlattenSeq([k \in DOMAIN sent' |-> sent'[k].items]), s)
    OBVIOUS
  <2> DEFINE e == ChunkEnd(s, size, n)
             wire == FlattenSeq([k \in DOMAIN sent' |-> sent'[k].items])
  <2>2. [k \in DOMAIN sent' |-> sent'[k].items] = [k \in 1..n |-> chunks[k]]
    BY <1>2, <1>8, <1>9, <2>1 DEF n, c
  <2>3. wire = SubSeq(s, 1, e)
    BY <1>2, <1>4, <2>2, FlattenChunks DEF n, c, chunks
  <2>4. e \in Nat /\ e <= Len(s)
    BY <1>2, <1>4, ChunkBounds DEF n, c
  <2> HIDE DEF e, wire
  <2>5. wire \in Seq(Range(s)) /\ Len(wire) = e
    BY <1>4, <2>3, <2>4
  <2>6. SubSeq(wire, 1, Len(wire)) = wire
    BY <2>5, SubSeqFull
  <2>7. IsPrefix(wire, s)
    BY <2>3, <2>4, <2>5, <2>6 DEF IsPrefix
  <2> QED
    BY <2>7 DEF wire
<1>18. outcome'.kind # "refused"
  BY <1>2, FirstFailureIsResult
<1>19. \A k \in 1..n : Len(sent'[k].items) \in 1..size /\ IsRunOf(sent'[k].items, s)
  <2> SUFFICES ASSUME NEW k \in 1..n
               PROVE  Len(sent'[k].items) \in 1..size /\ IsRunOf(sent'[k].items, s)
    OBVIOUS
  <2>1. Len(chunks[order[k]]) \in 1..size /\ IsRunOf(chunks[order[k]], s)
    BY <1>7, <1>10
  <2>2. sent'[k].items = chunks[order[k]]
    BY <1>9
  <2> QED
    BY <2>1, <2>2
<1>20. BatchIsValid(call'.given) /\ (parallel => AllPosted')
  BY <1>2, <1>14 DEF n, c
<1>21. Wire(call'.given) = s /\ cfg'.max_request_events = size
       /\ (cfg'.max_concurrent_requests > 1 <=> parallel)
  BY <1>2, <1>3 DEF s
<1> HIDE DEF size, parallel
<1> QED
  BY <1>8, <1>13, <1>15, <1>16, <1>17, <1>18, <1>19, <1>20, <1>21 DEF BatchIsWhole

(* track_batch sends each event of a valid batch once, in runs of the batch*)
(* of the configured size: all of them if it returns or its workers post   *)
(* them, a prefix if the chunks are sent in turn; and what it raises is    *)
(* what befell the failed run that is nearest to the start.                *)
THEOREM BatchesAreWhole == Spec => []BatchIsWhole
<1>1. Init => BatchIsWhole
  BY DEF Init, Rests, Idle, BatchIsWhole
<1>2. ASSUME SizesInv, BatchIsWhole, [Next]_vars PROVE BatchIsWhole'
  <2>1. CASE UNCHANGED vars
    <3>1. UNCHANGED <<cfg, optedIn, call, sent, answers, outcome>>
      BY <2>1 DEF vars, client
    <3>2. [k \in DOMAIN sent' |-> sent'[k].items] = [k \in DOMAIN sent |-> sent[k].items]
      BY <3>1
    <3>3. (AllPosted' <=> AllPosted) /\ (RaisesNearest' <=> RaisesNearest)
      BY <3>1 DEF AllPosted, RaisesNearest, Failed
    <3> QED
      BY <1>2, <3>1, <3>2, <3>3 DEF BatchIsWhole
  <2>2. CASE Next /\ ~TrackBatch
    BY <2>2, OtherBatches DEF BatchIsWhole
  <2> QED
    BY <1>2, <2>1, <2>2, SilentBatch, SentBatch
<1> QED
  BY <1>1, <1>2, ConstructedUsable, StepsKeepUsable, ConstructedSizes, StepsKeepSizes, PTL DEF Spec
=============================================================================
