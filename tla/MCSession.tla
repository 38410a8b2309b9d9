------------------------------ MODULE MCSession -----------------------------
(* Values for the constants of Session that a .cfg cannot write.           *)
EXTENDS SessionProperties

CONSTANTS MaxNamed, MaxBatch, MaxChoices  \* bounds

-----------------------------------------------------------------------------
(* Options and patches                                                     *)

Std      == "api.intempt.com"
Bare     == [name |-> Std, port |-> None]
WithPort == [name |-> "proxy", port |-> 8080]
Hosts    == {None, Bare, WithPort, [name |-> Junk, port |-> None], [name |-> "proxy", port |-> 0]}

Everything == {"org", "project", "api_key"}

OptionsOf(usable, sources, hosts, schemes, timeouts, limits, batches, logger) ==
    [usable : usable, source_id : sources, host : hosts, scheme : schemes, timeout : timeouts,
     max_request_events : limits, max_concurrent_requests : {None, 2}, batch : batches,
     logger : logger]

Options_ ==
    OptionsOf({Everything}, {None, "s"}, {None, WithPort}, {None}, {None}, {None}, {None}, {None})
    \cup OptionsOf({Everything, {"org"}}, {None, Junk}, {None, [name |-> Junk, port |-> None]},
                   {None, "ftp"}, {None, 0}, {None, 0},
                   {None, Junk, [size |-> 2, flushMs |-> 1, maxQueue |-> 1]}, {None, Junk})

AllPatches ==
    [host : Hosts, scheme : {None, "http", "ftp"}, timeout : {None, 1, 0},
     max_request_events : {None, 0, 1, Junk}, max_concurrent_requests : {None, 2, Junk},
     logger : {None, "mine", Junk}, others : {{}, {"port"}, {"api_key"}}]

Named(p) == {f \in DOMAIN p \ {"others"} : p[f] # None}

Patches_ == {p \in AllPatches : Cardinality(Named(p)) + Cardinality(p.others) <= MaxNamed}

-----------------------------------------------------------------------------
(* Arguments                                                               *)

People_ == [user : {"absent", "blank", "id"}, account : {"absent", "id"},
            profile : {"absent", "blank", "id"}]

Somebody == [user |-> "id", account |-> "absent", profile |-> "absent"]
Nobody   == [user |-> "absent", account |-> "absent", profile |-> "absent"]

OnlyProfile == [user |-> "blank", account |-> "absent", profile |-> "id"]

Names == {"name", "reserved", "blank", "absent"}

Happenings_ ==
    [event : Names, who : People_, timely : {TRUE}]
    \cup [event : Names, who : {Somebody}, timely : {FALSE}]

Contexts_ == {Somebody, OnlyProfile, Nobody}

BatchItems == {[event |-> "name", who |-> Somebody, timely |-> TRUE],
               [event |-> "reserved", who |-> Somebody, timely |-> TRUE],
               [event |-> "name", who |-> Nobody, timely |-> TRUE]}

Batches_ == UNION {[1..n -> BatchItems] : n \in 0..MaxBatch}

Products == [id : {"id", "blank"}, quantity : Quantities]

OneOf(quantity) == [id |-> "id", quantity |-> quantity]

Orders_ ==
    {<<>>} \cup {<<p>> : p \in Products}
    \cup {<<OneOf("positive"), OneOf("absent")>>, <<OneOf("absent"), OneOf("other")>>}

-----------------------------------------------------------------------------
(* Answers                                                                 *)

NoHeader == [form |-> "neither", n |-> 0]
Huge     == [form |-> "seconds", n |-> MaxSeconds + 1]

Empty == [form |-> "empty", choices |-> <<>>]

Answers_ ==
    {[status |-> 0, header |-> NoHeader, body |-> Empty],
     [status |-> 200, header |-> NoHeader, body |-> Empty],
     [status |-> 200, header |-> Huge, body |-> Empty]}
    \cup [status : {429}, header : {[form |-> "seconds", n |-> -1]}, body : {Empty}]

ErrorAnswers == {[status |-> 429, header |-> Huge, body |-> Empty]}

SomeChoices ==
    [name : {"k1"}, body : Bodies] \cup [name : {"k2"}, body : {"null", "text"}]
    \cup [name : {"", "no mapping", "unhashable"}, body : {"text"}]

ChoiceLists == UNION {[1..n -> SomeChoices] : n \in 0..MaxChoices}

Evaluations_ ==
    Answers_ \cup {[status |-> 503, header |-> [form |-> "date", n |-> -5], body |-> Empty]}
    \cup [status : {200}, header : {NoHeader},
          body : [form : {"text", "other"}, choices : {<<>>}]
                 \cup [form : {"choices"}, choices : ChoiceLists]]
=============================================================================
