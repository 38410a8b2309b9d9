------------------------------- MODULE Flags --------------------------------
(***************************************************************************)
(* Flag reads: from the answer of the evaluation endpoint to the value the *)
(* caller receives.  The JSON of a body is one of Bodies; "huge" is an     *)
(* integer no float can hold.  A choice that is no mapping is named        *)
(* "no mapping", one whose name is a list or a mapping "unhashable".       *)
(***************************************************************************)
EXTENDS Requests

CONSTANTS
    Keys,       \* keys of the charset the service accepts
    Default     \* what the caller passes as default_value

Bodies == {"null", "bool", "text", "number", "huge", "mapping"}

\* What the names of choices say besides a key.
NoNames == {"", "no mapping", "unhashable"}

Choice == [name : STRING, body : Bodies]

ASSUME FlagsAssumption ==
    /\ Keys \cap NoNames = {}
    /\ Default \notin Bodies

\* The forms of variation and the bodies each lets through.
Forms == {"variation", "bool", "string", "number", "json"}

\* Mutant: a bool is an int.
NumbersAndBools == {"bool", "number", "huge"}

Numbers == {"number", "huge"}

TypesOf(form) ==
    CASE form = "variation" -> Bodies
      [] form = "bool"      -> {"bool"}
      [] form = "string"    -> {"text"}
      [] form = "number"    -> Numbers
      [] form = "json"      -> {"mapping"}

\* FlagContext.has_identity
HasIdentity(who, source) == NotBlank(who.user) \/ (NotBlank(who.profile) /\ source # None)

-----------------------------------------------------------------------------
(* _choose_or_empty                                                        *)

\* Mutant: absorbs only what post is meant to raise.
AbsorbsApiErrors(kind) == kind = "api"

Absorbs(kind) == kind \in {"api", "crash"}

\* Nothing for a failure, and for a body without a list of choices.
ChoicesOf(a) ==
    LET posted == Posted(a) IN
    IF posted.kind = "returned" /\ posted.value.form = "choices"
    THEN posted.value.choices
    ELSE <<>>

-----------------------------------------------------------------------------
(* variation: the first choice of that name                                *)

\* The loop returns at the first choice of that name.
Reached(choices, key) ==
    {i \in DOMAIN choices : \A j \in 1..(i - 1) : choices[j].name # key}

Match(choices, key) == {i \in Reached(choices, key) : choices[i].name = key}

VariationRaises(choices, key) ==
    \E i \in Reached(choices, key) : choices[i].name = "no mapping"

Variation(choices, key) ==
    IF \E i \in Match(choices, key) : choices[i].body # "null"
    THEN choices[CHOOSE i \in Match(choices, key) : TRUE].body
    ELSE Default

\* bool_variation and its kind
Typed(form, value) == IF value \in TypesOf(form) THEN value ELSE Default

FloatRaises(form, value) == form = "number" /\ value = "huge"

\* What a read makes of the answer: `raises' and `value' are of its choices.
ReadEnds(a, raises, value) ==
    LET escapes == Fails(a) /\ ~Absorbs(Posted(a).kind) IN
    CASE escapes            -> Posted(a)
      [] ~escapes /\ raises -> Ends("crash", None, None)
      [] OTHER              -> Ends("returned", value, None)

VariationEnds(form, key, a) ==
    LET value == Variation(ChoicesOf(a), key)
    IN ReadEnds(a, VariationRaises(ChoicesOf(a), key) \/ FloatRaises(form, value),
                Typed(form, value))

-----------------------------------------------------------------------------
(* all_flags: every choice with a name and a body, the last one of a name  *)

\* Mutant: a null body is kept.
EveryNamed(choices) == {i \in DOMAIN choices : choices[i].name # ""}

Kept(choices) == {i \in DOMAIN choices : choices[i].name # "" /\ choices[i].body # "null"}

AllFlagsRaises(choices) ==
    \/ \E i \in DOMAIN choices : choices[i].name = "no mapping"
    \/ \E i \in Kept(choices) : choices[i].name = "unhashable"

AllFlags(choices) ==
    LET last(name) == CHOOSE i \in Kept(choices) :
                          /\ choices[i].name = name
                          /\ \A j \in Kept(choices) : choices[j].name = name => j <= i
    IN [name \in {choices[i].name : i \in Kept(choices)} |-> choices[last(name)].body]

AllFlagsEnds(a) == ReadEnds(a, AllFlagsRaises(ChoicesOf(a)), AllFlags(ChoicesOf(a)))
=============================================================================
