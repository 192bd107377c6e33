---------------------------- MODULE CustomerFacts ----------------------------
(***************************************************************************)
(* The facts of a conversation: what one message says about each slot, how *)
(* that is merged into what is known, and what is still missing            *)
(* (services/conversation_memory.py, conversation_slots.py,                *)
(* service_preferences.py, apply_understanding of conversation_llm.py).    *)
(*                                                                         *)
(* A value is a sequence of what was said: one element, or all of several  *)
(* statements that contradict each other (the code joins them by " / ").   *)
(* A table of facts is a function from the slots it has.  Confidences and  *)
(* source messages, which no decision reads, are left out.                 *)
(***************************************************************************)
EXTENDS LeadPolicy, SequencesExt

CONSTANTS
  Normal,      \* the normalised spelling of every spelling of a preference
  Within,      \* pairs of dates of which the first is text of the second
  ImpossibleDate, \* dates no calendar has
  Flexible,    \* the value of a slot left to the adviser
  Undecided,   \* the value of a slot the customer has not decided
  InvalidDate  \* the value of a date that has to be asked again

Slot == {"destination", "group_size", "travel_date", "duration_days", "budget",
         "hotel_tier", "vehicle", "guide_language", "special_requirements"}
Preference == {"hotel_tier", "vehicle", "guide_language"}
Unresolved == {"conflicted", "pending"}
Status == {"inferred", "customer_confirmed"} \cup Unresolved

NoFacts == [k \in {} |-> None]
Stated(v) == [value |-> <<v>>, status |-> "customer_confirmed"]
Pending(v) == [value |-> <<v>>, status |-> "pending"]
\* t with the facts of u, which win.
Overlay(t, u) ==
  [k \in DOMAIN t \cup DOMAIN u |-> IF k \in DOMAIN u THEN u[k] ELSE t[k]]
\* The table with the one fact f for slot k, empty unless it was given.
Given(k, said, f) == [j \in IF said THEN {k} ELSE {} |-> f]
Settled(t) == {k \in DOMAIN t : t[k].status \notin Unresolved}

------------------------------------------------------------------------------
\* Reading one message.
Spelled(k, v) == IF k \in Preference /\ v \in DOMAIN Normal THEN Normal[v] ELSE v

\* Labelled or recognisable preferences; an excluded one leaves the slot open.
Preferences(m) ==
  [k \in DOMAIN m.prefers |->
     LET p == m.prefers[k] IN
     IF p.excluded THEN Pending(p.value) ELSE Stated(Spelled(k, p.value))]

ExtractFacts(m, f) ==
  Overlay(Given("group_size", f.group # None,
            Stated(IF m.changedTo # None THEN m.changedTo ELSE f.group)),
  Overlay(Given("destination", f.places,
            [value |-> <<m.places[1].name>>, status |-> "inferred"]),
  Overlay(Given("travel_date", m.date # None, Stated(m.date)),
  Overlay(Given("budget", m.budget # None, Stated(m.budget)),
  Overlay(Preferences(m), Given("special_requirements", m.noNeeds, Stated("none")))))))

\* Mentions that are not part of a rejected clause, of places that are sold.
Accepted(m, served) == SelectSeq(m.places, LAMBDA p : ~p.refused /\ p.name \in served)
Destination(m, served) ==
  LET said == Accepted(m, served) IN
  IF said # <<>> THEN Stated(Last(said).name)
  ELSE IF m.elsewhere # None THEN Stated(m.elsewhere) ELSE None

ValidDate(v) == v \notin ImpossibleDate
EnrichFacts(m, extracted, served) ==
  LET dated == IF "travel_date" \in DOMAIN extracted /\ ~ValidDate(m.date)
               THEN [extracted EXCEPT !["travel_date"] = Pending(InvalidDate)]
               ELSE extracted
      placed == Overlay([k \in DOMAIN dated \ {"destination"} |-> dated[k]],
                  Given("destination", Destination(m, served) # None, Destination(m, served)))
      timed == Overlay(placed, Given("duration_days", m.days \in 1..365, Stated(m.days)))
      open == Overlay(timed, [k \in m.undecided |-> Pending(Undecided)])
      needs == Overlay(open, Given("special_requirements", m.need # None, Stated(m.need)))
  IN  Overlay(needs, Given("guide_language", m.bare # None,
                           Stated(Spelled("guide_language", m.bare))))

------------------------------------------------------------------------------
\* Merging.

\* equivalent_budget reads the first amount of the text, and any currency or
\* scope named anywhere in it.
Priced(v) == v[1] \notin {Flexible, Undecided}
BudgetReading(v) ==
  [amount |-> v[1].amount,
   usd |-> \E i \in DOMAIN v : v[i].usd,
   scope |-> IF \E i \in DOMAIN v : v[i].scope = "person" THEN "person"
             ELSE IF \E i \in DOMAIN v : v[i].scope = "total" THEN "total"
             ELSE "unspecified"]
EquivalentBudget(v, w) == Priced(v) /\ Priced(w) /\ BudgetReading(v) = BudgetReading(w)

TextOf(v, w) == Len(v) = 1 /\ \E i \in DOMAIN w : v[1] = w[i] \/ <<v[1], w[i]>> \in Within
Equivalent(k, v, w) ==
  \/ k = "travel_date" /\ (TextOf(v, w) \/ TextOf(w, v))
  \/ k = "budget" /\ EquivalentBudget(v, w)

\* What a change of the last condition would do.
ContradictsLoosely(k, old, new) ==
  /\ old.value # new.value
  /\ k \notin Preference \cup {"travel_date", "budget", "group_size"}
\* Two statements about a slot that cannot both be taken.
Contradicts(k, old, new) ==
  /\ old.value # new.value
  /\ <<Flexible>> \notin {old.value, new.value}
  /\ "pending" \notin {old.status, new.status}
  /\ ~Equivalent(k, old.value, new.value)

Joined(old, new) == [value |-> old.value \o new.value, status |-> "conflicted"]
MergeFacts(previous, incoming, corrects) ==
  [k \in DOMAIN previous \cup DOMAIN incoming |->
     IF k \notin DOMAIN incoming THEN previous[k]
     ELSE IF /\ k \in DOMAIN previous
             /\ ~corrects
             /\ Contradicts(k, previous[k], incoming[k])
          THEN Joined(previous[k], incoming[k])
          ELSE incoming[k]]

\* The model's updates, a function from slots to [value, operation].
ValidSlot(k, v) ==
  CASE k = "travel_date" -> ValidDate(v)
    [] k = "group_size" -> v \in 1..10000
    [] k = "duration_days" -> v \in 1..365
    [] OTHER -> TRUE
Usable(updates) ==
  \A k \in DOMAIN updates :
    updates[k].operation = "pending" \/ ValidSlot(k, updates[k].value)
\* A slot the rules read as undecided stays so; a replaced or withdrawn one is
\* taken out of what was known, so that merging cannot find a contradiction.
Heard(incoming, updates) ==
  {k \in DOMAIN updates :
     \/ k \notin DOMAIN incoming
     \/ incoming[k].status # "pending"
     \/ updates[k].operation = "pending"}
ApplyToPrevious(previous, incoming, updates) ==
  LET gone == {k \in Heard(incoming, updates) : updates[k].operation # "set"}
  IN  [k \in DOMAIN previous \ gone |-> previous[k]]
ApplyToIncoming(incoming, updates) ==
  Overlay(incoming,
    [k \in Heard(incoming, updates) |->
       LET v == Spelled(k, updates[k].value) IN
       IF updates[k].operation = "pending" THEN Pending(v) ELSE Stated(v)])

------------------------------------------------------------------------------
\* What the turn after this one may rely on.

RequiredToQuote == <<"destination", "group_size", "travel_date", "hotel_tier">>
RequiredToAdvise == <<"travel_date", "group_size", "budget", "special_requirements">>
MissingFields(t, pricing) ==
  SelectSeq(IF pricing THEN RequiredToQuote ELSE RequiredToAdvise,
            LAMBDA k : k \notin Settled(t))
ProductQuestions(t) ==
  SelectSeq(<<"destination", "duration_days", "group_size">>, LAMBDA k : k \notin Settled(t))

\* What the sum without a bound would be.
LengthUncapped(previous, f) ==
  IF previous = None THEN f.length ELSE previous.length + f.length
LengthSoFar(previous, f) ==
  IF previous # None /\ previous.length + f.length > MaxLength THEN MaxLength
  ELSE IF previous = None THEN f.length ELSE previous.length + f.length
\* The opportunity accumulated so far: a request once made stays made, an
\* identified business stays one, and the details are those of the facts.
CumulativeFeatures(previous, f, t) ==
  LET known == Settled(t)
      kept == previous # None /\ f.kind \in {"unknown", "individual"}
  IN  [f EXCEPT
        !.kind = IF kept THEN previous.kind ELSE f.kind,
        !.asks = IF previous = None THEN f.asks ELSE previous.asks \cup f.asks,
        !.company = f.company \/ (previous # None /\ previous.company),
        !.length = LengthSoFar(previous, f),
        !.group = IF "group_size" \in known THEN t["group_size"].value[1] ELSE None,
        !.places = "destination" \in known,
        !.dates = "travel_date" \in known,
        !.conflicts = \E k \in DOMAIN t : t[k].status = "conflicted"]

\* The reply follows the language asked for, then the script of the message;
\* a short message in Latin letters says nothing about it.
Language(m, previous) ==
  IF m.replyIn # None THEN m.replyIn
  ELSE IF m.script = "zh" THEN "zh"
  ELSE IF m.length < 15 THEN previous ELSE "en"
=============================================================================
