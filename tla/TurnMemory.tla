------------------------------ MODULE TurnMemory ------------------------------
(***************************************************************************)
(* The memory of one conversation, turn by turn: _process_turn of          *)
(* services/conversation_service.py between the lease and save_turn, with  *)
(* what it reads from the store and what it leaves there.  Turns of one    *)
(* conversation follow each other (ConversationTurns), so a turn is one    *)
(* step.  The two calls of the language model and the retrieval answer as  *)
(* they like or fail.                                                      *)
(***************************************************************************)
EXTENDS TurnReply

CONSTANTS
  Message,       \* the messages the customer may send
  Understanding, \* the slot updates the model may report
  Retrieval,     \* what retrieval may return: [kind, found]
  MaxTurns       \* bound: turns of the conversation

\* What a message can be, and what the model's answer is validated to be.
ASSUME MessageAssumption ==
  \A m \in Message :
    /\ DOMAIN m.prefers \subseteq Preference /\ m.undecided \subseteq Slot
    /\ m.kinds \subseteq B2B /\ m.asks \subseteq Request
    /\ m.numbers \subseteq Nat /\ m.length \in 0..MaxLength
    /\ {m.soon, m.spam, m.company, m.deliverable} \subseteq BOOLEAN
ASSUME UnderstandingAssumption ==
  /\ None \notin Understanding
  /\ \A updates \in Understanding :
       /\ DOMAIN updates \subseteq Slot
       /\ \A k \in DOMAIN updates : updates[k].operation \in {"set", "replace", "pending"}
ASSUME RetrievalAssumption == \A r \in Retrieval : r.found \in Seq(Chunk)
ASSUME TurnsAssumption == MaxTurns \in Nat

VARIABLES
  facts,      \* conversation_facts
  recovered,  \* the preferences of all processed messages, merged
  state,      \* conversations.state
  saved,      \* the result of the last turn, or None
  unfinished, \* the message whose turn failed, or None
  turns

vars == <<facts, recovered, state, saved, unfinished, turns>>

Outcome == {"not_called", "succeeded", "fallback"}

Init ==
  /\ facts = NoFacts /\ recovered = NoFacts
  /\ state = "new"
  /\ saved = None /\ unfinished = None
  /\ turns = 0

------------------------------------------------------------------------------
\* What the turn decides before anything is fetched.

\* What a check of the message alone would say.
OptedOutNow(m) == m.optOut
OptedOut(m) == state = "do_not_contact" \/ m.optOut
Suppressed(m) == OptedOut(m) \/ (m.deliverable /\ m.spam)
Blocked(m) == m.deliverable /\ Flagged(m)
SafeForModel(m) == ~OptedOut(m) /\ m.deliverable /\ ~m.spam /\ ~m.flagged

\* What the table alone knows.
StoredOnly == facts
\* Preferences of earlier messages that were not analysed fill empty slots.
Known == Overlay(recovered, facts)
Extracted == [m \in Message |-> RuleFeatures(m)]
Read ==
  [m \in Message |->
     EnrichFacts(m, IF m.deliverable THEN ExtractFacts(m, RuleFeatures(m)) ELSE NoFacts,
                 DOMAIN RegionOf)]
Incoming(m) == Read[m]
\* updates: what the model understood, or None.
IncomingWith(m, updates) ==
  IF updates = None THEN Incoming(m) ELSE ApplyToIncoming(Incoming(m), updates)
FactsAfter(m, updates) ==
  MergeFacts(IF updates = None THEN Known ELSE ApplyToPrevious(Known, Incoming(m), updates),
             IncomingWith(m, updates), m.corrects)

FeaturesAfter(m, t) ==
  IF m.deliverable
  THEN CumulativeFeatures(IF saved = None THEN None ELSE saved.features, Extracted[m], t)
  ELSE None
\* LeadFeatures accepts no larger group; the turn raises.
Representable(m, t) ==
  m.deliverable /\ "group_size" \in Settled(t) => t["group_size"].value[1] \in 1..MaxGroup
Conflicted(t) == \E k \in DOMAIN t : t[k].status = "conflicted"

------------------------------------------------------------------------------
\* Retrieval and the draft.
Intents(m) == PlanFor(m, IF saved = None THEN None ELSE saved.intents)
Fetches(m) == ~m.ack /\ ~Suppressed(m) /\ ~Blocked(m)
Nothing == [kind |-> "skipped", found |-> <<>>]
Fetched(m) == IF Fetches(m) THEN Retrieval ELSE {Nothing}

\* The product page named and the sections behind the reply.
Grounding(m, t, incoming, fetched) ==
  LET intents == Intents(m)
      requested == ProductRequested(m, intents, t, incoming)
      place == SettledDestination(t)
      chosen == SelectGrounding(fetched.found, intents, place)
      manuals == ProductManuals(Region(place))
      page == IF requested /\ fetched.kind = "hybrid" /\ Region(place) # None
              THEN RecommendProduct(manuals, t) ELSE None
  IN  IF ~Fetches(m) \/ fetched.kind = "raises"
      THEN [page |-> None, chunks |-> <<>>, requested |-> requested]
      ELSE [page |-> page, requested |-> requested,
            chunks |-> IF page # None THEN WithProduct(page, manuals, chosen, intents)
                       ELSE IF requested THEN WithoutProduct(chosen) ELSE chosen]

MayCompose(m, g, understood) ==
  /\ understood = "succeeded"
  /\ ~Blocked(m) /\ g.chunks # <<>>
  /\ m.wants # {} \/ g.page # None
  /\ g.requested => g.page # None

\* chosen: the sections the model's paragraphs cite.
Evidence(m, g, generation, chosen) ==
  LET product == IF g.page = None THEN {} ELSE {g.chunks[1], g.chunks[2]} IN
  IF Suppressed(m) THEN {}
  ELSE IF generation = "succeeded" THEN product \cup chosen
  ELSE IF g.page # None THEN Range(g.chunks)
  ELSE Cited(g.chunks, m.channel)

\* internal_note: anything a person has to look at.
Noted(m, g, understood, generation, language) ==
  \/ "fallback" \in {understood, generation}
  \/ Fetches(m) /\ g.chunks = <<>>
  \/ /\ generation # "succeeded"
     /\ \/ Untranslated(Cited(g.chunks, m.channel), language)
        \/ g.requested /\ g.page = None /\ Fetches(m)

Questions(m, t, intents, requested) ==
  IF Suppressed(m) THEN <<>>
  ELSE IF requested /\ "pricing" \notin Range(intents) THEN ProductQuestions(t)
  ELSE MissingFields(t, "pricing" \in Range(intents))

\* What save_turn would do if it merged once more.
UpsertFactJoins(t, k, f) ==
  IF k \in DOMAIN t /\ t[k].value # f.value /\ ~Equivalent(k, t[k].value, f.value)
  THEN Joined(t[k], f) ELSE f
\* save_turn stores every fact of the result over what the table has.
UpsertFact(t, k, f) == f
UpsertFacts(t, new) ==
  Overlay(t, [k \in DOMAIN new |-> UpsertFact(t, k, new[k])])

\* t: the merged facts; g: what grounds the reply.
SaveTurn(m, updates, t, g, understood, generation, chosen) ==
  LET intents == Intents(m)
      features == FeaturesAfter(m, t)
      decision == IF features = None THEN None ELSE Evaluate(features, Flagged(m))
      language == Language(m, IF saved = None THEN "zh" ELSE saved.language)
      asked == Questions(m, t, intents, g.requested)
      review == \/ decision # None /\ decision.review
                \/ Conflicted(t)
                \/ Noted(m, g, understood, generation, language)
  IN  /\ state' = IF Suppressed(m) THEN "do_not_contact"
                  ELSE IF review THEN "needs_human_review"
                  ELSE IF asked # <<>> THEN "waiting_customer" ELSE "ready_for_review"
      /\ saved' =
           [facts |-> t, features |-> features, decision |-> decision,
            asked |-> asked, language |-> language, corrects |-> m.corrects,
            intents |-> IF g.page # None /\ intents = Collecting
                        THEN <<"product_overview">> ELSE intents,
            understood |-> understood, generation |-> generation,
            updates |-> updates, page |-> g.page,
            evidence |-> {[region |-> c.region, page |-> c.page] :
                            c \in Evidence(m, g, generation, chosen)}]
      /\ facts' = UpsertFacts(facts, t)
      /\ recovered' = MergeFacts(recovered, Preferences(m), m.corrects)
      /\ unfinished' = None
      /\ turns' = turns + 1

------------------------------------------------------------------------------
Accepts(m) == turns < MaxTurns /\ unfinished \in {None, m}

\* A message that reaches no model: the rules alone.
RuleTurn(m) ==
  LET t == FactsAfter(m, None) IN
  /\ Accepts(m) /\ Representable(m, t)
  /\ \E fetched \in Fetched(m) :
       SaveTurn(m, None, t, Grounding(m, t, Incoming(m), fetched),
                "not_called", "not_called", {})

\* The model failed to understand the message; it is not asked to write.
ModelFails(m) ==
  LET t == FactsAfter(m, None) IN
  /\ Accepts(m) /\ SafeForModel(m) /\ Representable(m, t)
  /\ \E fetched \in Fetched(m) :
       SaveTurn(m, None, t, Grounding(m, t, Incoming(m), fetched),
                "fallback", "not_called", {})

\* The model understood, and wrote paragraphs, failed to, or was not asked.
ModelTurn(m) ==
  /\ Accepts(m) /\ SafeForModel(m)
  /\ \E updates \in Understanding, fetched \in Fetched(m) :
       LET t == FactsAfter(m, updates)
           g == Grounding(m, t, IncomingWith(m, updates), fetched)
       IN  /\ Usable(updates) /\ Representable(m, t)
           /\ IF MayCompose(m, g, "succeeded")
              THEN \/ SaveTurn(m, updates, t, g, "succeeded", "fallback", {})
                   \/ \E chosen \in (SUBSET Range(g.chunks)) \ {{}} :
                        SaveTurn(m, updates, t, g, "succeeded", "succeeded", chosen)
              ELSE SaveTurn(m, updates, t, g, "succeeded", "not_called", {})

\* Anything the turn needs may fail; only the same message may be sent again.
FailTurn(m) ==
  /\ Accepts(m)
  /\ unfinished' = m
  /\ UNCHANGED <<facts, recovered, state, saved, turns>>

Next ==
  \E m \in Message : RuleTurn(m) \/ ModelFails(m) \/ ModelTurn(m) \/ FailTurn(m)

Spec == Init /\ [][Next]_vars

------------------------------------------------------------------------------
\* Shapes: a fact holds several statements exactly when they conflict, and the
\* features saved are ones the schema accepts.
MemoryTypeOK ==
  /\ \A t \in {facts, recovered} :
       /\ DOMAIN t \subseteq Slot
       /\ \A k \in DOMAIN t :
            /\ t[k].status \in Status
            /\ Len(t[k].value) > 0
            /\ Len(t[k].value) > 1 <=> t[k].status = "conflicted"
  /\ state \in {"new", "waiting_customer", "ready_for_review",
                "needs_human_review", "do_not_contact"}
  /\ unfinished \in Message \cup {None}
  /\ turns \in 0..MaxTurns
  /\ saved # None =>
       /\ saved.features \in Feature \cup {None}
       /\ {saved.understood, saved.generation} \subseteq Outcome
       /\ saved.decision # None => saved.decision.score \in 0..100

\* The facts the reviewer was shown with the draft are those the next turn
\* starts from: save_turn writes the merged facts as they are and does not
\* merge them a second time.
FactsAsShown == facts = IF turns = 0 THEN NoFacts ELSE saved.facts

\* What a customer said about hotel, vehicle or guide in a message that could
\* not be analysed is found again by the next turn that is.
NothingStatedIsLost ==
  saved # None /\ saved.features # None => DOMAIN recovered \subseteq DOMAIN facts

\* A reply about a known destination cites only sections of its region and
\* rules that hold everywhere; a product it names is sold there, and no other
\* product's page is cited beside it.
SourceScope ==
  saved # None =>
    LET place == SettledDestination(saved.facts) IN
    /\ place # None =>
         \A e \in saved.evidence : e.region \in {"general", Region(place)}
    /\ saved.page # None =>
         /\ place # None
         /\ \E c \in Chunk : c.page = saved.page /\ c.region = Region(place)
         /\ \A e \in saved.evidence : e.page \in {None, saved.page}

\* A settled detail is never exchanged for another one in silence: the message
\* corrected it, the two say the same, either leaves the choice open, or the
\* model reported a replacement.  Anything else is a visible conflict.
Explained(k, old, new) ==
  \/ saved'.corrects
  \/ Equivalent(k, old.value, new.value)
  \/ <<Flexible>> \in {old.value, new.value}
  \/ /\ saved'.updates # None /\ k \in DOMAIN saved'.updates
     /\ saved'.updates[k].operation = "replace"
NoSilentChange ==
  [][\A k \in Settled(facts) \cap Settled(facts') :
       facts[k].value # facts'[k].value => Explained(k, facts[k], facts'[k])]_vars

\* While the customer only adds details (none is withdrawn or contradicted, the
\* group does not shrink, the kind of customer is the same), the score of the
\* opportunity does not fall: a short acknowledgement costs nothing, and no
\* threshold has a gap.
Scored(r) == r # None /\ r.features # None /\ ~r.features.spam
OnlyAdds(f, g) ==
  /\ g.kind = f.kind
  /\ f.group # None => g.group # None /\ g.group >= f.group
ScoreKeepsUp ==
  [][/\ Scored(saved) /\ Scored(saved')
     /\ Settled(facts) \subseteq Settled(facts')
     /\ OnlyAdds(saved.features, saved'.features)
     => saved'.decision.score >= saved.decision.score]_vars

\* After an opt-out or spam the conversation stays closed whatever is said
\* later: no model is called, nothing is cited, nothing is asked.
Quiet(r) ==
  /\ r.understood = "not_called" /\ r.generation = "not_called"
  /\ r.evidence = {} /\ r.asked = <<>>
StoppedStaysStopped ==
  [][state = "do_not_contact" => state' = "do_not_contact" /\ Quiet(saved')]_vars
=============================================================================
