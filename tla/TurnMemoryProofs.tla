--------------------------- MODULE TurnMemoryProofs ---------------------------
(***************************************************************************)
(* The memory of a conversation, for any messages, any vocabulary, any     *)
(* answers of the models and any number of turns: what was stated is       *)
(* kept, nothing settled changes in silence, a conversation that was       *)
(* stopped stays so, and adding details never costs score.                 *)
(***************************************************************************)
EXTENDS TurnMemory, SequenceTheorems, FiniteSetTheorems, TLAPS

-----------------------------------------------------------------------------
\* A fact is what was said, in one statement or in several that conflict.
Fact(f) ==
  /\ f.status \in Status
  /\ f.value \in Seq(Range(f.value))
  /\ Len(f.value) > 0
  /\ Len(f.value) > 1 <=> f.status = "conflicted"
Table(t) ==
  /\ DOMAIN t \subseteq Slot
  /\ \A k \in DOMAIN t : Fact(t[k])

LEMMA StatedIs ==
  ASSUME NEW v, NEW s \in Status \ {"conflicted"}
  PROVE  Fact([value |-> <<v>>, status |-> s])
<1>1. <<v>> \in Seq(Range(<<v>>)) /\ Len(<<v>>) = 1
  BY DEF Range
<1> QED BY <1>1 DEF Fact

LEMMA SaidIs == \A v : Fact(Stated(v)) /\ Fact(Pending(v))
<1>1. {"customer_confirmed", "pending"} \subseteq Status \ {"conflicted"}
  BY DEF Status, Unresolved
<1> QED BY <1>1, StatedIs DEF Stated, Pending

LEMMA OwnRange ==
  ASSUME NEW V, NEW s \in Seq(V)
  PROVE  s \in Seq(Range(s))
<1>1. \A i \in 1..Len(s) : s[i] \in Range(s)
  BY DEF Range
<1> QED BY <1>1, IsASeq, SeqDef

LEMMA JoinedIs ==
  ASSUME NEW old, NEW new, Fact(old), Fact(new)
  PROVE  Fact(Joined(old, new))
<1>1. PICK V : V = Range(old.value) \cup Range(new.value)
  OBVIOUS
<1>2. PICK a, b : a = old.value /\ b = new.value
  OBVIOUS
<1>3. /\ a \in Seq(V) /\ b \in Seq(V)
      /\ Len(a) \in Nat /\ Len(b) \in Nat /\ Len(a) > 0 /\ Len(b) > 0
  BY <1>1, <1>2 DEF Fact
<1>4. PICK s : s = a \o b /\ s \in Seq(V) /\ Len(s) = Len(a) + Len(b)
  BY <1>3, ConcatProperties
<1>5. Len(s) > 1
  BY <1>3, <1>4
<1>6. s \in Seq(Range(s))
  BY <1>4, OwnRange
<1>7. "conflicted" \in Status
  BY DEF Status, Unresolved
<1>8. Joined(old, new) = [value |-> s, status |-> "conflicted"]
  BY <1>2, <1>4 DEF Joined
<1>9. Joined(old, new).value = s /\ Joined(old, new).status = "conflicted"
  BY <1>8
<1> QED BY <1>4, <1>5, <1>6, <1>7, <1>9 DEF Fact

LEMMA NoFactsIs == DOMAIN NoFacts = {} /\ Table(NoFacts)
BY DEF NoFacts, Table

LEMMA OverlayIs ==
  ASSUME NEW t, NEW u
  PROVE  /\ DOMAIN Overlay(t, u) = DOMAIN t \cup DOMAIN u
         /\ \A k \in DOMAIN u : Overlay(t, u)[k] = u[k]
         /\ \A k \in DOMAIN t \ DOMAIN u : Overlay(t, u)[k] = t[k]
BY DEF Overlay

LEMMA OverlayTable ==
  ASSUME NEW t, NEW u, Table(t), Table(u)
  PROVE  Table(Overlay(t, u)) /\ DOMAIN Overlay(t, u) = DOMAIN t \cup DOMAIN u
BY DEF Overlay, Table

LEMMA OverlayKeeps ==
  ASSUME NEW t, NEW u, NEW s, Table(t), Table(u), s \subseteq DOMAIN t \/ s \subseteq DOMAIN u
  PROVE  Table(Overlay(t, u)) /\ s \subseteq DOMAIN Overlay(t, u)
BY OverlayTable

LEMMA GivenIs ==
  ASSUME NEW k \in Slot, NEW said, NEW f, said => Fact(f)
  PROVE  DOMAIN Given(k, said, f) \subseteq {k} /\ Table(Given(k, said, f))
BY DEF Given, Table

LEMMA SlotIs ==
  /\ {"destination", "group_size", "travel_date", "duration_days", "budget",
      "hotel_tier", "vehicle", "guide_language", "special_requirements"} = Slot
  /\ Preference \subseteq Slot \ {"destination"}
BY DEF Slot, Preference

-----------------------------------------------------------------------------
\* Reading one message gives a table that has every preference stated in it.
LEMMA PreferencesIs ==
  ASSUME NEW m \in Message
  PROVE  /\ Table(Preferences(m)) /\ DOMAIN Preferences(m) = DOMAIN m.prefers
         /\ DOMAIN m.prefers \subseteq Slot \ {"destination"}
<1>1. DOMAIN m.prefers \subseteq Slot \ {"destination"}
  BY MessageAssumption, SlotIs
<1>2. \A k \in DOMAIN m.prefers : Fact(Preferences(m)[k])
  BY SaidIs DEF Preferences
<1>3. DOMAIN Preferences(m) = DOMAIN m.prefers
  BY DEF Preferences
<1> QED BY <1>1, <1>2, <1>3 DEF Table

LEMMA ExtractIs ==
  ASSUME NEW m \in Message, NEW f
  PROVE  Table(ExtractFacts(m, f)) /\ DOMAIN m.prefers \subseteq DOMAIN ExtractFacts(m, f)
<1>1. /\ Table(Given("group_size", f.group # None,
            Stated(IF m.changedTo # None THEN m.changedTo ELSE f.group)))
      /\ Table(Given("travel_date", m.date # None, Stated(m.date)))
      /\ Table(Given("budget", m.budget # None, Stated(m.budget)))
      /\ Table(Given("special_requirements", m.noNeeds, Stated("none")))
  BY SaidIs, GivenIs, SlotIs
<1>2. Table(Given("destination", f.places,
            [value |-> <<m.places[1].name>>, status |-> "inferred"]))
  <2>1. "inferred" \in Status \ {"conflicted"}
    BY DEF Status, Unresolved
  <2> QED BY <2>1, StatedIs, GivenIs, SlotIs
<1>3. Table(Preferences(m)) /\ DOMAIN Preferences(m) = DOMAIN m.prefers
  BY PreferencesIs
<1> DEFINE needs == Given("special_requirements", m.noNeeds, Stated("none"))
           budget == Given("budget", m.budget # None, Stated(m.budget))
           dated == Given("travel_date", m.date # None, Stated(m.date))
           place == Given("destination", f.places,
                          [value |-> <<m.places[1].name>>, status |-> "inferred"])
           group == Given("group_size", f.group # None,
                          Stated(IF m.changedTo # None THEN m.changedTo ELSE f.group))
<1>4. ExtractFacts(m, f) =
        Overlay(group, Overlay(place, Overlay(dated, Overlay(budget,
          Overlay(Preferences(m), needs)))))
  BY DEF ExtractFacts
<1>5. Table(needs) /\ Table(budget) /\ Table(dated) /\ Table(place) /\ Table(group)
  BY <1>1, <1>2
<1> DEFINE said == DOMAIN m.prefers
<1>6. Table(Preferences(m)) /\ said \subseteq DOMAIN Preferences(m)
  BY <1>3
<1> HIDE DEF needs, budget, dated, place, group, said
<1>7. PICK a : a = Overlay(Preferences(m), needs) /\ Table(a) /\ said \subseteq DOMAIN a
  BY <1>5, <1>6, OverlayKeeps
<1>8. PICK b : b = Overlay(budget, a) /\ Table(b) /\ said \subseteq DOMAIN b
  BY <1>5, <1>7, OverlayKeeps
<1>9. PICK c : c = Overlay(dated, b) /\ Table(c) /\ said \subseteq DOMAIN c
  BY <1>5, <1>8, OverlayKeeps
<1>10. PICK d : d = Overlay(place, c) /\ Table(d) /\ said \subseteq DOMAIN d
  BY <1>5, <1>9, OverlayKeeps
<1>11. PICK e : e = Overlay(group, d) /\ Table(e) /\ said \subseteq DOMAIN e
  BY <1>5, <1>10, OverlayKeeps
<1>12. e = ExtractFacts(m, f)
  BY <1>4, <1>7, <1>8, <1>9, <1>10, <1>11
<1> QED BY <1>11, <1>12 DEF said

LEMMA EnrichIs ==
  ASSUME NEW m \in Message, NEW x, Table(x), NEW served
  PROVE  /\ Table(EnrichFacts(m, x, served))
         /\ DOMAIN x \ {"destination"} \subseteq DOMAIN EnrichFacts(m, x, served)
<1> DEFINE dated == IF "travel_date" \in DOMAIN x /\ ~ValidDate(m.date)
                    THEN [x EXCEPT !["travel_date"] = Pending(InvalidDate)]
                    ELSE x
           kept == [k \in DOMAIN dated \ {"destination"} |-> dated[k]]
           place == Given("destination", Destination(m, served) # None, Destination(m, served))
           open == [k \in m.undecided |-> Pending(Undecided)]
<1>1. Table(dated) /\ DOMAIN dated = DOMAIN x
  BY SaidIs DEF Table
<1>2. Table(kept) /\ DOMAIN kept = DOMAIN x \ {"destination"}
  BY <1>1 DEF Table
<1>3. Destination(m, served) # None => Fact(Destination(m, served))
  BY SaidIs DEF Destination
<1>4. Table(place)
  BY <1>3, GivenIs, SlotIs
<1>5. /\ Table(Given("duration_days", m.days \in 1..365, Stated(m.days)))
      /\ Table(Given("special_requirements", m.need # None, Stated(m.need)))
      /\ Table(Given("guide_language", m.bare # None, Stated(Spelled("guide_language", m.bare))))
  BY SaidIs, GivenIs, SlotIs
<1>6. Table(open)
  BY SaidIs, MessageAssumption DEF Table
<1> DEFINE timed == Given("duration_days", m.days \in 1..365, Stated(m.days))
           needs == Given("special_requirements", m.need # None, Stated(m.need))
           bare == Given("guide_language", m.bare # None,
                         Stated(Spelled("guide_language", m.bare)))
<1>7. EnrichFacts(m, x, served) =
        Overlay(Overlay(Overlay(Overlay(Overlay(kept, place), timed), open), needs), bare)
  BY DEF EnrichFacts
<1>8. Table(timed) /\ Table(needs) /\ Table(bare)
  BY <1>5
<1> DEFINE before == DOMAIN x \ {"destination"}
<1>9. Table(kept) /\ before \subseteq DOMAIN kept
  BY <1>2
<1> HIDE DEF kept, place, timed, open, needs, bare, before
<1>10. PICK a : a = Overlay(kept, place) /\ Table(a) /\ before \subseteq DOMAIN a
  BY <1>4, <1>9, OverlayKeeps
<1>11. PICK b : b = Overlay(a, timed) /\ Table(b) /\ before \subseteq DOMAIN b
  BY <1>8, <1>10, OverlayKeeps
<1>12. PICK c : c = Overlay(b, open) /\ Table(c) /\ before \subseteq DOMAIN c
  BY <1>6, <1>11, OverlayKeeps
<1>13. PICK d : d = Overlay(c, needs) /\ Table(d) /\ before \subseteq DOMAIN d
  BY <1>8, <1>12, OverlayKeeps
<1>14. PICK e : e = Overlay(d, bare) /\ Table(e) /\ before \subseteq DOMAIN e
  BY <1>8, <1>13, OverlayKeeps
<1>15. e = EnrichFacts(m, x, served)
  BY <1>7, <1>10, <1>11, <1>12, <1>13, <1>14
<1> QED BY <1>14, <1>15 DEF before

LEMMA IncomingIs ==
  ASSUME NEW m \in Message
  PROVE  /\ Table(Incoming(m))
         /\ m.deliverable => DOMAIN m.prefers \subseteq DOMAIN Incoming(m)
<1> DEFINE x == IF m.deliverable THEN ExtractFacts(m, RuleFeatures(m)) ELSE NoFacts
<1>1. Table(x) /\ (m.deliverable => DOMAIN m.prefers \subseteq DOMAIN x)
  BY ExtractIs, NoFactsIs
<1>2. Incoming(m) = EnrichFacts(m, IF m.deliverable THEN ExtractFacts(m, Extracted[m]) ELSE NoFacts,
                                DOMAIN RegionOf)
  BY DEF Incoming, Read, Extracted
<1>3. Extracted[m] = RuleFeatures(m)
  BY DEF Extracted
<1>4. Incoming(m) = EnrichFacts(m, x, DOMAIN RegionOf)
  BY <1>2, <1>3
<1>5. "destination" \notin DOMAIN m.prefers
  BY PreferencesIs
<1> HIDE DEF x
<1> QED BY <1>1, <1>4, <1>5, EnrichIs

-----------------------------------------------------------------------------
\* Merging forgets no slot, and keeps every fact well formed.
LEMMA MergeIs ==
  ASSUME NEW old, NEW new, Table(old), Table(new), NEW corrects
  PROVE  /\ Table(MergeFacts(old, new, corrects))
         /\ DOMAIN MergeFacts(old, new, corrects) = DOMAIN old \cup DOMAIN new
<1>1. DOMAIN MergeFacts(old, new, corrects) = DOMAIN old \cup DOMAIN new
  BY DEF MergeFacts
<1>2. ASSUME NEW k \in DOMAIN old \cup DOMAIN new PROVE Fact(MergeFacts(old, new, corrects)[k])
  <2>1. k \in DOMAIN old => Fact(old[k])
    BY DEF Table
  <2>2. k \in DOMAIN new => Fact(new[k])
    BY DEF Table
  <2>3. k \in DOMAIN old /\ k \in DOMAIN new => Fact(Joined(old[k], new[k]))
    BY <2>1, <2>2, JoinedIs
  <2>4. MergeFacts(old, new, corrects)[k] \in
          (IF k \in DOMAIN old THEN {old[k]} ELSE {}) \cup
          (IF k \in DOMAIN new THEN {new[k]} ELSE {}) \cup
          (IF k \in DOMAIN old /\ k \in DOMAIN new THEN {Joined(old[k], new[k])} ELSE {})
    BY DEF MergeFacts
  <2> QED BY <2>1, <2>2, <2>3, <2>4
<1> QED BY <1>1, <1>2 DEF Table

LEMMA KnownIs ==
  ASSUME Table(facts), Table(recovered)
  PROVE  /\ Table(Known) /\ DOMAIN Known = DOMAIN recovered \cup DOMAIN facts
         /\ \A k \in DOMAIN facts : Known[k] = facts[k]
BY OverlayIs, OverlayTable DEF Known

\* The model's updates only add to what was read.
LEMMA UpdatesAre ==
  ASSUME NEW i, Table(i), NEW updates \in Understanding
  PROVE  /\ Table(ApplyToIncoming(i, updates))
         /\ DOMAIN ApplyToIncoming(i, updates) = DOMAIN i \cup Heard(i, updates)
         /\ \A k \in Heard(i, updates) : updates[k].operation = "pending" =>
              ApplyToIncoming(i, updates)[k].status = "pending"
<1>1. Heard(i, updates) \subseteq DOMAIN updates /\ DOMAIN updates \subseteq Slot
  BY UnderstandingAssumption DEF Heard
<1> DEFINE heard == [k \in Heard(i, updates) |->
             IF updates[k].operation = "pending" THEN Pending(Spelled(k, updates[k].value))
             ELSE Stated(Spelled(k, updates[k].value))]
<1>2. ApplyToIncoming(i, updates) = Overlay(i, heard)
  BY DEF ApplyToIncoming
<1>3. Table(heard) /\ DOMAIN heard = Heard(i, updates)
  BY <1>1, SaidIs DEF Table
<1>4. \A k \in Heard(i, updates) : updates[k].operation = "pending" => heard[k].status = "pending"
  BY DEF Pending
<1> HIDE DEF heard
<1>5. /\ Table(Overlay(i, heard)) /\ DOMAIN Overlay(i, heard) = DOMAIN i \cup Heard(i, updates)
      /\ \A k \in Heard(i, updates) : Overlay(i, heard)[k] = heard[k]
  <2>1. \A k \in DOMAIN heard : Overlay(i, heard)[k] = heard[k]
    BY OverlayIs
  <2>2. Table(Overlay(i, heard)) /\ DOMAIN Overlay(i, heard) = DOMAIN i \cup DOMAIN heard
    BY <1>3, OverlayTable
  <2> QED BY <1>3, <2>1, <2>2
<1> QED BY <1>2, <1>4, <1>5

\* The facts of a turn are merged from something known and something heard.
Known1(m, updates) ==
  IF updates = None THEN Known ELSE ApplyToPrevious(Known, Incoming(m), updates)
LEMMA FactsAfterIs ==
  ASSUME Table(facts), Table(recovered), NEW m \in Message,
         NEW updates \in Understanding \cup {None}
  PROVE  /\ FactsAfter(m, updates) =
              MergeFacts(Known1(m, updates), IncomingWith(m, updates), m.corrects)
         /\ Table(Known1(m, updates)) /\ Table(IncomingWith(m, updates))
         /\ Table(FactsAfter(m, updates))
         /\ DOMAIN Known \subseteq DOMAIN FactsAfter(m, updates)
         /\ DOMAIN Incoming(m) \subseteq DOMAIN FactsAfter(m, updates)
         /\ \A k \in DOMAIN Known1(m, updates) : k \in DOMAIN Known /\ Known1(m, updates)[k] = Known[k]
         /\ \A k \in DOMAIN Known \ DOMAIN Known1(m, updates) :
              /\ updates # None /\ k \in DOMAIN updates /\ updates[k].operation # "set"
              /\ k \in DOMAIN IncomingWith(m, updates)
              /\ updates[k].operation = "pending" =>
                   IncomingWith(m, updates)[k].status = "pending"
<1>1. Table(Known) /\ Table(Incoming(m))
  BY KnownIs, IncomingIs
<1>2. FactsAfter(m, updates) =
        MergeFacts(Known1(m, updates), IncomingWith(m, updates), m.corrects)
  BY DEF FactsAfter, Known1
<1>3. CASE updates = None
  <2>1. Known1(m, updates) = Known /\ IncomingWith(m, updates) = Incoming(m)
    BY <1>3 DEF Known1, IncomingWith
  <2>2. PICK p, i : p = Known /\ i = Incoming(m) /\ Table(p) /\ Table(i)
    BY <1>1
  <2>3. PICK t : /\ t = MergeFacts(p, i, m.corrects) /\ Table(t)
                 /\ DOMAIN t = DOMAIN p \cup DOMAIN i
    BY <2>2, MergeIs
  <2> QED BY <1>2, <2>1, <2>2, <2>3
<1>4. CASE updates # None
  <2>1. updates \in Understanding
    BY <1>4
  <2>2. /\ Known1(m, updates) = ApplyToPrevious(Known, Incoming(m), updates)
        /\ IncomingWith(m, updates) = ApplyToIncoming(Incoming(m), updates)
    BY <1>4 DEF Known1, IncomingWith
  <2>3. PICK heard : heard = Heard(Incoming(m), updates) /\ heard \subseteq DOMAIN updates
    BY DEF Heard
  <2>4. /\ Table(Known1(m, updates)) /\ Table(IncomingWith(m, updates))
        /\ DOMAIN IncomingWith(m, updates) = DOMAIN Incoming(m) \cup heard
        /\ DOMAIN Known1(m, updates) = DOMAIN Known \ {k \in heard : updates[k].operation # "set"}
        /\ \A k \in heard : updates[k].operation = "pending" =>
             IncomingWith(m, updates)[k].status = "pending"
        /\ \A k \in DOMAIN Known1(m, updates) : Known1(m, updates)[k] = Known[k]
    <3>1. PICK p, i : p = Known /\ i = Incoming(m) /\ Table(p) /\ Table(i)
      BY <1>1
    <3>2. /\ Table(ApplyToIncoming(i, updates))
          /\ DOMAIN ApplyToIncoming(i, updates) = DOMAIN i \cup Heard(i, updates)
          /\ \A k \in Heard(i, updates) : updates[k].operation = "pending" =>
               ApplyToIncoming(i, updates)[k].status = "pending"
      BY <2>1, <3>1, UpdatesAre
    <3>3. /\ Table(ApplyToPrevious(p, i, updates))
          /\ DOMAIN ApplyToPrevious(p, i, updates) =
               DOMAIN p \ {k \in Heard(i, updates) : updates[k].operation # "set"}
          /\ \A k \in DOMAIN ApplyToPrevious(p, i, updates) :
               ApplyToPrevious(p, i, updates)[k] = p[k]
      BY <3>1 DEF ApplyToPrevious, Table
    <3> QED BY <2>2, <2>3, <3>1, <3>2, <3>3
  <2>5. /\ Table(FactsAfter(m, updates))
        /\ DOMAIN FactsAfter(m, updates) =
             DOMAIN Known1(m, updates) \cup DOMAIN IncomingWith(m, updates)
    <3>1. PICK p, i : /\ p = Known1(m, updates) /\ i = IncomingWith(m, updates)
                      /\ Table(p) /\ Table(i)
      BY <2>4
    <3>2. PICK t : /\ t = MergeFacts(p, i, m.corrects) /\ Table(t)
                   /\ DOMAIN t = DOMAIN p \cup DOMAIN i
      BY <3>1, MergeIs
    <3> QED BY <1>2, <3>1, <3>2
  <2> QED BY <1>2, <1>4, <2>3, <2>4, <2>5
<1> QED BY <1>3, <1>4

\* A settled fact that is another one after the turn was corrected, says the
\* same, is open, or was replaced.
LEMMA ChangeIsExplained ==
  ASSUME Table(facts), Table(recovered), NEW m \in Message,
         NEW updates \in Understanding \cup {None},
         NEW t, t = FactsAfter(m, updates),
         NEW k \in Settled(facts) \cap Settled(t), facts[k].value # t[k].value
  PROVE  \/ m.corrects
         \/ Equivalent(k, facts[k].value, t[k].value)
         \/ <<Flexible>> \in {facts[k].value, t[k].value}
         \/ updates # None /\ k \in DOMAIN updates /\ updates[k].operation = "replace"
<1>1. PICK p, i : p = Known1(m, updates) /\ i = IncomingWith(m, updates)
  OBVIOUS
<1>2. /\ t = MergeFacts(p, i, m.corrects)
      /\ \A j \in DOMAIN p : p[j] = Known[j]
      /\ k \in DOMAIN Known \ DOMAIN p =>
           /\ updates # None /\ k \in DOMAIN updates /\ updates[k].operation # "set"
           /\ k \in DOMAIN i
           /\ updates[k].operation = "pending" => i[k].status = "pending"
  BY <1>1, FactsAfterIs
<1>3. /\ k \in DOMAIN facts /\ k \in DOMAIN Known /\ Known[k] = facts[k]
      /\ k \in DOMAIN t /\ facts[k].status \notin Unresolved /\ t[k].status \notin Unresolved
  BY KnownIs DEF Settled
<1>4. "pending" \in Unresolved /\ "conflicted" \in Unresolved
  BY DEF Unresolved
<1>5. CASE k \notin DOMAIN i
  <2>1. k \in DOMAIN p
    BY <1>2, <1>3, <1>5
  <2>2. t[k] = p[k]
    BY <1>2, <1>3, <1>5 DEF MergeFacts
  <2> QED BY <1>2, <1>3, <2>1, <2>2
<1>6. CASE k \in DOMAIN i /\ k \notin DOMAIN p
  <2>1. t[k] = i[k]
    BY <1>2, <1>3, <1>6 DEF MergeFacts
  <2>2. updates # None /\ k \in DOMAIN updates /\ updates[k].operation \in {"replace", "pending"}
    BY <1>2, <1>3, <1>6, UnderstandingAssumption
  <2> QED BY <1>2, <1>3, <1>4, <1>6, <2>1, <2>2
<1>7. CASE k \in DOMAIN i /\ k \in DOMAIN p
  <2>1. p[k] = facts[k]
    BY <1>2, <1>3, <1>7
  <2>2. CASE ~m.corrects /\ Contradicts(k, p[k], i[k])
    <3>1. t[k] = Joined(p[k], i[k])
      BY <1>2, <1>3, <1>7, <2>2 DEF MergeFacts
    <3>2. t[k].status = "conflicted"
      BY <3>1 DEF Joined
    <3> QED BY <1>3, <1>4, <3>2
  <2>3. CASE ~(~m.corrects /\ Contradicts(k, p[k], i[k]))
    <3>1. t[k] = i[k]
      BY <1>2, <1>3, <1>7, <2>3 DEF MergeFacts
    <3> QED BY <1>3, <1>4, <2>1, <2>3, <3>1 DEF Contradicts
  <2> QED BY <2>2, <2>3
<1> QED BY <1>5, <1>6, <1>7

-----------------------------------------------------------------------------
\* What the rules read is a lead the schema accepts.
LEMMA KindIs ==
  ASSUME NEW m \in Message
  PROVE  CustomerKind(m) \in Kind
<1>1. m.kinds \subseteq B2B
  BY MessageAssumption
<1>2. CASE m.kinds = {}
  BY <1>2 DEF CustomerKind, Kind
<1>3. CASE m.kinds # {}
  <2> DEFINE First(i) == KindOrder[i] \in m.kinds /\ \A j \in 1..(i - 1) : KindOrder[j] \notin m.kinds
  <2>1. /\ Len(KindOrder) = 5
        /\ KindOrder[1] = "agency" /\ KindOrder[2] = "operator" /\ KindOrder[3] = "school"
        /\ KindOrder[4] = "corporate" /\ KindOrder[5] = "influencer"
    BY DEF KindOrder
  <2>2. \E i \in 1..5 : First(i)
    <3>1. CASE "agency" \in m.kinds
      <4>1. First(1)
        BY <2>1, <3>1
      <4> QED BY <4>1
    <3>2. CASE "agency" \notin m.kinds /\ "operator" \in m.kinds
      <4>1. First(2)
        BY <2>1, <3>2
      <4> QED BY <4>1
    <3>3. CASE {"agency", "operator"} \cap m.kinds = {} /\ "school" \in m.kinds
      <4>1. First(3)
        BY <2>1, <3>3
      <4> QED BY <4>1
    <3>4. CASE {"agency", "operator", "school"} \cap m.kinds = {} /\ "corporate" \in m.kinds
      <4>1. First(4)
        BY <2>1, <3>4
      <4> QED BY <4>1
    <3>5. CASE /\ {"agency", "operator", "school", "corporate"} \cap m.kinds = {}
               /\ "influencer" \in m.kinds
      <4>1. First(5)
        BY <2>1, <3>5
      <4> QED BY <4>1
    <3>6. \E x \in m.kinds : x \in {"agency", "operator", "school", "corporate", "influencer"}
      BY <1>1, <1>3 DEF B2B
    <3> QED BY <3>1, <3>2, <3>3, <3>4, <3>5, <3>6
  <2> DEFINE chosen == CHOOSE i \in 1..5 : First(i)
  <2>3. CustomerKind(m) = KindOrder[chosen]
    BY <1>3, <2>1 DEF CustomerKind
  <2>4. First(chosen)
    BY <2>2
  <2> HIDE DEF chosen
  <2> QED BY <1>1, <2>3, <2>4 DEF Kind
<1> QED BY <1>2, <1>3

\* What the rules read of a message.
LEMMA ExtractedIs ==
  ASSUME NEW m \in Message
  PROVE  /\ Extracted[m].kind \in Kind /\ Extracted[m].asks \subseteq Request
         /\ Extracted[m].spam \in BOOLEAN /\ Extracted[m].company \in BOOLEAN
         /\ Extracted[m].length \in 0..MaxLength
         /\ Extracted[m] = [kind |-> Extracted[m].kind, group |-> Extracted[m].group,
              dates |-> Extracted[m].dates, asks |-> Extracted[m].asks,
              spam |-> Extracted[m].spam, places |-> Extracted[m].places,
              company |-> Extracted[m].company, length |-> Extracted[m].length,
              conflicts |-> Extracted[m].conflicts]
<1>1. Extracted[m] = RuleFeatures(m)
  BY DEF Extracted
<1>2. /\ m.asks \subseteq Request /\ m.spam \in BOOLEAN /\ m.company \in BOOLEAN
      /\ m.length \in 0..MaxLength
  BY MessageAssumption
<1> QED BY <1>1, <1>2, KindIs DEF RuleFeatures

\* What is known of a lead agrees with the facts of the conversation.
OfFacts(f, t) ==
  /\ f.dates = ("travel_date" \in Settled(t))
  /\ f.places = ("destination" \in Settled(t))

LEMMA Capped ==
  \A a, b \in 0..MaxLength :
    LET c == IF a + b > MaxLength THEN MaxLength ELSE a + b IN
    c \in 0..MaxLength /\ a <= c
BY DEF MaxLength

\* The lead accumulated over the turns: nothing once said is lost.
LEMMA CumulativeIs ==
  ASSUME NEW m \in Message, NEW old, old = None \/ old \in Feature, NEW t,
         "group_size" \in Settled(t) => t["group_size"].value[1] \in 1..MaxGroup,
         NEW f, f = CumulativeFeatures(old, Extracted[m], t)
  PROVE  /\ f \in Feature /\ OfFacts(f, t)
         /\ old # None => /\ old.asks \subseteq f.asks
                          /\ old.company = TRUE => f.company = TRUE
                          /\ old.length <= f.length
<1>1. PICK x : x = Extracted[m]
  OBVIOUS
<1>2. /\ x.kind \in Kind /\ x.asks \subseteq Request /\ x.spam \in BOOLEAN
      /\ x.company \in BOOLEAN /\ x.length \in 0..MaxLength
      /\ x = [kind |-> x.kind, group |-> x.group, dates |-> x.dates, asks |-> x.asks,
              spam |-> x.spam, places |-> x.places, company |-> x.company,
              length |-> x.length, conflicts |-> x.conflicts]
  BY <1>1, ExtractedIs
<1>3. old # None => /\ old.kind \in Kind /\ old.asks \subseteq Request
                    /\ old.company \in BOOLEAN /\ old.length \in 0..MaxLength
  BY DEF Feature
<1> DEFINE kept == old # None /\ x.kind \in {"unknown", "individual"}
           kind == IF kept THEN old.kind ELSE x.kind
           asks == IF old = None THEN x.asks ELSE old.asks \cup x.asks
           company == x.company \/ (old # None /\ old.company)
           length == LengthSoFar(old, x)
           group == IF "group_size" \in Settled(t) THEN t["group_size"].value[1] ELSE None
           dates == "travel_date" \in Settled(t)
           places == "destination" \in Settled(t)
           conflicts == \E k \in DOMAIN t : t[k].status = "conflicted"
<1>4. kind \in Kind /\ asks \subseteq Request /\ group \in 1..MaxGroup \cup {None}
  BY <1>2, <1>3
<1>5. company \in BOOLEAN /\ (old # None /\ old.company = TRUE => company = TRUE)
  BY <1>2, <1>3
<1>6. length \in 0..MaxLength /\ (old # None => old.length <= length)
  <2>1. x.length \in 0..MaxLength
    BY <1>2, Zenon
  <2>2. CASE old = None
    <3>1. length = x.length
      BY <2>2, Zenon DEF LengthSoFar
    <3> QED BY <2>1, <2>2, <3>1, Zenon
  <2>3. CASE old # None
    <3>1. PICK a, b : a = old.length /\ b = x.length
      OBVIOUS
    <3>2. length = IF a + b > MaxLength THEN MaxLength ELSE a + b
      BY <2>3, <3>1, Zenon DEF LengthSoFar
    <3>3. a \in 0..MaxLength /\ b \in 0..MaxLength
      BY <1>3, <2>1, <2>3, <3>1, Zenon
    <3>4. PICK c : c = IF a + b > MaxLength THEN MaxLength ELSE a + b
      OBVIOUS
    <3>5. c \in 0..MaxLength /\ a <= c
      BY <3>3, <3>4, Capped, Zenon
    <3> QED BY <2>3, <3>1, <3>2, <3>4, <3>5, Zenon
  <2> QED BY <2>2, <2>3
<1>7. dates \in BOOLEAN /\ places \in BOOLEAN /\ conflicts \in BOOLEAN
  OBVIOUS
<1>8. old # None => old.asks \subseteq asks
  OBVIOUS
<1>9. f = [x EXCEPT !.kind = kind, !.asks = asks, !.company = company, !.length = length,
                    !.group = group, !.dates = dates, !.places = places,
                    !.conflicts = conflicts]
  BY <1>1 DEF CumulativeFeatures
<1>10. dates = ("travel_date" \in Settled(t)) /\ places = ("destination" \in Settled(t))
  OBVIOUS
<1> HIDE DEF kept, kind, asks, company, length, group, dates, places, conflicts
<1>11. f = [kind |-> kind, group |-> group, dates |-> dates, asks |-> asks,
            spam |-> x.spam, places |-> places, company |-> company,
            length |-> length, conflicts |-> conflicts]
  BY <1>2, <1>9
<1>12. f \in Feature
  BY <1>2, <1>4, <1>5, <1>6, <1>7, <1>11 DEF Feature
<1>13. /\ f.asks = asks /\ f.company = company /\ f.length = length
       /\ f.dates = dates /\ f.places = places
  BY <1>11
<1> QED BY <1>5, <1>6, <1>8, <1>10, <1>12, <1>13 DEF OfFacts

-----------------------------------------------------------------------------
\* policy-v1: a score is between 0 and 100, and no threshold has a gap.
LEMMA SignalsAre ==
  ASSUME NEW f \in Feature
  PROVE  /\ IsFiniteSet(f.asks) /\ Cardinality(f.asks) \in Nat /\ Signals(f) \in Nat
<1>1. IsFiniteSet(Request)
  <2>1. /\ IsFiniteSet({"price"}) /\ IsFiniteSet({"availability"})
        /\ IsFiniteSet({"private"}) /\ IsFiniteSet({"partnership"})
    BY FS_Singleton
  <2>2. IsFiniteSet({"price"} \cup {"availability"})
    BY <2>1, FS_Union
  <2>3. IsFiniteSet(({"price"} \cup {"availability"}) \cup {"private"})
    BY <2>1, <2>2, FS_Union
  <2>4. IsFiniteSet((({"price"} \cup {"availability"}) \cup {"private"}) \cup {"partnership"})
    BY <2>1, <2>3, FS_Union
  <2>5. Request = (({"price"} \cup {"availability"}) \cup {"private"}) \cup {"partnership"}
    BY DEF Request
  <2> QED BY <2>4, <2>5
<1>2. f.asks \subseteq Request
  BY DEF Feature
<1>3. IsFiniteSet(f.asks) /\ Cardinality(f.asks) \in Nat
  BY <1>1, <1>2, FS_Subset, FS_CardinalityType
<1> QED BY <1>3 DEF Signals

LEMMA ScoreIs ==
  ASSUME NEW f \in Feature
  PROVE  Score(f) \in 0..100
<1>1. f.kind \in Kind
  BY DEF Feature
<1>2. CustomerFit(f) \in 0..30
  BY <1>1 DEF CustomerFit, Kind, B2B
<1>3. IntentStrength(f) \in 0..30
  BY DEF IntentStrength
<1>4. OrderValue(f) \in 0..25
  BY DEF OrderValue
<1>5. Completeness(f) \in 0..15
  BY DEF Completeness
<1> QED BY <1>2, <1>3, <1>4, <1>5 DEF Score

\* A lead that only gained details does not score less.
Gained(f, g) ==
  /\ f.spam = FALSE /\ g.spam = FALSE
  /\ OnlyAdds(f, g) /\ f.asks \subseteq g.asks /\ f.length <= g.length
  /\ f.company = TRUE => g.company = TRUE
  /\ f.dates = TRUE => g.dates = TRUE
  /\ f.places = TRUE => g.places = TRUE
LEMMA ScoreGrows ==
  ASSUME NEW f \in Feature, NEW g \in Feature, Gained(f, g)
  PROVE  Score(g) >= Score(f)
<1>1. /\ f.kind \in Kind /\ g.kind = f.kind
      /\ f.group \in 1..MaxGroup \cup {None} /\ g.group \in 1..MaxGroup \cup {None}
      /\ f.group # None => g.group # None /\ g.group >= f.group
  BY DEF Feature, OnlyAdds, Gained
<1>2. CustomerFit(g) = CustomerFit(f) /\ CustomerFit(f) \in 0..30
  BY <1>1 DEF CustomerFit, Kind, B2B
<1>3. IntentStrength(g) >= IntentStrength(f) /\ IntentStrength(f) \in 0..30 /\ IntentStrength(g) \in 0..30
  <2>1. Cardinality(f.asks) <= Cardinality(g.asks)
    BY SignalsAre, FS_Subset DEF Gained
  <2>2. Signals(f) \in Nat /\ Signals(g) \in Nat /\ Signals(f) <= Signals(g)
    <3>1. Cardinality(f.asks) \in Nat /\ Cardinality(g.asks) \in Nat
      BY SignalsAre
    <3>2. f.dates => g.dates
      BY DEF Gained, Feature
    <3> QED BY <2>1, <3>1, <3>2 DEF Signals
  <2>3. "partnership" \in f.asks => "partnership" \in g.asks
    BY DEF Gained
  <2> QED BY <2>2, <2>3 DEF IntentStrength
<1>4. OrderValue(g) >= OrderValue(f) /\ OrderValue(f) \in 0..25 /\ OrderValue(g) \in 0..25
  <2>1. /\ "partnership" \in f.asks => "partnership" \in g.asks
        /\ "private" \in f.asks => "private" \in g.asks
    BY DEF Gained
  <2>2. ASSUME f.group # None
        PROVE  f.group \in 1..MaxGroup /\ g.group \in 1..MaxGroup /\ g.group >= f.group
    BY <1>1, <2>2, Zenon
  <2>3. \A a, b \in 1..MaxGroup : b >= a =>
          /\ 10 <= a /\ a <= MaxGroup => 10 <= b /\ b <= MaxGroup
          /\ 4 <= a /\ a <= 9 => (4 <= b /\ b <= 9) \/ (10 <= b /\ b <= MaxGroup)
          /\ 1 <= a /\ a <= 3 =>
               (1 <= b /\ b <= 3) \/ (4 <= b /\ b <= 9) \/ (10 <= b /\ b <= MaxGroup)
    BY DEF MaxGroup
  <2>4. f.group # None => g.group # None
    BY <1>1, Zenon
  <2>5. GroupWithin(f, 10, MaxGroup) => GroupWithin(g, 10, MaxGroup)
    BY <2>2, <2>3, <2>4, Zenon DEF GroupWithin
  <2>6. GroupWithin(f, 4, 9) => GroupWithin(g, 4, 9) \/ GroupWithin(g, 10, MaxGroup)
    BY <2>2, <2>3, <2>4, Zenon DEF GroupWithin
  <2>7. GroupWithin(f, 1, 3) =>
          GroupWithin(g, 1, 3) \/ GroupWithin(g, 4, 9) \/ GroupWithin(g, 10, MaxGroup)
    BY <2>2, <2>3, <2>4, Zenon DEF GroupWithin
  <2>8. f.places => g.places
    BY DEF Gained, Feature
  <2> QED BY <2>1, <2>5, <2>6, <2>7, <2>8 DEF OrderValue
<1>5. Completeness(g) >= Completeness(f) /\ Completeness(f) \in 0..15 /\ Completeness(g) \in 0..15
  <2>1. /\ f.company => g.company
        /\ f.dates => g.dates
        /\ f.places => g.places
    BY DEF Gained, Feature
  <2>2. f.length >= 30 => g.length >= 30
    <3>1. f.length \in Nat /\ g.length \in Nat /\ f.length <= g.length
      BY DEF Gained, Feature
    <3> QED BY <3>1
  <2>3. f.group # None => g.group # None
    BY <1>1, Zenon
  <2> QED BY <2>1, <2>2, <2>3 DEF Completeness
<1>6. /\ Score(f) = CustomerFit(f) + IntentStrength(f) + OrderValue(f) + Completeness(f)
      /\ Score(g) = CustomerFit(g) + IntentStrength(g) + OrderValue(g) + Completeness(g)
  BY DEF Score, Gained
<1>7. PICK a, i, o, c : /\ a = CustomerFit(f) /\ i = IntentStrength(f)
                        /\ o = OrderValue(f) /\ c = Completeness(f)
  OBVIOUS
<1>8. PICK j, v, d : j = IntentStrength(g) /\ v = OrderValue(g) /\ d = Completeness(g)
  OBVIOUS
<1>9. /\ a \in 0..30 /\ i \in 0..30 /\ o \in 0..25 /\ c \in 0..15
      /\ j \in 0..30 /\ v \in 0..25 /\ d \in 0..15 /\ j >= i /\ v >= o /\ d >= c
  BY <1>2, <1>3, <1>4, <1>5, <1>7, <1>8, Zenon
<1>10. a + j + v + d >= a + i + o + c
  BY <1>9
<1>11. Score(f) = a + i + o + c /\ Score(g) = a + j + v + d
  BY <1>2, <1>6, <1>7, <1>8, Zenon
<1> QED BY <1>10, <1>11, Zenon

-----------------------------------------------------------------------------
\* What a turn leaves in the store, whichever of the models answered.
Backed(m, t, g, chosen) ==
  /\ chosen \subseteq Range(g.chunks)
  /\ \E incoming : \E fetched \in Fetched(m) : g = Grounding(m, t, incoming, fetched)
Turned(m, updates, g, understood, generation, chosen) ==
  LET t == FactsAfter(m, updates) IN
  /\ SaveTurn(m, updates, t, g, understood, generation, chosen)
  /\ Backed(m, t, g, chosen)
  /\ updates \in Understanding \cup {None} /\ {understood, generation} \subseteq Outcome
  /\ Representable(m, t) /\ turns < MaxTurns
  /\ Suppressed(m) => understood = "not_called" /\ generation = "not_called"

LEMMA TurnIs ==
  ASSUME NEW m \in Message, RuleTurn(m) \/ ModelFails(m) \/ ModelTurn(m)
  PROVE  \E updates, g, understood, generation, chosen :
           Turned(m, updates, g, understood, generation, chosen)
<1>1. SafeForModel(m) => ~Suppressed(m)
  BY DEF SafeForModel, Suppressed
<1>2. Accepts(m) => turns < MaxTurns
  BY DEF Accepts
<1>3. {"not_called", "succeeded", "fallback"} = Outcome
  BY DEF Outcome
<1>4. CASE RuleTurn(m)
  <2>1. PICK fetched \in Fetched(m) :
          SaveTurn(m, None, FactsAfter(m, None),
                   Grounding(m, FactsAfter(m, None), Incoming(m), fetched),
                   "not_called", "not_called", {})
    BY <1>4 DEF RuleTurn
  <2>2. Accepts(m) /\ Representable(m, FactsAfter(m, None))
    BY <1>4 DEF RuleTurn
  <2>3. Backed(m, FactsAfter(m, None),
               Grounding(m, FactsAfter(m, None), Incoming(m), fetched), {})
    BY DEF Backed
  <2> QED BY <1>2, <1>3, <2>1, <2>2, <2>3 DEF Turned
<1>5. CASE ModelFails(m)
  <2>1. PICK fetched \in Fetched(m) :
          SaveTurn(m, None, FactsAfter(m, None),
                   Grounding(m, FactsAfter(m, None), Incoming(m), fetched),
                   "fallback", "not_called", {})
    BY <1>5 DEF ModelFails
  <2>2. Accepts(m) /\ SafeForModel(m) /\ Representable(m, FactsAfter(m, None))
    BY <1>5 DEF ModelFails
  <2>3. Backed(m, FactsAfter(m, None),
               Grounding(m, FactsAfter(m, None), Incoming(m), fetched), {})
    BY DEF Backed
  <2> QED BY <1>1, <1>2, <1>3, <2>1, <2>2, <2>3 DEF Turned
<1>6. CASE ModelTurn(m)
  <2>1. Accepts(m) /\ SafeForModel(m)
    BY <1>6 DEF ModelTurn
  <2>2. PICK updates \in Understanding : \E g : \E generation \in Outcome : \E chosen :
          /\ SaveTurn(m, updates, FactsAfter(m, updates), g, "succeeded", generation, chosen)
          /\ Backed(m, FactsAfter(m, updates), g, chosen)
          /\ Representable(m, FactsAfter(m, updates))
    <3>1. PICK updates \in Understanding : \E fetched \in Fetched(m) :
            LET t == FactsAfter(m, updates)
                g == Grounding(m, t, IncomingWith(m, updates), fetched)
            IN  /\ Usable(updates) /\ Representable(m, t)
                /\ IF MayCompose(m, g, "succeeded")
                   THEN \/ SaveTurn(m, updates, t, g, "succeeded", "fallback", {})
                        \/ \E chosen \in (SUBSET Range(g.chunks)) \ {{}} :
                             SaveTurn(m, updates, t, g, "succeeded", "succeeded", chosen)
                   ELSE SaveTurn(m, updates, t, g, "succeeded", "not_called", {})
      BY <1>6 DEF ModelTurn
    <3>2. PICK fetched \in Fetched(m) :
            LET t == FactsAfter(m, updates)
                g == Grounding(m, t, IncomingWith(m, updates), fetched)
            IN  /\ Usable(updates) /\ Representable(m, t)
                /\ IF MayCompose(m, g, "succeeded")
                   THEN \/ SaveTurn(m, updates, t, g, "succeeded", "fallback", {})
                        \/ \E chosen \in (SUBSET Range(g.chunks)) \ {{}} :
                             SaveTurn(m, updates, t, g, "succeeded", "succeeded", chosen)
                   ELSE SaveTurn(m, updates, t, g, "succeeded", "not_called", {})
      BY <3>1
    <3>3. PICK t, g : /\ t = FactsAfter(m, updates)
                      /\ g = Grounding(m, t, IncomingWith(m, updates), fetched)
      OBVIOUS
    <3>4. /\ Representable(m, t)
          /\ \/ SaveTurn(m, updates, t, g, "succeeded", "fallback", {})
             \/ \E chosen \in (SUBSET Range(g.chunks)) \ {{}} :
                  SaveTurn(m, updates, t, g, "succeeded", "succeeded", chosen)
             \/ SaveTurn(m, updates, t, g, "succeeded", "not_called", {})
      BY <3>2, <3>3, Zenon
    <3>5. \A chosen : chosen \subseteq Range(g.chunks) => Backed(m, t, g, chosen)
      BY <3>3 DEF Backed
    <3>6. \E generation \in Outcome : \E chosen :
            /\ SaveTurn(m, updates, t, g, "succeeded", generation, chosen)
            /\ Backed(m, t, g, chosen)
      <4>1. {} \subseteq Range(g.chunks)
        OBVIOUS
      <4>2. \A chosen \in (SUBSET Range(g.chunks)) \ {{}} : chosen \subseteq Range(g.chunks)
        OBVIOUS
      <4> QED BY <1>3, <3>4, <3>5, <4>1, <4>2, Zenon
    <3> QED BY <3>3, <3>4, <3>6, Zenon
  <2>3. PICK g : \E generation \in Outcome : \E chosen :
          /\ SaveTurn(m, updates, FactsAfter(m, updates), g, "succeeded", generation, chosen)
          /\ Backed(m, FactsAfter(m, updates), g, chosen)
    BY <2>2, Zenon
  <2>4. PICK generation \in Outcome : \E chosen :
          /\ SaveTurn(m, updates, FactsAfter(m, updates), g, "succeeded", generation, chosen)
          /\ Backed(m, FactsAfter(m, updates), g, chosen)
    BY <2>3, Zenon
  <2>5. PICK chosen :
          /\ SaveTurn(m, updates, FactsAfter(m, updates), g, "succeeded", generation, chosen)
          /\ Backed(m, FactsAfter(m, updates), g, chosen)
    BY <2>4, Zenon
  <2>6. Turned(m, updates, g, "succeeded", generation, chosen)
    BY <1>1, <1>2, <1>3, <2>1, <2>2, <2>5 DEF Turned
  <2> QED BY <2>6, Zenon
<1> QED BY <1>4, <1>5, <1>6

LEMMA SavedIs ==
  ASSUME Table(facts), Table(recovered), NEW m \in Message, NEW updates, NEW g,
         NEW understood, NEW generation, NEW chosen,
         Turned(m, updates, g, understood, generation, chosen),
         NEW t, t = FactsAfter(m, updates)
  PROVE  /\ facts' = t
         /\ recovered' = MergeFacts(recovered, Preferences(m), m.corrects)
         /\ unfinished' = None /\ turns' = turns + 1
         /\ state' \in {"waiting_customer", "ready_for_review", "needs_human_review",
                        "do_not_contact"}
         /\ Suppressed(m) <=> state' = "do_not_contact"
         /\ Suppressed(m) => saved'.evidence = {} /\ saved'.asked = <<>>
         /\ saved'.facts = t /\ saved'.features = FeaturesAfter(m, t)
         /\ saved'.decision = IF FeaturesAfter(m, t) = None THEN None
                              ELSE Evaluate(FeaturesAfter(m, t), Flagged(m))
         /\ saved'.updates = updates /\ saved'.corrects = m.corrects
         /\ saved'.understood = understood /\ saved'.generation = generation
         /\ saved'.page = g.page
         /\ saved'.evidence = {[region |-> c.region, page |-> c.page] :
                                 c \in Evidence(m, g, generation, chosen)}
<1>1. SaveTurn(m, updates, t, g, understood, generation, chosen)
  BY DEF Turned
<1>2. updates \in Understanding \cup {None}
  BY DEF Turned
<1>3. t = [k \in DOMAIN t |-> t[k]] /\ DOMAIN facts \subseteq DOMAIN t
  <2>1. t = MergeFacts(Known1(m, updates), IncomingWith(m, updates), m.corrects)
    BY <1>2, FactsAfterIs
  <2>2. t = [k \in DOMAIN t |-> t[k]]
    BY <2>1 DEF MergeFacts
  <2>3. DOMAIN facts \subseteq DOMAIN Known /\ DOMAIN Known \subseteq DOMAIN t
    BY <1>2, FactsAfterIs, KnownIs
  <2> QED BY <2>2, <2>3
<1>4. facts' = t
  <2>1. facts' = UpsertFacts(facts, t)
    BY <1>1 DEF SaveTurn
  <2>2. [k \in DOMAIN t |-> UpsertFact(facts, k, t[k])] = t
    BY <1>3 DEF UpsertFact
  <2>3. Overlay(facts, t) = t
    BY <1>3 DEF Overlay
  <2> QED BY <2>1, <2>2, <2>3 DEF UpsertFacts
<1>5. /\ recovered' = MergeFacts(recovered, Preferences(m), m.corrects)
      /\ unfinished' = None /\ turns' = turns + 1
  BY <1>1 DEF SaveTurn
<1>6. \E review, asked :
        state' = IF Suppressed(m) THEN "do_not_contact"
                 ELSE IF review THEN "needs_human_review"
                 ELSE IF asked # <<>> THEN "waiting_customer" ELSE "ready_for_review"
  BY <1>1 DEF SaveTurn
<1>7. \E language, intents :
        saved' = [facts |-> t, features |-> FeaturesAfter(m, t),
                  decision |-> IF FeaturesAfter(m, t) = None THEN None
                               ELSE Evaluate(FeaturesAfter(m, t), Flagged(m)),
                  asked |-> Questions(m, t, Intents(m), g.requested),
                  language |-> language, corrects |-> m.corrects,
                  intents |-> intents, understood |-> understood,
                  generation |-> generation, updates |-> updates, page |-> g.page,
                  evidence |-> {[region |-> c.region, page |-> c.page] :
                                  c \in Evidence(m, g, generation, chosen)}]
  BY <1>1, Zenon DEF SaveTurn
<1>8. Suppressed(m) => /\ Questions(m, t, Intents(m), g.requested) = <<>>
                       /\ Evidence(m, g, generation, chosen) = {}
  BY DEF Questions, Evidence
<1>9. /\ saved'.facts = t /\ saved'.features = FeaturesAfter(m, t)
      /\ saved'.decision = IF FeaturesAfter(m, t) = None THEN None
                           ELSE Evaluate(FeaturesAfter(m, t), Flagged(m))
      /\ saved'.updates = updates /\ saved'.corrects = m.corrects
      /\ saved'.understood = understood /\ saved'.generation = generation
      /\ Suppressed(m) => saved'.evidence = {} /\ saved'.asked = <<>>
      /\ saved'.page = g.page
      /\ saved'.evidence = {[region |-> c.region, page |-> c.page] :
                              c \in Evidence(m, g, generation, chosen)}
  BY <1>7, <1>8
<1> QED BY <1>4, <1>5, <1>6, <1>9

-----------------------------------------------------------------------------
\* The inductive invariant: both tables hold well-formed facts, and the result
\* of the last turn is the lead accumulated so far with its score, quiet when
\* the conversation was stopped.
ResultOK(r) ==
  /\ r.features = None \/ r.features \in Feature
  /\ {r.understood, r.generation} \subseteq Outcome
  /\ r.features = None => r.decision = None
  /\ r.features # None =>
       r.decision.score = Score(r.features) /\ OfFacts(r.features, r.facts)
MemoryInv ==
  /\ Table(facts) /\ Table(recovered)
  /\ state \in {"new", "waiting_customer", "ready_for_review",
                "needs_human_review", "do_not_contact"}
  /\ unfinished \in Message \cup {None}
  /\ turns \in 0..MaxTurns
  /\ FactsAsShown
  /\ turns = 0 => saved = None
  /\ NothingStatedIsLost
  /\ saved # None => ResultOK(saved)
  /\ state = "do_not_contact" => Quiet(saved)

LEMMA MemoryInit == Init => MemoryInv
<1>1. SUFFICES ASSUME Init PROVE MemoryInv
  OBVIOUS
<1>2. 0 \in 0..MaxTurns
  BY TurnsAssumption
<1> QED BY <1>1, <1>2, NoFactsIs DEF Init, MemoryInv, FactsAsShown, NothingStatedIsLost

\* What the lead is after a turn.
LEMMA FeaturesAre ==
  ASSUME MemoryInv, NEW m \in Message, NEW t, Representable(m, t)
  PROVE  /\ FeaturesAfter(m, t) = None \/ FeaturesAfter(m, t) \in Feature
         /\ FeaturesAfter(m, t) # None =>
              /\ m.deliverable /\ OfFacts(FeaturesAfter(m, t), t)
              /\ saved # None /\ saved.features # None =>
                   /\ saved.features.asks \subseteq FeaturesAfter(m, t).asks
                   /\ saved.features.company = TRUE => FeaturesAfter(m, t).company = TRUE
                   /\ saved.features.length <= FeaturesAfter(m, t).length
<1>1. CASE ~m.deliverable
  BY <1>1 DEF FeaturesAfter
<1>2. CASE m.deliverable
  <2>1. PICK old : old = IF saved = None THEN None ELSE saved.features
    OBVIOUS
  <2>2. old = None \/ old \in Feature
    BY <2>1 DEF MemoryInv, ResultOK
  <2>3. "group_size" \in Settled(t) => t["group_size"].value[1] \in 1..MaxGroup
    BY <1>2 DEF Representable
  <2>4. PICK f : f = CumulativeFeatures(old, Extracted[m], t)
    OBVIOUS
  <2>5. FeaturesAfter(m, t) = f
    BY <1>2, <2>1, <2>4 DEF FeaturesAfter
  <2>6. /\ f \in Feature /\ OfFacts(f, t)
        /\ old # None => /\ old.asks \subseteq f.asks
                         /\ old.company = TRUE => f.company = TRUE
                         /\ old.length <= f.length
    <3>1. ASSUME NEW o, o = None \/ o \in Feature, NEW u,
                 "group_size" \in Settled(u) => u["group_size"].value[1] \in 1..MaxGroup
          PROVE  /\ CumulativeFeatures(o, Extracted[m], u) \in Feature
                 /\ OfFacts(CumulativeFeatures(o, Extracted[m], u), u)
                 /\ o # None => /\ o.asks \subseteq CumulativeFeatures(o, Extracted[m], u).asks
                                /\ o.company = TRUE => CumulativeFeatures(o, Extracted[m], u).company = TRUE
                                /\ o.length <= CumulativeFeatures(o, Extracted[m], u).length
      BY <3>1, CumulativeIs
    <3> QED BY <2>2, <2>3, <2>4, <3>1
  <2> QED BY <1>2, <2>1, <2>5, <2>6
<1> QED BY <1>1, <1>2

\* Whatever the customer sends and the models answer, the turn keeps all of it.
LEMMA TurnKeeps ==
  ASSUME MemoryInv, NEW m \in Message, NEW updates, NEW g,
         NEW understood, NEW generation, NEW chosen,
         Turned(m, updates, g, understood, generation, chosen)
  PROVE  MemoryInv'
<1>1. Table(facts) /\ Table(recovered) /\ turns \in 0..MaxTurns
  BY DEF MemoryInv
<1>2. /\ updates \in Understanding \cup {None} /\ {understood, generation} \subseteq Outcome
      /\ Representable(m, FactsAfter(m, updates)) /\ turns < MaxTurns
      /\ Suppressed(m) => understood = "not_called" /\ generation = "not_called"
  BY DEF Turned
<1>3. PICK t : t = FactsAfter(m, updates)
  OBVIOUS
<1>4. /\ facts' = t
      /\ recovered' = MergeFacts(recovered, Preferences(m), m.corrects)
      /\ unfinished' = None /\ turns' = turns + 1
      /\ state' \in {"waiting_customer", "ready_for_review", "needs_human_review",
                     "do_not_contact"}
      /\ Suppressed(m) <=> state' = "do_not_contact"
      /\ Suppressed(m) => saved'.evidence = {} /\ saved'.asked = <<>>
      /\ saved'.facts = t /\ saved'.features = FeaturesAfter(m, t)
      /\ saved'.decision = IF FeaturesAfter(m, t) = None THEN None
                           ELSE Evaluate(FeaturesAfter(m, t), Flagged(m))
      /\ saved'.understood = understood /\ saved'.generation = generation
  BY <1>1, <1>3, SavedIs
<1>5. Table(t) /\ DOMAIN Known \subseteq DOMAIN t /\ DOMAIN Incoming(m) \subseteq DOMAIN t
  BY <1>1, <1>2, <1>3, FactsAfterIs
<1>6. Table(recovered') /\ DOMAIN recovered' = DOMAIN recovered \cup DOMAIN m.prefers
  <2>1. Table(Preferences(m)) /\ DOMAIN Preferences(m) = DOMAIN m.prefers
    BY PreferencesIs
  <2>2. /\ Table(MergeFacts(recovered, Preferences(m), m.corrects))
        /\ DOMAIN MergeFacts(recovered, Preferences(m), m.corrects)
             = DOMAIN recovered \cup DOMAIN Preferences(m)
    BY <1>1, <2>1, MergeIs
  <2> QED BY <1>4, <2>1, <2>2
<1>7. PICK f : /\ f = FeaturesAfter(m, t)
               /\ f = None \/ f \in Feature
               /\ f # None => m.deliverable /\ OfFacts(f, t)
  BY <1>2, <1>3, FeaturesAre
<1>8. Table(facts)' /\ Table(recovered)'
  BY <1>4, <1>5, <1>6 DEF Table, Fact
<1>9. turns' \in 0..MaxTurns /\ turns' # 0
  BY <1>1, <1>2, <1>4, TurnsAssumption
<1>10. FactsAsShown'
  BY <1>4, <1>9 DEF FactsAsShown
<1>11. NothingStatedIsLost'
  <2>1. f # None => DOMAIN recovered' \subseteq DOMAIN facts'
    <3>1. f # None => DOMAIN m.prefers \subseteq DOMAIN Incoming(m)
      BY <1>7, IncomingIs
    <3>2. DOMAIN recovered \subseteq DOMAIN Known
      BY <1>1, KnownIs
    <3> QED BY <1>4, <1>5, <1>6, <3>1, <3>2
  <2> QED BY <1>4, <1>7, <2>1 DEF NothingStatedIsLost
<1>12. ResultOK(saved')
  <2>1. f # None => saved'.decision.score = Score(f)
    BY <1>4, <1>7 DEF Evaluate
  <2> QED BY <1>2, <1>4, <1>7, <2>1 DEF ResultOK
<1>13. state' = "do_not_contact" => Quiet(saved')
  BY <1>2, <1>4 DEF Quiet
<1>14. ResultOK(saved)' /\ (state = "do_not_contact" => Quiet(saved))'
  BY <1>12, <1>13 DEF ResultOK, Quiet, OfFacts, Score
<1>15. /\ state' \in {"new", "waiting_customer", "ready_for_review",
                      "needs_human_review", "do_not_contact"}
       /\ unfinished' \in Message \cup {None}
  BY <1>4
<1> QED BY <1>8, <1>9, <1>10, <1>11, <1>14, <1>15 DEF MemoryInv

LEMMA MemoryStep == MemoryInv /\ [Next]_vars => MemoryInv'
<1>1. SUFFICES ASSUME MemoryInv, [Next]_vars PROVE MemoryInv'
  OBVIOUS
<1>2. ASSUME NEW m \in Message, RuleTurn(m) \/ ModelFails(m) \/ ModelTurn(m)
      PROVE  MemoryInv'
  BY <1>1, <1>2, TurnIs, TurnKeeps
<1>3. ASSUME NEW m \in Message, FailTurn(m) PROVE MemoryInv'
  BY <1>1, <1>3 DEF FailTurn, MemoryInv, Table, Fact, FactsAsShown, NothingStatedIsLost,
                    ResultOK, Quiet, OfFacts, Score
<1>4. CASE UNCHANGED vars
  BY <1>1, <1>4 DEF vars, MemoryInv, Table, Fact, FactsAsShown, NothingStatedIsLost,
                    ResultOK, Quiet, OfFacts, Score
<1> QED BY <1>1, <1>2, <1>3, <1>4 DEF Next

THEOREM MemoryInvariant == Spec => []MemoryInv
<1> QED BY MemoryInit, MemoryStep, PTL DEF Spec

-----------------------------------------------------------------------------
\* Every fact holds several statements exactly when they conflict, and every
\* lead saved is one the schema accepts, with a score between 0 and 100.
THEOREM MemoryTypes == Spec => []MemoryTypeOK
<1>1. MemoryInv => MemoryTypeOK
  <2>1. SUFFICES ASSUME MemoryInv PROVE MemoryTypeOK
    OBVIOUS
  <2>2. ASSUME NEW t, Table(t)
        PROVE  /\ DOMAIN t \subseteq Slot
               /\ \A k \in DOMAIN t :
                    /\ t[k].status \in Status
                    /\ Len(t[k].value) > 0
                    /\ Len(t[k].value) > 1 <=> t[k].status = "conflicted"
    BY <2>2 DEF Table, Fact
  <2>3. ASSUME saved # None
        PROVE  /\ saved.features \in Feature \cup {None}
               /\ {saved.understood, saved.generation} \subseteq Outcome
               /\ saved.decision # None => saved.decision.score \in 0..100
    <3>1. ResultOK(saved)
      BY <2>1, <2>3 DEF MemoryInv
    <3>2. saved.features \in Feature => Score(saved.features) \in 0..100
      BY ScoreIs
    <3> QED BY <3>1, <3>2, Zenon DEF ResultOK
  <2>4. Table(facts) /\ Table(recovered)
    BY <2>1 DEF MemoryInv
  <2> QED BY <2>1, <2>2, <2>3, <2>4 DEF MemoryTypeOK, MemoryInv
<1> QED BY <1>1, MemoryInvariant, PTL

\* The next turn starts from the facts the reviewer was shown.
THEOREM FactsAreShown == Spec => []FactsAsShown
<1>1. MemoryInv => FactsAsShown
  BY DEF MemoryInv
<1> QED BY <1>1, MemoryInvariant, PTL

\* A preference stated in a message that could not be analysed is found again.
THEOREM StatedIsKept == Spec => []NothingStatedIsLost
<1>1. MemoryInv => NothingStatedIsLost
  BY DEF MemoryInv
<1> QED BY <1>1, MemoryInvariant, PTL

\* No settled detail is exchanged for another one in silence.
THEOREM ChangesAreExplained == Spec => NoSilentChange
<1> DEFINE Silent ==
      \A k \in Settled(facts) \cap Settled(facts') :
        facts[k].value # facts'[k].value => Explained(k, facts[k], facts'[k])
<1>1. MemoryInv /\ [Next]_vars => [Silent]_vars
  <2>1. SUFFICES ASSUME MemoryInv, Next PROVE Silent
    BY DEF vars
  <2>2. Table(facts) /\ Table(recovered)
    BY <2>1 DEF MemoryInv
  <2>3. ASSUME NEW m \in Message, RuleTurn(m) \/ ModelFails(m) \/ ModelTurn(m)
        PROVE  Silent
    <3>1. PICK updates, g, understood, generation, chosen :
            Turned(m, updates, g, understood, generation, chosen)
      BY <2>3, TurnIs
    <3>2. PICK t : t = FactsAfter(m, updates)
      OBVIOUS
    <3>3. facts' = t /\ saved'.updates = updates /\ saved'.corrects = m.corrects
      BY <2>2, <3>1, <3>2, SavedIs
    <3>4. updates \in Understanding \cup {None}
      BY <3>1 DEF Turned
    <3>5. ASSUME NEW k \in Settled(facts) \cap Settled(t), facts[k].value # t[k].value
          PROVE  \/ m.corrects
                 \/ Equivalent(k, facts[k].value, t[k].value)
                 \/ <<Flexible>> \in {facts[k].value, t[k].value}
                 \/ updates # None /\ k \in DOMAIN updates /\ updates[k].operation = "replace"
      BY <2>2, <3>2, <3>4, <3>5, ChangeIsExplained
    <3>6. ASSUME NEW k \in Settled(facts) \cap Settled(t), facts[k].value # t[k].value
          PROVE  Explained(k, facts[k], t[k])
      BY <3>3, <3>5, <3>6 DEF Explained
    <3>7. Settled(facts') = Settled(t)
      BY <3>3
    <3> QED BY <3>3, <3>6, <3>7
  <2>4. ASSUME NEW m \in Message, FailTurn(m) PROVE Silent
    BY <2>4 DEF FailTurn
  <2> QED BY <2>1, <2>3, <2>4 DEF Next
<1>2. NoSilentChange <=> [][Silent]_vars
  BY DEF NoSilentChange
<1> QED BY <1>1, <1>2, MemoryInvariant, PTL DEF Spec

\* While the customer only adds details, the score does not fall.
THEOREM ScoreNeverFalls == Spec => ScoreKeepsUp
<1> DEFINE Adds ==
      /\ Scored(saved) /\ Scored(saved')
      /\ Settled(facts) \subseteq Settled(facts')
      /\ OnlyAdds(saved.features, saved'.features)
    KeepsUp == Adds => saved'.decision.score >= saved.decision.score
<1>1. MemoryInv /\ [Next]_vars => [KeepsUp]_vars
  <2>1. SUFFICES ASSUME MemoryInv, Next, Adds
                 PROVE  saved'.decision.score >= saved.decision.score
    BY DEF vars
  <2>2. /\ Table(facts) /\ Table(recovered)
        /\ saved # None /\ saved.features \in Feature /\ saved.features.spam = FALSE
        /\ saved.decision.score = Score(saved.features)
        /\ OfFacts(saved.features, facts)
    <3>1. /\ saved # None /\ saved.features # None /\ ~saved.features.spam
      BY <2>1 DEF Scored
    <3>2. ResultOK(saved) /\ facts = saved.facts /\ Table(facts) /\ Table(recovered)
      BY <2>1, <3>1 DEF MemoryInv, FactsAsShown
    <3>3. saved.features \in Feature
      BY <3>1, <3>2 DEF ResultOK
    <3>4. saved.features.spam = FALSE
      BY <3>1, <3>3 DEF Feature
    <3> QED BY <3>1, <3>2, <3>3, <3>4 DEF ResultOK
  <2>3. ASSUME NEW m \in Message, RuleTurn(m) \/ ModelFails(m) \/ ModelTurn(m)
        PROVE  saved'.decision.score >= saved.decision.score
    <3>1. PICK updates, g, understood, generation, chosen :
            Turned(m, updates, g, understood, generation, chosen)
      BY <2>3, TurnIs
    <3>2. PICK t : t = FactsAfter(m, updates)
      OBVIOUS
    <3>3. /\ facts' = t /\ saved'.features = FeaturesAfter(m, t)
          /\ saved'.decision = IF FeaturesAfter(m, t) = None THEN None
                               ELSE Evaluate(FeaturesAfter(m, t), Flagged(m))
      BY <2>2, <3>1, <3>2, SavedIs
    <3>4. Representable(m, t)
      BY <3>1, <3>2 DEF Turned
    <3>5. PICK h, f : h = saved.features /\ f = FeaturesAfter(m, t)
      OBVIOUS
    <3>6. f # None /\ ~f.spam
      BY <2>1, <3>3, <3>5 DEF Scored
    <3>7. /\ f \in Feature /\ OfFacts(f, t)
          /\ h.asks \subseteq f.asks /\ h.length <= f.length
          /\ h.company = TRUE => f.company = TRUE
      <4>1. h # None
        BY <2>1, <3>5 DEF Scored
      <4> QED BY <2>1, <2>2, <3>4, <3>5, <3>6, <4>1, FeaturesAre
    <3>8. f.spam = FALSE
      BY <3>6, <3>7 DEF Feature
    <3>9. /\ h.dates = TRUE => f.dates = TRUE
          /\ h.places = TRUE => f.places = TRUE
      BY <2>1, <2>2, <3>3, <3>5, <3>7 DEF OfFacts
    <3>10. OnlyAdds(h, f)
      BY <2>1, <3>3, <3>5
    <3>11. Score(f) >= Score(h)
      <4>1. Gained(h, f)
        BY <2>2, <3>5, <3>7, <3>8, <3>9, <3>10 DEF Gained
      <4> QED BY <2>2, <3>5, <3>7, <4>1, ScoreGrows
    <3>12. saved'.decision.score = Score(f)
      BY <3>3, <3>5, <3>6 DEF Evaluate
    <3> QED BY <2>2, <3>5, <3>11, <3>12
  <2>4. ASSUME NEW m \in Message, FailTurn(m)
        PROVE  saved'.decision.score >= saved.decision.score
    <3>1. saved' = saved
      BY <2>4 DEF FailTurn
    <3>2. Score(saved.features) \in 0..100
      BY <2>2, ScoreIs
    <3>3. PICK n : n = saved.decision.score /\ n \in 0..100
      BY <2>2, <3>2
    <3> QED BY <3>1, <3>3
  <2> QED BY <2>1, <2>3, <2>4 DEF Next
<1>2. ScoreKeepsUp <=> [][KeepsUp]_vars
  BY DEF ScoreKeepsUp
<1> QED BY <1>1, <1>2, MemoryInvariant, PTL DEF Spec

\* A conversation that was stopped stays closed and quiet.
THEOREM StoppedIsQuiet == Spec => StoppedStaysStopped
<1> DEFINE Closed == state = "do_not_contact" => state' = "do_not_contact" /\ Quiet(saved')
<1>1. MemoryInv /\ [Next]_vars => [Closed]_vars
  <2>1. SUFFICES ASSUME MemoryInv, Next, state = "do_not_contact"
                 PROVE  state' = "do_not_contact" /\ Quiet(saved')
    BY DEF vars
  <2>2. Table(facts) /\ Table(recovered)
    BY <2>1 DEF MemoryInv
  <2>3. ASSUME NEW m \in Message, RuleTurn(m) \/ ModelFails(m) \/ ModelTurn(m)
        PROVE  state' = "do_not_contact" /\ Quiet(saved')
    <3>1. PICK updates, g, understood, generation, chosen :
            Turned(m, updates, g, understood, generation, chosen)
      BY <2>3, TurnIs
    <3>2. Suppressed(m)
      BY <2>1 DEF Suppressed, OptedOut
    <3>3. understood = "not_called" /\ generation = "not_called"
      BY <3>1, <3>2 DEF Turned
    <3>4. PICK t : t = FactsAfter(m, updates)
      OBVIOUS
    <3>5. /\ Suppressed(m) <=> state' = "do_not_contact"
          /\ Suppressed(m) => saved'.evidence = {} /\ saved'.asked = <<>>
          /\ saved'.understood = understood /\ saved'.generation = generation
      BY <2>2, <3>1, <3>4, SavedIs
    <3> QED BY <3>2, <3>3, <3>5 DEF Quiet
  <2>4. ASSUME NEW m \in Message, FailTurn(m)
        PROVE  state' = "do_not_contact" /\ Quiet(saved')
    BY <2>1, <2>4 DEF FailTurn, MemoryInv, Quiet
  <2> QED BY <2>1, <2>3, <2>4 DEF Next
<1>2. StoppedStaysStopped <=> [][Closed]_vars
  BY DEF StoppedStaysStopped
<1> QED BY <1>1, <1>2, MemoryInvariant, PTL DEF Spec

-----------------------------------------------------------------------------
\* What grounds a reply.  Every set of natural numbers has a least one.
LEMMA LeastNumber ==
  ASSUME NEW T \in SUBSET Nat, T # {}
  PROVE  \E n \in T : \A m \in T : n <= m
<1>1. PICK n \in T : \A m \in T : ~(<<m, n>> \in OpToRel(<, Nat))
  <2>1. IsWellFoundedOn(OpToRel(<, Nat), Nat)
    BY NatLessThanWellFounded
  <2> HIDE DEF OpToRel
  <2> QED BY <2>1, WFMin
<1>2. \A m \in T : ~(m < n)
  BY <1>1 DEF OpToRel
<1> QED BY <1>2

\* Among numbered candidates one comes first: it needs the least, and has the
\* smallest number of those that need as little.
LEMMA FirstOfLeast ==
  ASSUME NEW S \in SUBSET Nat, S # {}, NEW need \in [S -> Nat]
  PROVE  \E p \in S : \A q \in S :
           need[p] < need[q] \/ (need[p] = need[q] /\ p <= q)
<1>1. PICK least \in {need[p] : p \in S} : \A n \in {need[p] : p \in S} : least <= n
  <2>1. {need[p] : p \in S} \in SUBSET Nat /\ {need[p] : p \in S} # {}
    OBVIOUS
  <2> QED BY <2>1, LeastNumber
<1>2. PICK p \in {q \in S : need[q] = least} : \A r \in {q \in S : need[q] = least} : p <= r
  <2>1. {q \in S : need[q] = least} \in SUBSET Nat /\ {q \in S : need[q] = least} # {}
    BY <1>1
  <2> QED BY <2>1, LeastNumber
<1>3. \A q \in S : need[p] < need[q] \/ (need[p] = need[q] /\ p <= q)
  BY <1>1, <1>2
<1> QED BY <1>2, <1>3

\* The sequences of a sequence, one after the other, hold nothing else.
LEMMA FlattenIs ==
  ASSUME NEW T, NEW s \in Seq(Seq(T))
  PROVE  FlattenSeq(s) \in Seq(T)
<1> DEFINE n == Len(s)
           Value(v, i) == IF i = 1 THEN s[i] ELSE v[i-1] \o s[i]
           Upto(k) == \E f : /\ f \in [1..n -> Seq(T)]
                             /\ \A i \in 1..n : i <= k => f[i] = Value(f, i)
           N == {k \in Nat : Upto(k)}
<1>1. n \in Nat /\ \A i \in 1..n : s[i] \in Seq(T)
  OBVIOUS
<1>2. CASE n = 0
  BY <1>2 DEF FlattenSeq
<1>3. CASE n # 0
  <2>1. ASSUME N # Nat PROVE FALSE
    <3>1. 0 \in N
      <4>1. [i \in 1..n |-> <<>>] \in [1..n -> Seq(T)]
        OBVIOUS
      <4> QED BY <4>1
    <3>2. PICK k \in Nat \ N : \A m \in Nat \ N : k <= m
      <4>1. Nat \ N \in SUBSET Nat /\ Nat \ N # {}
        BY <2>1
      <4> QED BY <4>1, LeastNumber
    <3>3. k - 1 \in N
      <4> HIDE DEF N
      <4>1. k # 0 /\ k - 1 \in Nat
        BY <3>1
      <4> QED BY <3>2, <4>1
    <3>4. PICK f \in [1..n -> Seq(T)] : \A i \in 1..n : i <= k - 1 => f[i] = Value(f, i)
      BY <3>3
    <3> DEFINE h == [i \in 1..n |-> Value(f, i)]
    <3>5. \A i \in 1..n : i # 1 => i - 1 \in 1..n
      BY <1>1
    <3>6. h \in [1..n -> Seq(T)]
      BY <1>1, <3>4, <3>5, ConcatProperties
    <3>7. \A i \in 1..n : i <= k => h[i] = Value(h, i)
      <4> SUFFICES ASSUME NEW i \in 1..n, i <= k PROVE h[i] = Value(h, i)
        OBVIOUS
      <4>1. CASE i = 1
        BY <4>1
      <4>2. CASE i # 1
        <5>1. i - 1 \in 1..n /\ i - 1 <= k - 1
          BY <3>5, <4>2
        <5>2. h[i - 1] = f[i - 1]
          BY <3>4, <5>1
        <5> QED BY <4>2, <5>2
      <4> QED BY <4>1, <4>2
    <3> HIDE DEF h
    <3> QED BY <3>2, <3>6, <3>7
  <2>2. PICK f \in [1..n -> Seq(T)] : \A i \in 1..n : f[i] = Value(f, i)
    <3>1. n \in N
      BY <1>1, <2>1
    <3> QED BY <3>1
  <2>3. f = [i \in 1..n |-> Value(f, i)]
    BY <2>2
  <2> DEFINE g == CHOOSE g : g = [i \in 1..n |-> IF i = 1 THEN s[i] ELSE g[i-1] \o s[i]]
  <2>4. g = [i \in 1..n |-> IF i = 1 THEN s[i] ELSE g[i-1] \o s[i]]
    BY <2>3
  <2>5. FlattenSeq(s) = g[n]
    BY <1>3 DEF FlattenSeq
  <2> HIDE DEF g
  <2> DEFINE B == {k \in Nat : k \in 1..n => g[k] \in Seq(T)}
  <2>6. ASSUME B # Nat PROVE FALSE
    <3>1. PICK k \in Nat \ B : \A m \in Nat \ B : k <= m
      <4>1. Nat \ B \in SUBSET Nat /\ Nat \ B # {}
        BY <2>6
      <4> QED BY <4>1, LeastNumber
    <3>2. k \in 1..n /\ g[k] \notin Seq(T)
      BY <3>1
    <3>3. g[k] = IF k = 1 THEN s[k] ELSE g[k-1] \o s[k]
      BY <2>4, <3>2
    <3>4. CASE k = 1
      BY <1>1, <3>2, <3>3, <3>4
    <3>5. CASE k # 1
      <4>1. k - 1 \in 1..n /\ k - 1 \in B
        BY <1>1, <3>1, <3>2, <3>5
      <4>2. g[k-1] \in Seq(T) /\ s[k] \in Seq(T)
        BY <1>1, <3>2, <4>1
      <4> QED BY <3>2, <3>3, <3>5, <4>2, ConcatProperties
    <3> QED BY <3>4, <3>5
  <2>7. n \in B /\ n \in 1..n
    BY <1>1, <1>3, <2>6
  <2>8. g[n] \in Seq(T)
    BY <2>7
  <2> QED BY <2>5, <2>8
<1> QED BY <1>2, <1>3

\* Sections a reply to somebody interested in this place may show.
Scoped(place) == {c \in Chunk : InScope(c, place)}

\* A plan names at least one intent.
LEMMA PlanIs ==
  ASSUME NEW wanted
  PROVE  KnowledgePlan(wanted) \in Seq(BusinessIntent) /\ KnowledgePlan(wanted) # <<>>
<1> DEFINE parts == [n \in DOMAIN IntentOrder |->
                       IF IntentOrder[n] \in wanted THEN <<IntentOrder[n]>> ELSE <<>>]
<1>1. /\ IntentOrder \in Seq(BusinessIntent) /\ Len(IntentOrder) = 4
      /\ Collecting \in Seq(BusinessIntent) /\ Collecting # <<>>
  BY DEF IntentOrder, Collecting, BusinessIntent, Range
<1>2. parts \in Seq(Seq(BusinessIntent))
  <2>1. DOMAIN IntentOrder = 1..4 /\ \A n \in 1..4 : IntentOrder[n] \in BusinessIntent
    <3> PICK order : order = IntentOrder
      OBVIOUS
    <3>1. order \in Seq(BusinessIntent) /\ Len(order) = 4
      BY <1>1
    <3>2. DOMAIN order = 1..4
      BY <3>1
    <3>3. \A n \in 1..4 : order[n] \in BusinessIntent
      BY <3>1
    <3> QED BY <3>2, <3>3
  <2>2. \A n \in 1..4 : parts[n] \in Seq(BusinessIntent)
    BY <2>1
  <2>3. parts = [n \in 1..4 |-> parts[n]]
    BY <2>1
  <2> HIDE DEF parts
  <2> QED BY <2>2, <2>3, IsASeq
<1>3. FlattenSeq(parts) \in Seq(BusinessIntent)
  BY <1>2, FlattenIs
<1> QED BY <1>1, <1>3 DEF KnowledgePlan

LEMMA IntentsAre ==
  ASSUME NEW m
  PROVE  Intents(m) \in Seq(BusinessIntent) /\ Intents(m) # <<>>
<1> QED BY PlanIs DEF Intents, PlanFor

\* Choosing one more section keeps the choice in scope.
LEMMA BestIs ==
  ASSUME NEW found \in Seq(Chunk), NEW place, NEW chosen \in Seq(Scoped(place)),
         NEW intent \in BusinessIntent
  PROVE  WithBest(found, place, chosen, intent) \in Seq(Scoped(place))
<1> DEFINE fresh == {i \in DOMAIN found : InScope(found[i], place) /\ found[i] \notin Range(chosen)}
           best == CHOOSE i \in fresh : \A j \in fresh : i = j \/ Before(found, intent, i, j)
<1>1. CASE fresh = {}
  BY <1>1 DEF WithBest
<1>2. CASE fresh # {}
  <2>1. fresh \in SUBSET Nat /\ \A i \in fresh : found[i] \in Scoped(place)
    BY DEF Scoped
  <2> DEFINE need == [i \in fresh |-> found[i].rank[intent]]
  <2>2. need \in [fresh -> Nat]
    BY <2>1, SnapshotAssumption DEF Scoped
  <2>3. PICK i \in fresh : \A j \in fresh :
          need[i] < need[j] \/ (need[i] = need[j] /\ i <= j)
    <3> HIDE DEF fresh, need
    <3> QED BY <1>2, <2>1, <2>2, FirstOfLeast
  <2>4. \A j \in fresh : i = j \/ Before(found, intent, i, j)
    BY <2>1, <2>3 DEF Before
  <2>5. best \in fresh
    <3> HIDE DEF fresh
    <3> QED BY <2>4
  <2>6. WithBest(found, place, chosen, intent) = Append(chosen, found[best])
    BY <1>2 DEF WithBest
  <2> HIDE DEF best
  <2>7. found[best] \in Scoped(place)
    BY <2>1, <2>5
  <2> QED BY <2>6, <2>7, AppendProperties
<1> QED BY <1>1, <1>2

LEMMA SelectionIs ==
  ASSUME NEW found \in Seq(Chunk), NEW place,
         NEW intents \in Seq(BusinessIntent), intents # <<>>
  PROVE  SelectGrounding(found, intents, place) \in Seq(Scoped(place))
<1>1. PICK plan : plan = intents \o <<intents[1], intents[1]>>
  OBVIOUS
<1>2. plan[1] \in BusinessIntent /\ plan[2] \in BusinessIntent /\ plan[3] \in BusinessIntent
  <2>1. intents[1] \in BusinessIntent /\ Len(intents) \in Nat /\ Len(intents) >= 1
    OBVIOUS
  <2>2. PICK more : /\ more = <<intents[1], intents[1]>>
                    /\ more \in Seq(BusinessIntent) /\ Len(more) = 2
    <3>1. <<intents[1], intents[1]>> \in Seq(BusinessIntent)
      BY <2>1
    <3>2. Len(<<intents[1], intents[1]>>) = 2
      OBVIOUS
    <3> QED BY <3>1, <3>2
  <2>3. plan \in Seq(BusinessIntent) /\ Len(plan) = Len(intents) + 2
    BY <1>1, <2>2, ConcatProperties
  <2> QED BY <2>1, <2>3
<1>3. <<>> \in Seq(Scoped(place))
  OBVIOUS
<1>4. PICK one \in Seq(Scoped(place)) : one = WithBest(found, place, <<>>, plan[1])
  BY <1>2, <1>3, BestIs
<1>5. PICK two \in Seq(Scoped(place)) : two = WithBest(found, place, one, plan[2])
  BY <1>2, BestIs
<1>6. WithBest(found, place, two, plan[3]) \in Seq(Scoped(place))
  BY <1>2, BestIs
<1> QED BY <1>1, <1>4, <1>5, <1>6 DEF SelectGrounding

\* Only rules that hold everywhere are left when no product fits.
LEMMA RulesAre ==
  ASSUME NEW V, NEW chosen \in Seq(V)
  PROVE  WithoutProduct(chosen) \in Seq({c \in V : c.region = "general" /\ c.page = None})
<1> DEFINE W == {c \in V : c.region = "general" /\ c.page = None}
           parts == [i \in DOMAIN chosen |->
             IF chosen[i].region = "general" /\ chosen[i].page = None THEN <<chosen[i]>> ELSE <<>>]
<1>1. parts \in Seq(Seq(W))
  <2>1. \A i \in 1..Len(chosen) : parts[i] \in Seq(W)
    <3> SUFFICES ASSUME NEW i \in 1..Len(chosen) PROVE parts[i] \in Seq(W)
      OBVIOUS
    <3>1. chosen[i] \in V /\ i \in DOMAIN chosen
      OBVIOUS
    <3>2. CASE chosen[i] \in W
      <4>1. parts[i] = <<chosen[i]>>
        BY <3>1, <3>2
      <4> HIDE DEF parts, W
      <4>2. \A c \in W : <<c>> \in Seq(W)
        OBVIOUS
      <4> QED BY <3>2, <4>1, <4>2
    <3>3. CASE chosen[i] \notin W
      <4>1. parts[i] = <<>>
        BY <3>1, <3>3
      <4> QED BY <4>1
    <3> QED BY <3>2, <3>3
  <2>2. parts = [i \in 1..Len(chosen) |-> parts[i]] /\ Len(chosen) \in Nat
    OBVIOUS
  <2> HIDE DEF parts, W
  <2> QED BY <2>1, <2>2, IsASeq
<1>2. FlattenSeq(parts) \in Seq(W)
  <2> HIDE DEF parts, W
  <2> QED BY <1>1, FlattenIs
<1> QED BY <1>2 DEF WithoutProduct

LEMMA PartIs ==
  ASSUME NEW manuals, NEW page, NEW heading, Has(manuals, page, heading)
  PROVE  /\ Part(manuals, page, heading) \in manuals
         /\ Part(manuals, page, heading).page = page
<1> QED BY DEF Has, Part

\* The product recommended has both sections a recommendation is made of.
LEMMA ProductIs ==
  ASSUME NEW region, NEW t,
         RecommendProduct(ProductManuals(region), t) # None
  PROVE  RecommendProduct(ProductManuals(region), t) \in Complete(ProductManuals(region))
<1> DEFINE manuals == ProductManuals(region)
           pages == Complete(manuals)
           need == [p \in pages |-> Cardinality(Adjustments(manuals, p, t))]
<1>1. pages # {}
  BY DEF RecommendProduct
<1>2. pages \in SUBSET Nat
  BY SnapshotAssumption DEF Complete, ProductManuals, Snapshot
<1>3. need \in [pages -> Nat]
  <2>1. ASSUME NEW p PROVE Cardinality(Adjustments(manuals, p, t)) \in Nat
    <3>1. IsFiniteSet({"group_size"}) /\ IsFiniteSet({"duration_days"})
      BY FS_Singleton
    <3>2. IsFiniteSet({"group_size"} \cup {"duration_days"})
      BY <3>1, FS_Union
    <3>3. Adjustments(manuals, p, t) \subseteq {"group_size"} \cup {"duration_days"}
      BY DEF Adjustments
    <3> QED BY <3>2, <3>3, FS_Subset, FS_CardinalityType
  <2> HIDE DEF pages, manuals
  <2> QED BY <2>1
<1>4. PICK p \in pages : \A q \in pages :
        need[p] < need[q] \/ (need[p] = need[q] /\ p <= q)
  <2> HIDE DEF pages, need
  <2> QED BY <1>1, <1>2, <1>3, FirstOfLeast
<1> DEFINE Least(r) == \A q \in pages :
             \/ Cardinality(Adjustments(manuals, r, t)) < Cardinality(Adjustments(manuals, q, t))
             \/ /\ Cardinality(Adjustments(manuals, r, t)) = Cardinality(Adjustments(manuals, q, t))
                /\ r <= q
<1>5. Least(p)
  <2> HIDE DEF pages, manuals
  <2> QED BY <1>4
<1>6. RecommendProduct(manuals, t) = CHOOSE r \in pages : Least(r)
  BY <1>1 DEF RecommendProduct
<1>7. (CHOOSE r \in pages : Least(r)) \in pages
  <2> HIDE DEF pages, Least
  <2> QED BY <1>5
<1> QED BY <1>6, <1>7

\* A reply about a product shows it first, and nothing of another page.
LEMMA WithProductIs ==
  ASSUME NEW region, NEW page, page \in Complete(ProductManuals(region)),
         NEW place, region = Region(place),
         NEW chosen \in Seq(Scoped(place)), NEW intents
  PROVE  LET chunks == WithProduct(page, ProductManuals(region), chosen, intents) IN
         /\ chunks \in Seq({c \in Scoped(place) : c.page \in {None, page}})
         /\ Len(chunks) >= 2
<1> DEFINE manuals == ProductManuals(region)
           W == {c \in Scoped(place) : c.page \in {None, page}}
           product == ProductChunks(manuals, page)
           extras == IF {"pricing", "permit_payment"} \cap Range(intents) # {} THEN chosen
                     ELSE IF Has(manuals, page, "Key Experiences")
                          THEN <<Part(manuals, page, "Key Experiences")>> ELSE <<>>
           fit == {i \in DOMAIN extras :
                     extras[i] \notin Range(product) /\ extras[i].page \in {None, page}}
           rest == IF fit = {} THEN <<>> ELSE <<extras[Min(fit)]>>
<1>1. \A c \in manuals : c \in Scoped(place)
  BY DEF ProductManuals, Snapshot, Scoped, InScope
<1>2. ASSUME NEW heading, Has(manuals, page, heading)
      PROVE  Part(manuals, page, heading) \in W
  <2> HIDE DEF manuals
  <2> QED BY <1>1, <1>2, PartIs
<1>3. product \in Seq(W) /\ Len(product) = 2
  <2>1. Has(manuals, page, "Suitable For") /\ Has(manuals, page, "Typical Duration")
    BY DEF Complete
  <2>2. PICK a, b : a = Part(manuals, page, "Typical Duration") /\ b = Part(manuals, page, "Suitable For")
    OBVIOUS
  <2>3. a \in W /\ b \in W
    <3> HIDE DEF manuals, W
    <3> QED BY <1>2, <2>1, <2>2
  <2>4. product = <<a, b>>
    BY <2>2 DEF ProductChunks
  <2> HIDE DEF W, product
  <2>5. <<a, b>> \in Seq(W)
    BY <2>3
  <2>6. Len(<<a, b>>) = 2
    OBVIOUS
  <2> QED BY <2>4, <2>5, <2>6
<1>4. extras \in Seq(Scoped(place))
  <2>1. Has(manuals, page, "Key Experiences") =>
          <<Part(manuals, page, "Key Experiences")>> \in Seq(Scoped(place))
    <3> HIDE DEF manuals
    <3>1. Has(manuals, page, "Key Experiences") =>
            Part(manuals, page, "Key Experiences") \in Scoped(place)
      BY <1>2
    <3>2. \A c \in Scoped(place) : <<c>> \in Seq(Scoped(place))
      OBVIOUS
    <3> QED BY <3>1, <3>2, Zenon
  <2>2. <<>> \in Seq(Scoped(place))
    OBVIOUS
  <2> HIDE DEF manuals
  <2> QED BY <2>1, <2>2
<1>5. rest \in Seq(W)
  <2> HIDE DEF extras, product
  <2>1. CASE fit = {}
    BY <2>1
  <2>2. CASE fit # {}
    <3>1. fit \in SUBSET Nat
      BY <1>4
    <3>2. Min(fit) \in fit
      <4>1. \E n \in fit : \A m \in fit : n <= m
        <5> HIDE DEF fit
        <5> QED BY <2>2, <3>1, LeastNumber
      <4> HIDE DEF fit
      <4> QED BY <4>1 DEF Min
    <3>3. extras[Min(fit)] \in W
      BY <1>4, <3>2
    <3>4. rest = <<extras[Min(fit)]>>
      BY <2>2
    <3> HIDE DEF fit, W, rest
    <3> QED BY <3>3, <3>4
  <2> QED BY <2>1, <2>2
<1>6. WithProduct(page, manuals, chosen, intents) = product \o rest
  BY DEF WithProduct
<1>7. product \o rest \in Seq(W) /\ Len(product \o rest) >= 2
  <2> HIDE DEF product, rest, W
  <2>1. Len(rest) \in Nat
    BY <1>5
  <2> QED BY <1>3, <1>5, <2>1, ConcatProperties
<1> QED BY <1>6, <1>7

\* What grounds a reply to somebody interested in this place.
Fitting(place, page) == {c \in Scoped(place) : page # None => c.page \in {None, page}}
Grounds(g, place) ==
  /\ g.chunks \in Seq(Fitting(place, g.page))
  /\ g.page # None =>
       /\ place # None /\ Len(g.chunks) >= 2
       /\ \E c \in Chunk : c.page = g.page /\ c.region = Region(place)

LEMMA GroundingIs ==
  ASSUME NEW m, NEW t, NEW incoming, NEW fetched \in Fetched(m)
  PROVE  Grounds(Grounding(m, t, incoming, fetched), SettledDestination(t))
<1>1. PICK intents, requested, place, region, chosen, manuals, page :
        /\ intents = Intents(m)
        /\ requested = ProductRequested(m, intents, t, incoming)
        /\ place = SettledDestination(t)
        /\ region = Region(place)
        /\ chosen = SelectGrounding(fetched.found, intents, place)
        /\ manuals = ProductManuals(region)
        /\ page = IF requested /\ fetched.kind = "hybrid" /\ region # None
                  THEN RecommendProduct(manuals, t) ELSE None
  OBVIOUS
<1> DEFINE chunks == IF page # None THEN WithProduct(page, manuals, chosen, intents)
                     ELSE IF requested THEN WithoutProduct(chosen) ELSE chosen
           g == Grounding(m, t, incoming, fetched)
<1>2. g = IF ~Fetches(m) \/ fetched.kind = "raises"
          THEN [page |-> None, chunks |-> <<>>, requested |-> requested]
          ELSE [page |-> page, requested |-> requested, chunks |-> chunks]
  BY <1>1, Zenon DEF Grounding
<1>3. CASE ~Fetches(m) \/ fetched.kind = "raises"
  <2>1. g.page = None /\ g.chunks = <<>>
    BY <1>2, <1>3
  <2>2. <<>> \in Seq(Fitting(place, None))
    OBVIOUS
  <2> HIDE DEF g
  <2>3. Grounds(g, place)
    BY <2>1, <2>2 DEF Grounds
  <2> QED BY <1>1, <2>3 DEF g
<1>4. CASE Fetches(m) /\ fetched.kind # "raises"
  <2>1. g.page = page /\ g.chunks = chunks
    BY <1>2, <1>4
  <2>2. fetched.found \in Seq(Chunk)
    BY <1>4, RetrievalAssumption DEF Fetched
  <2>3. chosen \in Seq(Scoped(place))
    BY <1>1, <2>2, IntentsAre, SelectionIs
  <2>4. CASE page # None
    <3>1. region # None /\ page = RecommendProduct(manuals, t)
      BY <1>1, <2>4
    <3>2. page \in Complete(manuals)
      BY <1>1, <2>4, <3>1, ProductIs
    <3>3. \E c \in Chunk : c.page = page /\ c.region = region
      BY <1>1, <3>2 DEF Complete, ProductManuals, Snapshot
    <3>4. place # None
      BY <1>1, <3>1, SnapshotAssumption DEF Region, Regions
    <3>5. /\ chunks \in Seq({c \in Scoped(place) : c.page \in {None, page}})
          /\ Len(chunks) >= 2
      BY <1>1, <2>3, <2>4, <3>2, WithProductIs
    <3>6. Fitting(place, page) = {c \in Scoped(place) : c.page \in {None, page}}
      BY <2>4 DEF Fitting
    <3> HIDE DEF chunks, g
    <3>7. chunks \in Seq(Fitting(place, page))
      BY <3>5, <3>6
    <3>8. Grounds(g, place)
      BY <1>1, <2>1, <3>3, <3>4, <3>5, <3>7 DEF Grounds
    <3> QED BY <1>1, <3>8 DEF g
  <2>5. CASE page = None
    <3>1. WithoutProduct(chosen) \in Seq({c \in Scoped(place) : c.region = "general" /\ c.page = None})
      <4> HIDE DEF Scoped
      <4> QED BY <2>3, RulesAre
    <3>2. WithoutProduct(chosen) \in Seq(Scoped(place))
      <4>1. {c \in Scoped(place) : c.region = "general" /\ c.page = None} \subseteq Scoped(place)
        OBVIOUS
      <4> QED BY <3>1, <4>1, SeqMonotonic
    <3>3. chunks \in Seq(Scoped(place))
      BY <2>3, <2>5, <3>2
    <3>4. Scoped(place) = Fitting(place, page)
      BY <2>5 DEF Fitting
    <3> HIDE DEF chunks, g
    <3>5. chunks \in Seq(Fitting(place, page))
      BY <3>3, <3>4
    <3>6. Grounds(g, place)
      BY <2>1, <2>5, <3>5 DEF Grounds
    <3> QED BY <1>1, <3>6 DEF g
  <2> QED BY <2>4, <2>5
<1> QED BY <1>3, <1>4

\* Whatever is cited is among what grounds the reply.
LEMMA EvidenceIs ==
  ASSUME NEW m, NEW g, NEW place, Grounds(g, place), NEW generation,
         NEW chosen, chosen \subseteq Range(g.chunks)
  PROVE  \A c \in Evidence(m, g, generation, chosen) :
           InScope(c, place) /\ (g.page # None => c.page \in {None, g.page})
<1>1. g.chunks \in Seq(Fitting(place, g.page)) /\ (g.page # None => Len(g.chunks) >= 2)
  BY DEF Grounds
<1>2. Range(g.chunks) \subseteq Fitting(place, g.page)
  BY <1>1 DEF Range
<1>3. g.page # None => {g.chunks[1], g.chunks[2]} \subseteq Range(g.chunks)
  <2>1. g.page # None => 1 \in DOMAIN g.chunks /\ 2 \in DOMAIN g.chunks
    BY <1>1
  <2> QED BY <2>1 DEF Range
<1>4. Cited(g.chunks, m.channel) \subseteq Range(g.chunks)
  BY DEF Cited, Range
<1>5. Evidence(m, g, generation, chosen) \subseteq Range(g.chunks)
  BY <1>3, <1>4 DEF Evidence
<1> QED BY <1>2, <1>5 DEF Fitting, Scoped

\* Between turns nothing about the saved result changes.
LEMMA ScopeStep == MemoryInv /\ SourceScope /\ [Next]_vars => SourceScope'
<1>1. SUFFICES ASSUME MemoryInv, SourceScope, [Next]_vars PROVE SourceScope'
  OBVIOUS
<1>2. ASSUME NEW m \in Message, RuleTurn(m) \/ ModelFails(m) \/ ModelTurn(m)
      PROVE  SourceScope'
  <2>1. PICK updates, g, understood, generation, chosen :
          Turned(m, updates, g, understood, generation, chosen)
    BY <1>2, TurnIs
  <2>2. PICK t, place : t = FactsAfter(m, updates) /\ place = SettledDestination(t)
    OBVIOUS
  <2>3. /\ saved'.facts = t /\ saved'.page = g.page
        /\ saved'.evidence = {[region |-> c.region, page |-> c.page] :
                                c \in Evidence(m, g, generation, chosen)}
    BY <1>1, <2>1, <2>2, SavedIs DEF MemoryInv
  <2>4. Grounds(g, place) /\ chosen \subseteq Range(g.chunks)
    BY <2>1, <2>2, GroundingIs DEF Turned, Backed
  <2>5. \A e \in saved'.evidence :
          /\ place # None => e.region \in {"general", Region(place)}
          /\ g.page # None => e.page \in {None, g.page}
    BY <2>3, <2>4, EvidenceIs DEF InScope
  <2>6. g.page # None =>
          place # None /\ \E c \in Chunk : c.page = g.page /\ c.region = Region(place)
    BY <2>4 DEF Grounds
  <2>7. SettledDestination(saved'.facts) = place
    BY <2>2, <2>3
  <2> QED BY <2>3, <2>5, <2>6, <2>7 DEF SourceScope, SettledDestination, Settled
<1>3. ASSUME NEW m \in Message, FailTurn(m) PROVE SourceScope'
  BY <1>1, <1>3 DEF FailTurn, SourceScope, SettledDestination, Settled
<1>4. CASE UNCHANGED vars
  BY <1>1, <1>4 DEF vars, SourceScope, SettledDestination, Settled
<1> QED BY <1>1, <1>2, <1>3, <1>4 DEF Next

\* A reply about a known destination cites only its region and rules that hold
\* everywhere, and a product it names is sold there and stands alone.
THEOREM SourcesAreInScope == Spec => []SourceScope
<1>1. Init => SourceScope
  BY DEF Init, SourceScope
<1> QED BY <1>1, MemoryInvariant, ScopeStep, PTL DEF Spec
==============================================================================
