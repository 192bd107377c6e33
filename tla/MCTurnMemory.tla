----------------------------- MODULE MCTurnMemory -----------------------------
EXTENDS TurnMemory

CONSTANTS mar5, mar5to9, n4, four, mandarin, chinese

\* "four stars" is spelled in two ways, and so is the guide's language.
MCNormal == [s \in {four, mandarin} |-> IF s = four THEN n4 ELSE chinese]
MCWithin == {<<mar5, mar5to9>>}
MCImpossible == {}
MCRegionOf ==
  [p \in {"Western Sichuan", "Chengdu", "Tibet"} |->
     IF p = "Tibet" THEN "tibet" ELSE "western_sichuan"]

------------------------------------------------------------------------------
\* Sections: a price rule and a payment rule for all regions, a complete
\* product for groups of 2 to 8, and a page that lacks its duration.
Rank(best) ==
  [i \in {"pricing", "permit_payment", "itinerary", "product_overview",
          "information_collection"} |-> IF i = best THEN 1 ELSE 100]
Section(region, page, heading, best, fits, translated) ==
  [region |-> region, page |-> page, heading |-> heading, rank |-> Rank(best),
   lines |-> 2, fits |-> fits, translated |-> translated]
price == Section("general", None, "Pricing Variables", "pricing", {}, TRUE)
deposit == Section("general", None, "Short Answers", "permit_payment", {}, FALSE)
suits == Section("western_sichuan", 1, "Suitable For", "product_overview", 2..8, TRUE)
lasts == Section("western_sichuan", 1, "Typical Duration", "itinerary", {7, 8}, TRUE)
views == Section("western_sichuan", 1, "Key Experiences", "product_overview", {}, TRUE)
tibet == Section("tibet", 2, "Suitable For", "product_overview", 2..6, TRUE)
MCChunk == {price, deposit, suits, lasts, views, tibet}
MCRetrieval ==
  {[kind |-> "hybrid", found |-> <<tibet, deposit, suits>>],
   [kind |-> "raises", found |-> <<>>]}

------------------------------------------------------------------------------
\* What the model may report besides nothing: a repeated, changed or withdrawn
\* detail.
Update(k, v, op) == [j \in {k} |-> [value |-> v, operation |-> op]]
MCUnderstanding ==
  {NoFacts, Update("group_size", 8, "replace"), Update("group_size", 8, "set"),
   Update("destination", "Tibet", "pending")}

------------------------------------------------------------------------------
Silence ==
  [places |-> <<>>, elsewhere |-> None, numbers |-> {}, approximate |-> FALSE,
   changedTo |-> None, date |-> None, soon |-> FALSE, budget |-> None, days |-> None,
   prefers |-> NoFacts, undecided |-> {}, noNeeds |-> FALSE, need |-> None,
   bare |-> None, corrects |-> FALSE, optOut |-> FALSE, ack |-> FALSE, wants |-> {},
   kinds |-> {}, individual |-> FALSE, asks |-> {}, spam |-> FALSE,
   flagged |-> FALSE, sourceFlagged |-> FALSE, company |-> FALSE,
   deliverable |-> TRUE, length |-> 10, script |-> "zh", replyIn |-> None,
   channel |-> "web_chat"]
To(place) == <<[name |-> place, refused |-> FALSE]>>
Total(n) == [amount |-> n, usd |-> FALSE, scope |-> "total"]
Prefers(k, v) == [j \in {k} |-> [value |-> v, excluded |-> FALSE]]

inquiry == [Silence EXCEPT !.places = To("Western Sichuan"), !.numbers = {3},
              !.wants = {"pricing"}, !.asks = {"price"}, !.length = 40]
makeItFour == [Silence EXCEPT !.numbers = {4}, !.changedTo = 4, !.corrects = TRUE]
toTibet == [Silence EXCEPT !.places = <<[name |-> "Chengdu", refused |-> TRUE],
                                        [name |-> "Tibet", refused |-> FALSE]>>,
              !.corrects = TRUE, !.wants = {"itinerary"}, !.replyIn = "en"]
whenAndHow == [Silence EXCEPT !.date = mar5, !.budget = Total(20000), !.noNeeds = TRUE,
                 !.days = 8, !.prefers = Prefers("hotel_tier", Flexible),
                 !.wants = {"permit_payment"}]
range == [Silence EXCEPT !.date = mar5to9, !.budget = Total(30000)]
hotelUnsent == [Silence EXCEPT !.prefers = Prefers("hotel_tier", four),
                  !.deliverable = FALSE]
openAgain == [Silence EXCEPT !.undecided = {"travel_date", "hotel_tier"}, !.bare = mandarin]
essay == [Silence EXCEPT !.kinds = {"agency"}, !.asks = {"partnership"}, !.company = TRUE,
            !.length = 4000, !.script = "latin", !.channel = "email"]
advert == [Silence EXCEPT !.spam = TRUE]
stopIt == [Silence EXCEPT !.optOut = TRUE]
MCMessage ==
  {inquiry, makeItFour, toTibet, whenAndHow, range, hotelUnsent, essay, advert, stopIt,
   openAgain}
=============================================================================
