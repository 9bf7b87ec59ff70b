------------------------------ MODULE Catalog ------------------------------
(***************************************************************************)
(* The catalog's reads and customer questions (internal/catalog).          *)
(* loadItems asks the repository first, keeps what it got as the last      *)
(* known good projection, and falls back on that when the repository       *)
(* fails.  The repository reads items, questions and categories by three   *)
(* statements and no transaction, and refuses a list in which an item      *)
(* lacks its category; a catalog change may fall between any two.          *)
(*                                                                         *)
(* One tenant and country.  Items are numbers, in the order of their ids.  *)
(* Who publishes and withdraws (administration, migrations) is external.   *)
(***************************************************************************)
EXTENDS Naturals, FiniteSets, FiniteSetsExt

CONSTANTS
  Items, Categories, CategoryOf,
  Keys,           \* idempotency keys of questions
  AskerOf,        \* the customer of a key
  Readers,        \* requests in progress
  StaleTTL,
  QuestionLimit,  \* pending questions of a customer on an item (5 in the code)
  MaxQuestions,   \* questions of a readable item (100 in the code)
  MaxClock, MaxChanges

VARIABLES item, category, question, withdrawn, cache, reader, answer, clock, changes

vars == <<item, category, question, withdrawn, cache, reader, answer, clock, changes>>

catalog == <<item, category, withdrawn, changes>>

NoCache == [found |-> FALSE, items |-> {}, asked |-> {}, generatedAt |-> 0]
Idle == [step |-> "IDLE", at |-> 0, items |-> {}, asked |-> {}, question |-> <<>>]
NoAnswer == [status |-> "NONE", items |-> {}, asked |-> {}, generatedAt |-> 0, at |-> 0]

Init ==
  /\ item \in SUBSET Items /\ category = Categories
  /\ question = {}
  /\ withdrawn = [i \in Items |-> 0]
  /\ cache = NoCache
  /\ reader = [r \in Readers |-> Idle]
  /\ answer = [r \in Readers |-> NoAnswer]
  /\ clock = 0 /\ changes = 0

----------------------------------------------------------------------------
(* The catalog changes.                                                    *)

PublishItem(i) ==
  /\ i \notin item /\ changes < MaxChanges
  /\ item' = item \cup {i} /\ changes' = changes + 1
  /\ UNCHANGED <<category, question, withdrawn, cache, reader, answer, clock>>

WithdrawItem(i) ==
  /\ i \in item /\ changes < MaxChanges
  /\ item' = item \ {i} /\ changes' = changes + 1
  /\ withdrawn' = [withdrawn EXCEPT ![i] = clock]
  /\ UNCHANGED <<category, question, cache, reader, answer, clock>>

ChangeCategory(c) ==
  /\ changes < MaxChanges /\ changes' = changes + 1
  /\ category' = IF c \in category THEN category \ {c} ELSE category \cup {c}
  /\ UNCHANGED <<item, question, withdrawn, cache, reader, answer, clock>>

Tick ==
  /\ clock < MaxClock /\ clock' = clock + 1
  /\ UNCHANGED <<catalog, question, cache, reader, answer>>

----------------------------------------------------------------------------
(* loadItems.                                                              *)

Answer(r, status, items, asked, generatedAt) ==
  /\ answer' = [answer EXCEPT ![r] = [status |-> status, items |-> items, asked |-> asked,
                                      generatedAt |-> generatedAt, at |-> reader[r].at]]
  /\ reader' = [reader EXCEPT ![r].step = "DONE"]

\* Mutant: what is cached is served whatever its age.
LastKnownGoodAtAnyAge(r) ==
  IF ~cache.found THEN Answer(r, "DEGRADED", {}, {}, reader[r].at)
  ELSE Answer(r, "STALE", cache.items, cache.asked, cache.generatedAt)

LastKnownGood(r) ==
  IF ~cache.found \/ reader[r].at > cache.generatedAt + StaleTTL
  THEN Answer(r, "DEGRADED", {}, {}, reader[r].at)
  ELSE Answer(r, "STALE", cache.items, cache.asked, cache.generatedAt)

\* The clock is read before the repository is asked.
loadItems(r) ==
  /\ reader[r].step = "IDLE"
  /\ reader' = [reader EXCEPT ![r] = [Idle EXCEPT !.step = "ITEMS", !.at = clock]]
  /\ UNCHANGED <<catalog, question, cache, answer, clock>>

SelectItems(r) ==
  /\ reader[r].step = "ITEMS"
  /\ reader' = [reader EXCEPT ![r].step = "QUESTIONS", ![r].items = item]
  /\ UNCHANGED <<catalog, question, cache, answer, clock>>

\* The join with the items published by now; questions of items that were not
\* selected are dropped.
SelectQuestions(r) ==
  /\ reader[r].step = "QUESTIONS"
  /\ reader' = [reader EXCEPT ![r].step = "CATEGORIES",
                  ![r].asked = {q \in question : q.item \in item \cap reader[r].items}]
  /\ UNCHANGED <<catalog, question, cache, answer, clock>>

\* What NewMemoryRepository accepts; an empty list is not validated.
Valid(items, asked, categories) ==
  \/ items = {}
  \/ /\ categories # {}
     /\ \A i \in items : CategoryOf[i] \in categories
     /\ \A i \in items : Cardinality({q \in asked : q.item = i}) <= MaxQuestions

SelectCategories(r) ==
  /\ reader[r].step = "CATEGORIES"
  /\ IF Valid(reader[r].items, reader[r].asked, category)
     THEN reader' = [reader EXCEPT ![r].step = "STORE"] /\ UNCHANGED answer
     ELSE LastKnownGood(r)
  /\ UNCHANGED <<catalog, question, cache, clock>>

RepositoryFails(r) ==
  /\ reader[r].step \in {"ITEMS", "QUESTIONS", "CATEGORIES"}
  /\ LastKnownGood(r)
  /\ UNCHANGED <<catalog, question, cache, clock>>

\* Mutant: the projection is dated when it is stored.
GeneratedWhenStored(r) == clock

generatedAt(r) == reader[r].at

\* Whichever read stores last wins, a slow one over a later one included.
StoreItems(r) ==
  /\ reader[r].step = "STORE"
  /\ cache' = [found |-> TRUE, items |-> reader[r].items, asked |-> reader[r].asked,
               generatedAt |-> generatedAt(r)]
  /\ Answer(r, "FRESH", reader[r].items, reader[r].asked, generatedAt(r))
  /\ UNCHANGED <<catalog, question, clock>>

----------------------------------------------------------------------------
(* What is done with the list.                                             *)

\* Items, Item, Suggestions and Home show the list, or a page of it, and end.
ListItems(r) ==
  /\ reader[r].step = "DONE"
  /\ reader' = [reader EXCEPT ![r] = Idle]
  /\ answer' = [answer EXCEPT ![r] = NoAnswer]
  /\ UNCHANGED <<catalog, question, cache, clock>>

Pending(asked, i, customer) ==
  {q \in asked : q.item = i /\ AskerOf[q.key] = customer /\ q.pending}

\* AskQuestion looks at the list it loaded, which may be stale: a question
\* that is there is answered from it, and a customer with too many is refused.
AskQuestion(r, key, i) ==
  /\ reader[r].step = "DONE"
  /\ i \in answer[r].items
  /\ \A q \in answer[r].asked : q.item = i => q.key # key
  /\ Cardinality(Pending(answer[r].asked, i, AskerOf[key])) < QuestionLimit
  /\ reader' = [reader EXCEPT ![r] =
                  [Idle EXCEPT !.step = "ADD", !.question = <<key, i>>]]
  /\ answer' = [answer EXCEPT ![r] = NoAnswer]
  /\ UNCHANGED <<catalog, question, cache, clock>>

Refused(r) ==
  /\ reader[r].step = "ADD"
  /\ reader' = [reader EXCEPT ![r] = Idle]
  /\ UNCHANGED <<catalog, question, cache, answer, clock>>

Asked(key, i) == [key |-> key, item |-> i, pending |-> TRUE]

\* Mutant: the list AskQuestion looked at is trusted for the limit.
AddQuestionUncounted(r) ==
  LET key == reader[r].question[1]
      i == reader[r].question[2]
  IN  /\ reader[r].step = "ADD" /\ i \in item
      /\ \A q \in question : q.key # key
      /\ question' = question \cup {Asked(key, i)}
      /\ reader' = [reader EXCEPT ![r] = [Idle EXCEPT !.step = "FORGET"]]
      /\ UNCHANGED <<catalog, cache, answer, clock>>

\* One transaction under an advisory lock of customer and item.  The id of a
\* question is made of the customer and the key: repeated, it is found,
\* whatever the item.  Nothing in the program answers a question.
AddQuestion(r) ==
  LET key == reader[r].question[1]
      i == reader[r].question[2]
  IN  /\ reader[r].step = "ADD" /\ i \in item
      /\ \A q \in question : q.key # key
      /\ Cardinality(Pending(question, i, AskerOf[key])) < QuestionLimit
      /\ question' = question \cup {Asked(key, i)}
      /\ reader' = [reader EXCEPT ![r] = [Idle EXCEPT !.step = "FORGET"]]
      /\ UNCHANGED <<catalog, cache, answer, clock>>

\* The cached list lacks the question and is dropped, unless a slow read puts
\* it back.
Forget(r) ==
  /\ reader[r].step = "FORGET"
  /\ cache' = NoCache
  /\ reader' = [reader EXCEPT ![r] = Idle]
  /\ UNCHANGED <<catalog, question, answer, clock>>

----------------------------------------------------------------------------

Next ==
  \/ \E i \in Items : PublishItem(i) \/ WithdrawItem(i)
  \/ \E c \in Categories : ChangeCategory(c)
  \/ Tick
  \/ \E r \in Readers :
       \/ loadItems(r) \/ SelectItems(r) \/ SelectQuestions(r) \/ SelectCategories(r)
       \/ RepositoryFails(r) \/ StoreItems(r)
       \/ ListItems(r)
       \/ \E key \in Keys, i \in Items : AskQuestion(r, key, i)
       \/ AddQuestion(r) \/ Refused(r) \/ Forget(r)

Spec == Init /\ [][Next]_vars

----------------------------------------------------------------------------

\* An answer is as old as it says and never older than the freshness window:
\* an item it lists that is no longer published was withdrawn at or after the
\* date of the answer, which is at most StaleTTL before the request
\* ("a dependency failure returns STALE only inside the configured freshness
\* window", docs/phase-2/CATALOG_HOME_PROJECTIONS.md).  Slow reads may store
\* out of order and changes may fall between the statements of a read.
AsOldAsItSays ==
  \A r \in Readers :
    answer[r].status # "NONE" =>
      /\ answer[r].generatedAt + StaleTTL >= answer[r].at
      /\ \A i \in answer[r].items \ item : withdrawn[i] >= answer[r].generatedAt

\* A customer never has more open questions on an item than the limit,
\* however many requests were admitted on the same list.
OpenQuestionsBounded ==
  \A customer \in {AskerOf[key] : key \in Keys}, i \in Items :
    Cardinality(Pending(question, i, customer)) <= QuestionLimit

\* Questions do not make the catalog unreadable.  Not so: nothing bounds the
\* questions of all customers on an item, and beyond MaxQuestions every list
\* with that item is refused.
QuestionsStayReadable ==
  \A i \in Items : Cardinality({q \in question : q.item = i}) <= MaxQuestions

=============================================================================
