------------------------ MODULE RulesWorkspaceProofs ------------------------
(***************************************************************************)
(* What RulesWorkspace promises, proved for any number of rules, IDs,      *)
(* edits and calls, and for any rules of other clients.                    *)
(***************************************************************************)
EXTENDS RulesWorkspace, FunctionTheorems, FiniteSetTheorems, SequenceTheorems,
        WellFoundedInduction, TLAPS

-----------------------------------------------------------------------------
(* The operators on lists of rules.                                        *)

LEMMA LeastElement ==
    ASSUME NEW S \in SUBSET Nat, S # {}
    PROVE  \E m \in S : \A n \in S : m <= n
<1> DEFINE R == {ss \in Nat \X Nat : ss[1] < ss[2]}
<1>1. IsWellFoundedOn(R, Nat)
  BY NatLessThanWellFounded DEF OpToRel
<1> HIDE DEF R
<1>2. PICK m \in S : \A n \in S : ~ (<<n, m>> \in R)
  BY <1>1, WFMin
<1>3. \A n \in S : ~(n < m)
  BY <1>2 DEF R
<1> QED
  BY <1>3

LEMMA RemoveAtIs ==
    ASSUME NEW T, NEW s \in Seq(T), NEW i \in DOMAIN s
    PROVE  RemoveAt(s, i) \in Seq(T)
<1>1. /\ Len(s) \in Nat /\ DOMAIN s = 1 .. Len(s) /\ i \in 1 .. Len(s)
      /\ \A j \in 1 .. Len(s) : s[j] \in T
  BY ElementOfSeq
<1>2. SubSeq(s, 1, i - 1) \in Seq(T)
  BY <1>1, SubSeqProperties
<1>3. SubSeq(s, i + 1, Len(s)) \in Seq(T)
  BY <1>1, SubSeqProperties
<1> QED
  BY <1>2, <1>3, ConcatProperties DEF RemoveAt

(* What is searched is found first where it stands first.                  *)
LEMMA FirstIndexIs ==
    ASSUME NEW list \in Seq(Rule), NEW id
    PROVE  /\ FirstIndex(list, id) \in 0 .. Len(list)
           /\ id \in Ids(list) => /\ FirstIndex(list, id) \in DOMAIN list
                                  /\ list[FirstIndex(list, id)].id = id
           /\ id \notin Ids(list) => FirstIndex(list, id) = None
           /\ FirstIndex(list, id) # None => id \in Ids(list)
<1>1. Len(list) \in Nat /\ DOMAIN list = 1 .. Len(list)
  OBVIOUS
<1>2. CASE id \in Ids(list)
  <2> DEFINE S == {i \in DOMAIN list : list[i].id = id}
  <2>1. S \in SUBSET Nat /\ S # {}
    BY <1>1, <1>2 DEF Ids
  <2>2. PICK m \in S : \A n \in S : m <= n
    BY <2>1, LeastElement
  <2>3. m \in DOMAIN list /\ list[m].id = id /\ \A j \in 1 .. m - 1 : list[j].id # id
    BY <1>1, <2>2
  <2>4. /\ FirstIndex(list, id) \in DOMAIN list
        /\ list[FirstIndex(list, id)].id = id
    BY <1>2, <2>3 DEF FirstIndex
  <2> QED
    BY <1>1, <1>2, <2>4
<1>3. CASE id \notin Ids(list)
  BY <1>1, <1>3 DEF FirstIndex, None
<1> QED
  BY <1>2, <1>3

LEMMA FirstIndexOfUnique ==
    ASSUME NEW list \in Seq(Rule), Unique(list), NEW i \in DOMAIN list
    PROVE  FirstIndex(list, list[i].id) = i
<1>1. list[i].id \in Ids(list)
  BY DEF Ids
<1>2. /\ FirstIndex(list, list[i].id) \in DOMAIN list
      /\ list[FirstIndex(list, list[i].id)].id = list[i].id
  BY <1>1, FirstIndexIs
<1> QED
  BY <1>2 DEF Unique

(* There is a number that is free: there are fewer rules than numbers      *)
(* tried.                                                                  *)
LEMMA FreeIdIs ==
    ASSUME rules \in Seq(Rule)
    PROVE  FreeId \in Nat \ {0} /\ FreeId \notin Ids(rules)
<1> DEFINE n == Len(rules)
           tried == n + 1 .. 2 * n + 1
           S == {id \in tried : id \notin Ids(rules)}
<1>1. n \in Nat /\ DOMAIN rules = 1 .. n
  OBVIOUS
<1>2. IsFiniteSet(Ids(rules)) /\ Cardinality(Ids(rules)) <= n
  <2> DEFINE f == [i \in 1 .. n |-> rules[i].id]
  <2>1. f \in Surjection(1 .. n, Ids(rules))
    BY <1>1 DEF Ids, Surjection
  <2>2. IsFiniteSet(1 .. n) /\ Cardinality(1 .. n) = n
    BY <1>1, FS_Interval
  <2> QED
    BY <2>1, <2>2, FS_Surjection
<1>3. IsFiniteSet(tried) /\ Cardinality(tried) = n + 1
  <2>1. ASSUME NEW a \in Nat, NEW b \in Nat, a <= b
        PROVE  IsFiniteSet(a .. b) /\ Cardinality(a .. b) = (b - a) + 1
    BY <2>1, FS_Interval
  <2>2. /\ n + 1 \in Nat /\ 2 * n + 1 \in Nat /\ n + 1 <= 2 * n + 1
        /\ ((2 * n + 1) - (n + 1)) + 1 = n + 1
    BY <1>1
  <2> HIDE DEF n
  <2>3. /\ IsFiniteSet(n + 1 .. 2 * n + 1)
        /\ Cardinality(n + 1 .. 2 * n + 1) = ((2 * n + 1) - (n + 1)) + 1
    BY <2>1, <2>2
  <2> QED
    BY <2>2, <2>3
<1>4. S # {}
  <2>1. ASSUME tried \subseteq Ids(rules)
        PROVE  FALSE
    <3>1. Cardinality(tried) <= Cardinality(Ids(rules))
      BY <1>2, <2>1, FS_Subset
    <3>2. Cardinality(Ids(rules)) \in Nat
      BY <1>2, FS_CardinalityType
    <3> QED
      BY <1>1, <1>2, <1>3, <3>1, <3>2
  <2> QED
    BY <2>1
<1>5. PICK m \in S : \A k \in S : m <= k
  <2>1. S \in SUBSET Nat
    BY <1>1
  <2> HIDE DEF S
  <2> QED
    BY <1>4, <2>1, LeastElement
<1>6. \A k \in n + 1 .. m - 1 : k \in Ids(rules)
  BY <1>1, <1>5
<1>7. m \in tried /\ m \notin Ids(rules)
  BY <1>5
<1>8. FreeId \in tried /\ FreeId \notin Ids(rules)
  BY <1>6, <1>7 DEF FreeId
<1> QED
  BY <1>1, <1>8

-----------------------------------------------------------------------------
(* The inductive invariant.                                                *)

CallRecords ==
    [kind : {"load", "save"}, stage : {"sent", "refused", "answered"},
     own : BOOLEAN, edited : BOOLEAN, snapshot : Seq(Rule), answer : Seq(Rule)]

ViewTypes ==
    /\ rules \in Seq(Rule) /\ selected \in 0 .. MaxId /\ chosen \in 0 .. Len(rules)
    /\ collided \in BOOLEAN /\ adrift \in BOOLEAN

CallTypes ==
    /\ stored \in Seq(Rule) /\ foreign \in BOOLEAN
    /\ calls \in [Calls -> CallRecords \cup {NoCall}]
    /\ seen \in [by : {"nothing", "failure", "answer"}, rules : Seq(Rule)]
    /\ lost \in BOOLEAN /\ edits \in 0 .. MaxEdits

OneOwn == \A j, k \in Calls : calls[j].own /\ calls[k].own => j = k

(* A save carries what is shown until the user edits it, and is answered   *)
(* with what it carries.                                                   *)
SavesMatch ==
    \A k \in Calls : calls[k].own /\ calls[k].kind = "save" =>
        /\ ~calls[k].edited => calls[k].snapshot = rules
        /\ calls[k].stage = "answered" => calls[k].answer = calls[k].snapshot

(* If every save was waited for, the daemon has what an answer on its way  *)
(* says, or else what the view knows.                                      *)
StoredKnown ==
    \/ foreign \/ lost
    \/ /\ \A k \in Calls : calls[k] # NoCall => calls[k].own
       /\ \A k \in Calls : calls[k].stage = "answered" => calls[k].answer = stored
       /\ seen.by = "answer" =>
             \/ seen.rules = stored
             \/ \E k \in Calls : calls[k].kind = "save" /\ calls[k].stage = "answered"

(* An ID is typed over another's only as noted.                            *)
Picked ==
    /\ SelectionNamesRule /\ EditsGoToChosenRule
    /\ Unique(rules) \/ collided

ViewInv == ViewTypes /\ Picked
CallsInv == CallTypes /\ OneOwn /\ SavesMatch /\ StoredKnown

IInv == ViewInv /\ CallsInv

-----------------------------------------------------------------------------
(* The view.                                                               *)

LEMMA IdsAreSmall ==
    ASSUME NEW list \in Seq(Rule), NEW i \in DOMAIN list
    PROVE  /\ list[i] \in Rule /\ list[i].id \in 1 .. MaxId /\ list[i].id \in 0 .. MaxId
           /\ list[i].id \in Ids(list)
<1>1. list[i] \in Rule
  BY ElementOfSeq
<1>2. list[i].id \in 1 .. MaxId
  BY <1>1 DEF Rule
<1> QED
  BY <1>1, <1>2, RulesWorkspaceAssumption DEF Ids

LEMMA CallFields ==
    ASSUME CallTypes, NEW k \in Calls
    PROVE  /\ calls[k] \in CallRecords \cup {NoCall}
           /\ calls[k].answer \in Seq(Rule) /\ calls[k].snapshot \in Seq(Rule)
           /\ calls[k].own => calls[k] \in CallRecords
           /\ calls[k] = NoCall => ~calls[k].own /\ calls[k].kind = "none" /\ calls[k].stage = "none"
<1>1. calls[k] \in CallRecords \cup {NoCall}
  BY DEF CallTypes
<1>2. /\ NoCall.answer \in Seq(Rule) /\ NoCall.snapshot \in Seq(Rule)
      /\ ~NoCall.own /\ NoCall.kind = "none" /\ NoCall.stage = "none"
  BY DEF NoCall
<1>3. \A c \in CallRecords : c.answer \in Seq(Rule) /\ c.snapshot \in Seq(Rule)
  BY DEF CallRecords
<1> QED
  BY <1>1, <1>2, <1>3

(* When the ghosts follow the selection they are right.                    *)
LEMMA RepickedIsRight ==
    ASSUME Repicked, rules' \in Seq(Rule)
    PROVE  /\ chosen' \in 0 .. Len(rules') /\ collided' \in BOOLEAN
           /\ EditsGoToChosenRule' /\ (Unique(rules) \/ collided)'
<1>1. chosen' = FirstIndex(rules', selected') /\ collided' = ~Unique(rules')
  BY DEF Repicked
<1>2. chosen' \in 0 .. Len(rules')
  BY <1>1, FirstIndexIs
<1>3. collided' \in BOOLEAN
  BY <1>1, Zenon
<1>4. EditsGoToChosenRule'
  BY <1>1 DEF EditsGoToChosenRule, Index
<1>5. Unique(rules') \/ collided'
  BY <1>1, Zenon
<1> QED
  BY <1>2, <1>3, <1>4, <1>5 DEF Unique

(* Where no two rules have one ID, the rule that was picked is found.      *)
LEMMA FoundIfUnique ==
    ASSUME ViewInv, ~collided, Index # None
    PROVE  Unique(rules) /\ Index = chosen /\ Index \in DOMAIN rules /\ rules[Index].id = selected
BY FirstIndexIs DEF ViewInv, ViewTypes, Picked, EditsGoToChosenRule, Index

LEMMA ListReplaced ==
    ASSUME ViewInv, NEW list \in Seq(Rule), rules' = list, Repicked,
           selected' \in 0 .. MaxId, adrift' \in BOOLEAN,
           selected' = None \/ selected' \in Ids(list) \/ adrift'
    PROVE  ViewInv'
BY RepickedIsRight DEF ViewInv, ViewTypes, Picked, SelectionNamesRule

LEMMA LoadKeepsView ==
    ASSUME IInv, NEW k \in Calls, LoadReturns(k)
    PROVE  ViewInv'
<1>1. PICK list : list = calls[k].answer
  OBVIOUS
<1>2. list \in Seq(Rule) /\ rules' = list /\ Repicked /\ adrift' = FALSE
  BY <1>1, CallFields DEF IInv, CallsInv, LoadReturns
<1>3. selected' = IF selected \in Ids(list) THEN selected
                  ELSE IF list = << >> THEN None ELSE list[1].id
  BY <1>1 DEF LoadReturns, Reselect
<1>4. list # << >> => 1 \in DOMAIN list
  BY <1>2, EmptySeq
<1>5. selected' \in 0 .. MaxId /\ (selected' = None \/ selected' \in Ids(list))
  BY <1>2, <1>3, <1>4, IdsAreSmall, RulesWorkspaceAssumption DEF IInv, ViewInv, ViewTypes, None
<1> QED
  BY <1>2, <1>5, ListReplaced DEF IInv

LEMMA SaveKeepsView ==
    ASSUME IInv, NEW k \in Calls, SaveReturns(k)
    PROVE  ViewInv'
<1>1. PICK list : list = calls[k].answer
  OBVIOUS
<1>2. list \in Seq(Rule) /\ rules' = list /\ Repicked /\ selected' = selected
  BY <1>1, CallFields DEF IInv, CallsInv, SaveReturns
<1>3. adrift' = (adrift \/ rules' # rules)
  BY DEF SaveReturns
<1>4. adrift' \in BOOLEAN
  BY <1>3, Zenon
<1>5. selected = None \/ selected \in Ids(list) \/ adrift'
  <2>1. CASE rules' = rules /\ ~adrift
    BY <1>2, <2>1 DEF IInv, ViewInv, Picked, SelectionNamesRule
  <2>2. CASE rules' # rules \/ adrift
    BY <1>3, <2>2, Zenon
  <2> QED
    BY <2>1, <2>2
<1> QED
  BY <1>2, <1>4, <1>5, ListReplaced DEF IInv, ViewInv, ViewTypes

LEMMA LeaveKeepsView == Leave => ViewInv'
<1> SUFFICES ASSUME Leave PROVE ViewInv'
  OBVIOUS
<1>1. rules' = << >> /\ selected' = None /\ chosen' = None /\ collided' = FALSE /\ adrift' = FALSE
  BY DEF Leave
<1>2. << >> \in Seq(Rule) /\ Len(<< >>) = 0 /\ DOMAIN << >> = {} /\ Ids(<< >>) = {}
  BY DEF Ids
<1>3. ViewTypes'
  <2>1. selected' \in 0 .. MaxId /\ chosen' \in 0 .. Len(rules')
    BY <1>1, <1>2, RulesWorkspaceAssumption DEF None
  <2>2. collided' \in BOOLEAN /\ adrift' \in BOOLEAN
    BY <1>1
  <2> QED
    BY <1>1, <1>2, <2>1, <2>2 DEF ViewTypes
<1>4. FirstIndex(<< >>, None) = None
  BY <1>2 DEF FirstIndex
<1>5. Picked'
  BY <1>1, <1>2, <1>4 DEF Picked, SelectionNamesRule, EditsGoToChosenRule, Index, Unique
<1> QED
  BY <1>3, <1>5 DEF ViewInv

LEMMA AddKeepsView ==
    ASSUME ViewInv, AddRule
    PROVE  ViewInv'
<1>1. PICK new : new = [id |-> FreeId, text |-> FALSE]
  OBVIOUS
<1>2. FreeId \in Nat \ {0} /\ FreeId \notin Ids(rules) /\ FreeId <= MaxId
  BY FreeIdIs DEF ViewInv, ViewTypes, AddRule
<1>3. new \in Rule /\ new.id = FreeId /\ FreeId \in 0 .. MaxId
  BY <1>1, <1>2, RulesWorkspaceAssumption DEF Rule
<1>4. /\ rules' = Append(rules, new) /\ selected' = FreeId /\ chosen' = Len(rules) + 1
      /\ adrift' = FALSE
  BY <1>1 DEF AddRule
<1>5. collided' = ~Unique(rules)
  BY DEF AddRule
<1>6. /\ Len(rules) \in Nat /\ DOMAIN rules = 1 .. Len(rules)
      /\ rules' \in Seq(Rule) /\ Len(rules') = Len(rules) + 1
      /\ DOMAIN rules' = 1 .. Len(rules) + 1 /\ rules'[Len(rules) + 1] = new
      /\ \A i \in DOMAIN rules : rules'[i] = rules[i]
  BY <1>3, <1>4 DEF ViewInv, ViewTypes
<1>7. Unique(rules) => Unique(rules')
  <2>1. \A i \in DOMAIN rules : rules[i].id # FreeId
    BY <1>2 DEF Ids
  <2>2. \A i \in DOMAIN rules' : i \in DOMAIN rules \/ i = Len(rules) + 1
    BY <1>6
  <2> QED
    BY <1>3, <1>6, <2>1, <2>2 DEF Unique
<1>8. collided' \in BOOLEAN /\ (Unique(rules') \/ collided')
  BY <1>5, <1>7, Zenon
<1>9. Unique(rules') => FirstIndex(rules', selected') = chosen'
  <2>1. Len(rules) + 1 \in DOMAIN rules' /\ rules'[Len(rules) + 1].id = selected'
    BY <1>3, <1>4, <1>6
  <2> QED
    BY <1>4, <1>6, <2>1, FirstIndexOfUnique
<1>10. selected' \in Ids(rules')
  <2>1. Len(rules) + 1 \in DOMAIN rules' /\ rules'[Len(rules) + 1].id = selected'
    BY <1>3, <1>4, <1>6
  <2> QED
    BY <2>1 DEF Ids
<1>11. ViewTypes'
  <2>1. chosen' \in 0 .. Len(rules')
    BY <1>4, <1>6
  <2>2. adrift' \in BOOLEAN
    BY <1>4
  <2> QED
    BY <1>3, <1>4, <1>6, <1>8, <2>1, <2>2 DEF ViewTypes
<1>12. Picked'
  BY <1>8, <1>9, <1>10 DEF Picked, SelectionNamesRule, EditsGoToChosenRule, Index, Unique
<1> QED
  BY <1>11, <1>12 DEF ViewInv

(* A field of the rule that is found is typed: the list keeps its places.  *)
LEMMA FieldTyped ==
    ASSUME ViewInv, Index # None, NEW new \in Rule, rules' = [rules EXCEPT ![Index] = new]
    PROVE  /\ Index \in DOMAIN rules /\ rules[Index] \in Rule /\ rules[Index].id = selected
           /\ rules' \in Seq(Rule) /\ Len(rules') = Len(rules) /\ DOMAIN rules' = DOMAIN rules
           /\ rules'[Index] = new /\ new.id \in Ids(rules')
           /\ \A i \in DOMAIN rules : i # Index => rules'[i] = rules[i]
<1>1. rules \in Seq(Rule) /\ Len(rules) \in Nat /\ DOMAIN rules = 1 .. Len(rules)
  BY DEF ViewInv, ViewTypes
<1>2. Index \in DOMAIN rules /\ rules[Index].id = selected
  BY <1>1, FirstIndexIs DEF Index
<1>3. PICK n : n = Index
  OBVIOUS
<1>4. /\ rules' \in Seq(Rule) /\ Len(rules') = Len(rules) /\ DOMAIN rules' = DOMAIN rules
      /\ rules'[n] = new
      /\ \A i \in DOMAIN rules : i # n => rules'[i] = rules[i]
  BY <1>1, <1>2, <1>3
<1>5. new.id \in Ids(rules')
  BY <1>2, <1>3, <1>4 DEF Ids
<1> QED
  BY <1>1, <1>2, <1>3, <1>4, <1>5, IdsAreSmall

LEMMA SetIdKeepsView ==
    ASSUME ViewInv, NEW id \in 1 .. MaxId, SetId(id)
    PROVE  ViewInv'
<1>1. PICK new : new = [rules[Index] EXCEPT !.id = id]
  OBVIOUS
<1>2. Index # None /\ selected' = id /\ chosen' = chosen /\ adrift' = adrift
  BY DEF SetId
<1>3. rules' = [rules EXCEPT ![Index] = new]
  BY <1>1 DEF SetId
<1>4. new \in Rule /\ new.id = id /\ id \in 0 .. MaxId
  <2>1. rules[Index] \in Rule
    BY <1>2, FirstIndexIs, IdsAreSmall DEF ViewInv, ViewTypes, Index
  <2> QED
    BY <1>1, <2>1, RulesWorkspaceAssumption DEF Rule
<1>5. PICK n : n = Index
  OBVIOUS
<1>6. /\ n \in DOMAIN rules
      /\ rules' \in Seq(Rule) /\ Len(rules') = Len(rules) /\ DOMAIN rules' = DOMAIN rules
      /\ rules'[n] = new /\ id \in Ids(rules')
      /\ \A i \in DOMAIN rules : i # n => rules'[i] = rules[i]
  BY <1>2, <1>3, <1>4, <1>5, FieldTyped
<1>7. collided' = (collided \/ id \in Ids(rules))
  BY DEF SetId
<1>8. collided' \in BOOLEAN
  BY <1>7, Zenon
<1>9. ASSUME ~collided'
      PROVE  Unique(rules') /\ FirstIndex(rules', selected') = chosen'
  <2>1. ~collided /\ id \notin Ids(rules)
    BY <1>7, <1>9, Zenon
  <2>2. Unique(rules) /\ n = chosen
    BY <1>2, <1>5, <2>1, FoundIfUnique
  <2>3. \A i \in DOMAIN rules : rules[i].id # id
    BY <2>1 DEF Ids
  <2>4. Unique(rules')
    BY <1>4, <1>6, <2>2, <2>3 DEF Unique
  <2> QED
    BY <1>2, <1>4, <1>6, <2>2, <2>4, FirstIndexOfUnique
<1>10. ViewTypes'
  BY <1>2, <1>4, <1>6, <1>8 DEF ViewInv, ViewTypes
<1>11. Picked'
  BY <1>2, <1>6, <1>9 DEF Picked, SelectionNamesRule, EditsGoToChosenRule, Index, Unique
<1> QED
  BY <1>10, <1>11 DEF ViewInv

LEMMA SetTextKeepsView ==
    ASSUME ViewInv, SetText
    PROVE  ViewInv'
<1>1. PICK new : new = [rules[Index] EXCEPT !.text = ~@]
  OBVIOUS
<1>2. /\ Index # None /\ selected' = selected /\ chosen' = chosen /\ adrift' = adrift
      /\ collided' = collided
  BY DEF SetText
<1>3. rules' = [rules EXCEPT ![Index] = new]
  BY <1>1 DEF SetText
<1>4. rules[Index] \in Rule /\ rules[Index].id = selected
  BY <1>2, FirstIndexIs, IdsAreSmall DEF ViewInv, ViewTypes, Index
<1>5. new \in Rule /\ new.id = selected
  <2>1. (~rules[Index].text) \in BOOLEAN
    BY Zenon
  <2> QED
    BY <1>1, <1>4, <2>1 DEF Rule
<1>6. PICK n : n = Index
  OBVIOUS
<1>7. /\ n \in DOMAIN rules /\ rules[n].id = selected
      /\ rules' \in Seq(Rule) /\ Len(rules') = Len(rules) /\ DOMAIN rules' = DOMAIN rules
      /\ rules'[n] = new /\ selected \in Ids(rules')
      /\ \A i \in DOMAIN rules : i # n => rules'[i] = rules[i]
  BY <1>2, <1>3, <1>5, <1>6, FieldTyped
<1>8. Unique(rules) => Unique(rules')
  BY <1>5, <1>7 DEF Unique
<1>9. ASSUME ~collided
      PROVE  FirstIndex(rules', selected) = chosen
  <2>1. Unique(rules) /\ n = chosen
    BY <1>2, <1>6, <1>9, FoundIfUnique
  <2> QED
    BY <1>5, <1>7, <1>8, <2>1, FirstIndexOfUnique
<1>10. ViewTypes'
  BY <1>2, <1>7 DEF ViewInv, ViewTypes
<1>11. Picked'
  BY <1>2, <1>7, <1>8, <1>9 DEF ViewInv, Picked, SelectionNamesRule, EditsGoToChosenRule, Index, Unique
<1> QED
  BY <1>10, <1>11 DEF ViewInv

LEMMA DeleteKeepsView ==
    ASSUME ViewInv, DeleteSelectedRule
    PROVE  ViewInv'
<1>1. PICK n : n = Index
  OBVIOUS
<1>2. PICK rest : rest = RemoveAt(rules, n)
  OBVIOUS
<1>3. rules \in Seq(Rule) /\ n \in DOMAIN rules
  BY <1>1, FirstIndexIs DEF ViewInv, ViewTypes, DeleteSelectedRule, Index
<1>4. rest \in Seq(Rule)
  BY <1>2, <1>3, RemoveAtIs
<1>5. rules' = rest /\ Repicked /\ adrift' = adrift
  BY <1>1, <1>2 DEF DeleteSelectedRule
<1>6. selected' = IF rest = << >> THEN None
                  ELSE rest[IF n <= Len(rest) THEN n ELSE Len(rest)].id
  BY <1>1, <1>2 DEF DeleteSelectedRule, SelectAfterDelete
<1>7. selected' \in 0 .. MaxId /\ (selected' = None \/ selected' \in Ids(rest))
  <2>1. CASE rest = << >>
    BY <1>6, <2>1, RulesWorkspaceAssumption DEF None
  <2>2. CASE rest # << >>
    <3>1. /\ Len(rest) \in Nat \ {0} /\ DOMAIN rest = 1 .. Len(rest)
          /\ n \in Nat \ {0}
      BY <1>3, <1>4, <2>2, EmptySeq
    <3>2. (IF n <= Len(rest) THEN n ELSE Len(rest)) \in DOMAIN rest
      BY <3>1
    <3> QED
      BY <1>4, <1>6, <2>2, <3>2, IdsAreSmall
  <2> QED
    BY <2>1, <2>2
<1> QED
  BY <1>4, <1>5, <1>7, ListReplaced DEF ViewInv, ViewTypes

LEMMA SelectKeepsView ==
    ASSUME ViewInv, NEW i \in DOMAIN rules, Select(i)
    PROVE  ViewInv'
<1>1. rules \in Seq(Rule) /\ rules' = rules /\ Repicked /\ adrift' = FALSE /\ selected' = rules[i].id
  BY DEF Select, ViewInv, ViewTypes
<1>2. selected' \in 0 .. MaxId /\ selected' \in Ids(rules)
  BY <1>1, IdsAreSmall
<1>3. adrift' \in BOOLEAN
  BY <1>1
<1> QED
  BY <1>1, <1>2, <1>3, ListReplaced

LEMMA MoveKeepsView ==
    ASSUME ViewInv, NEW offset \in {-1, 1}, MoveSelectedRule(offset)
    PROVE  ViewInv'
<1>1. PICK n, m : n = Index /\ m = Index + offset
  OBVIOUS
<1>2. /\ selected' = selected /\ adrift' = adrift /\ collided' = collided
      /\ Index # None /\ m \in DOMAIN rules
      /\ chosen' = CASE chosen = n -> m
                     [] chosen = m -> n
                     [] OTHER -> chosen
  BY <1>1 DEF MoveSelectedRule
<1>3. rules' = [rules EXCEPT ![n] = rules[m], ![m] = rules[n]]
  BY <1>1 DEF MoveSelectedRule
<1>4. /\ rules \in Seq(Rule) /\ Len(rules) \in Nat /\ DOMAIN rules = 1 .. Len(rules)
      /\ n \in DOMAIN rules /\ rules[n].id = selected /\ n # m
      /\ \A i \in DOMAIN rules : rules[i] \in Rule
  BY <1>1, <1>2, FirstIndexIs, IdsAreSmall DEF ViewInv, ViewTypes, Index
<1>5. /\ rules' \in Seq(Rule) /\ Len(rules') = Len(rules) /\ DOMAIN rules' = DOMAIN rules
      /\ rules'[n] = rules[m] /\ rules'[m] = rules[n]
      /\ \A i \in DOMAIN rules : i # n /\ i # m => rules'[i] = rules[i]
  BY <1>2, <1>3, <1>4
<1>6. selected \in Ids(rules')
  BY <1>2, <1>4, <1>5 DEF Ids
<1>7. Unique(rules) => Unique(rules')
  BY <1>2, <1>4, <1>5 DEF Unique
<1>8. ASSUME ~collided
      PROVE  FirstIndex(rules', selected) = chosen'
  <2>1. Unique(rules) /\ n = chosen
    BY <1>1, <1>2, <1>8, FoundIfUnique
  <2>2. rules'[m].id = selected /\ chosen' = m
    BY <1>2, <1>4, <1>5, <2>1
  <2> QED
    BY <1>2, <1>5, <1>7, <2>1, <2>2, FirstIndexOfUnique
<1>9. ViewTypes'
  <2>1. chosen' \in 0 .. Len(rules')
    BY <1>2, <1>4, <1>5 DEF ViewInv, ViewTypes
  <2> QED
    BY <1>2, <1>5, <2>1 DEF ViewInv, ViewTypes
<1>10. Picked'
  BY <1>2, <1>6, <1>7, <1>8 DEF ViewInv, Picked, SelectionNamesRule, EditsGoToChosenRule, Index, Unique
<1> QED
  BY <1>9, <1>10 DEF ViewInv

LEMMA ViewNext ==
    ASSUME IInv, [Next]_vars
    PROVE  ViewInv'
<1> USE DEF IInv
<1>1. CASE UNCHANGED view
  BY <1>1 DEF view, ViewInv, ViewTypes, Picked, SelectionNamesRule, EditsGoToChosenRule, Index
<1>2. CASE UNCHANGED vars
  BY <1>1, <1>2 DEF vars
<1>3. CASE LoadRules \/ SaveRules \/ OtherReplaces
  BY <1>1, <1>3 DEF LoadRules, SaveRules, Call, OtherReplaces
<1>4. CASE Leave
  BY <1>4, LeaveKeepsView
<1>5. ASSUME NEW k \in Calls,
             ServeLoad(k) \/ ServeSave(k) \/ RefuseSave(k) \/ CallFails(k) \/ Over(k)
      PROVE  ViewInv'
  BY <1>1, <1>5 DEF ServeLoad, ServeSave, RefuseSave, CallFails, Over
<1>6. ASSUME NEW k \in Calls, LoadReturns(k) \/ SaveReturns(k)
      PROVE  ViewInv'
  BY <1>6, LoadKeepsView, SaveKeepsView
<1>7. CASE AddRule \/ SetText \/ DeleteSelectedRule
  BY <1>7, AddKeepsView, SetTextKeepsView, DeleteKeepsView
<1>8. CASE \/ \E id \in 1 .. MaxId : SetId(id)
           \/ \E offset \in {-1, 1} : MoveSelectedRule(offset)
           \/ \E i \in DOMAIN rules : Select(i)
  BY <1>8, SetIdKeepsView, MoveKeepsView, SelectKeepsView
<1> QED
  BY <1>2, <1>3, <1>4, <1>5, <1>6, <1>7, <1>8 DEF Next

-----------------------------------------------------------------------------
(* The calls.                                                              *)

(* One call is replaced by another; only a call that is the view's, or the *)
(* first of its own, may be the view's.                                    *)
LEMMA CallReplaced ==
    ASSUME CallTypes, OneOwn, NEW k \in Calls, NEW c \in CallRecords \cup {NoCall},
           calls' = [calls EXCEPT ![k] = c],
           c.own => \A j \in Calls : calls[j].own => j = k
    PROVE  /\ calls' \in [Calls -> CallRecords \cup {NoCall}]
           /\ calls'[k] = c /\ \A j \in Calls : j # k => calls'[j] = calls[j]
           /\ OneOwn'
<1>1. /\ calls' \in [Calls -> CallRecords \cup {NoCall}]
      /\ calls'[k] = c /\ \A j \in Calls : j # k => calls'[j] = calls[j]
  BY DEF CallTypes
<1>2. ASSUME NEW i \in Calls, NEW j \in Calls, calls'[i].own, calls'[j].own
      PROVE  i = j
  BY <1>1, <1>2 DEF OneOwn
<1> QED
  BY <1>1, <1>2 DEF OneOwn

LEMMA NoneOwned ==
    ASSUME CallTypes, ~IsLoading, ~IsSaving
    PROVE  \A k \in Calls : ~calls[k].own
<1> SUFFICES ASSUME NEW k \in Calls, calls[k].own
             PROVE  FALSE
  OBVIOUS
<1>1. calls[k].kind \in {"load", "save"}
  BY CallFields DEF CallRecords
<1> QED
  BY <1>1 DEF IsLoading, IsSaving, Own

LEMMA NewCallIs ==
    ASSUME ViewTypes, NEW kind \in {"load", "save"}
    PROVE  /\ NewCall(kind) \in CallRecords
           /\ NewCall(kind).own /\ ~NewCall(kind).edited
           /\ NewCall(kind).kind = kind /\ NewCall(kind).stage = "sent"
           /\ kind = "save" => NewCall(kind).snapshot = rules
<1>1. << >> \in Seq(Rule)
  OBVIOUS
<1> QED
  BY <1>1 DEF NewCall, CallRecords, ViewTypes

LEMMA CallKeeps ==
    ASSUME IInv, NEW kind \in {"load", "save"}, Call(kind), ~IsLoading, ~IsSaving
    PROVE  CallsInv'
<1> USE DEF IInv, CallsInv
<1>1. PICK k \in Calls : calls[k] = NoCall /\ calls' = [calls EXCEPT ![k] = NewCall(kind)]
  BY DEF Call
<1>2. PICK c : c = NewCall(kind)
  OBVIOUS
<1>3. /\ c \in CallRecords /\ c.own /\ ~c.edited /\ c.kind = kind /\ c.stage = "sent"
      /\ kind = "save" => c.snapshot = rules
  BY <1>2, NewCallIs DEF ViewInv
<1>4. /\ calls' \in [Calls -> CallRecords \cup {NoCall}]
      /\ calls'[k] = c /\ \A j \in Calls : j # k => calls'[j] = calls[j]
      /\ OneOwn'
  BY <1>1, <1>2, <1>3, NoneOwned, CallReplaced
<1>5. /\ UNCHANGED <<stored, foreign, seen, lost, edits>> /\ rules' = rules
  BY DEF Call, daemon, view
<1>6. CallTypes'
  BY <1>4, <1>5 DEF CallTypes
<1>7. SavesMatch'
  BY <1>3, <1>4, <1>5 DEF SavesMatch
<1>8. calls[k].stage # "answered"
  BY <1>1, CallFields
<1>9. StoredKnown'
  BY <1>3, <1>4, <1>5, <1>8 DEF StoredKnown
<1> QED
  BY <1>4, <1>6, <1>7, <1>9

LEMMA ServeLoadKeeps ==
    ASSUME IInv, NEW k \in Calls, ServeLoad(k)
    PROVE  CallsInv'
<1> USE DEF IInv, CallsInv
<1>1. PICK c : c = IF calls[k].own
                   THEN [calls[k] EXCEPT !.stage = "answered", !.answer = stored] ELSE NoCall
  OBVIOUS
<1>2. calls' = [calls EXCEPT ![k] = c] /\ calls[k].stage = "sent" /\ calls[k].kind = "load"
  BY <1>1 DEF ServeLoad, Answered, At
<1>3. /\ c \in CallRecords \cup {NoCall} /\ (c.own => calls[k].own)
      /\ c.own => c.kind = "load" /\ c.stage = "answered" /\ c.answer = stored
      /\ ~c.own => c = NoCall
  BY <1>1, <1>2, CallFields DEF CallTypes, CallRecords, NoCall
<1>4. /\ calls' \in [Calls -> CallRecords \cup {NoCall}]
      /\ calls'[k] = c /\ \A j \in Calls : j # k => calls'[j] = calls[j]
      /\ OneOwn'
  BY <1>2, <1>3, CallReplaced DEF OneOwn
<1>5. /\ UNCHANGED <<stored, foreign, seen, lost, edits>> /\ rules' = rules
  BY DEF ServeLoad, daemon, view
<1>6. CallTypes'
  BY <1>4, <1>5 DEF CallTypes
<1>7. SavesMatch'
  BY <1>3, <1>4, <1>5 DEF SavesMatch
<1>8. StoredKnown'
  <2>1. CASE foreign \/ lost
    BY <1>5, <2>1 DEF StoredKnown
  <2>2. CASE ~(foreign \/ lost)
    <3>1. \A j \in Calls : calls'[j] # NoCall => calls'[j].own
      BY <1>3, <1>4, <2>2 DEF StoredKnown
    <3>2. \A j \in Calls : calls'[j].stage = "answered" => calls'[j].answer = stored
      <4>1. c.stage = "answered" => c.answer = stored
        BY <1>3 DEF NoCall
      <4> QED
        BY <1>4, <2>2, <4>1 DEF StoredKnown
    <3>3. seen.by = "answer" =>
             \/ seen.rules = stored
             \/ \E j \in Calls : calls'[j].kind = "save" /\ calls'[j].stage = "answered"
      BY <1>2, <1>4, <2>2 DEF StoredKnown
    <3> QED
      BY <1>5, <3>1, <3>2, <3>3 DEF StoredKnown
  <2> QED
    BY <2>1, <2>2
<1> QED
  BY <1>4, <1>6, <1>7, <1>8

LEMMA ServeSaveKeeps ==
    ASSUME IInv, NEW k \in Calls, ServeSave(k)
    PROVE  CallsInv'
<1> USE DEF IInv, CallsInv
<1>1. PICK c : c = IF calls[k].own
                   THEN [calls[k] EXCEPT !.stage = "answered", !.answer = calls[k].snapshot]
                   ELSE NoCall
  OBVIOUS
<1>2. /\ calls' = [calls EXCEPT ![k] = c] /\ calls[k].stage = "sent" /\ calls[k].kind = "save"
      /\ stored' = calls[k].snapshot
  BY <1>1 DEF ServeSave, Answered, At
<1>3. /\ c \in CallRecords \cup {NoCall} /\ (c.own => calls[k].own)
      /\ c.own => /\ c.kind = "save" /\ c.stage = "answered"
                  /\ c.answer = calls[k].snapshot /\ c.snapshot = calls[k].snapshot
                  /\ c.edited = calls[k].edited
      /\ ~c.own => c = NoCall
  BY <1>1, <1>2, CallFields DEF CallTypes, CallRecords, NoCall
<1>4. /\ calls' \in [Calls -> CallRecords \cup {NoCall}]
      /\ calls'[k] = c /\ \A j \in Calls : j # k => calls'[j] = calls[j]
      /\ OneOwn'
  BY <1>2, <1>3, CallReplaced DEF OneOwn
<1>5. /\ UNCHANGED <<foreign, seen, lost, edits>> /\ rules' = rules
  BY DEF ServeSave, view
<1>6. CallTypes'
  BY <1>2, <1>4, <1>5, CallFields DEF CallTypes
<1>7. SavesMatch'
  <2>1. c.own /\ ~c.edited => c.snapshot = rules
    BY <1>2, <1>3 DEF SavesMatch
  <2>2. c.own => c.answer = c.snapshot
    BY <1>3
  <2> QED
    BY <1>4, <1>5, <2>1, <2>2 DEF SavesMatch
<1>8. StoredKnown'
  <2>1. CASE foreign \/ lost
    BY <1>5, <2>1 DEF StoredKnown
  <2>2. CASE ~foreign /\ ~lost
    <3>1. calls[k].own /\ \A j \in Calls : j # k => calls[j] = NoCall
      BY <1>2, <2>2, CallFields DEF StoredKnown, OneOwn
    <3>2. c.own
      BY <1>1, <3>1
    <3>3. \A j \in Calls : j # k => calls'[j] = NoCall /\ NoCall.stage # "answered"
      BY <1>4, <3>1 DEF NoCall
    <3> QED
      BY <1>2, <1>3, <1>4, <3>2, <3>3 DEF StoredKnown
  <2> QED
    BY <2>1, <2>2 DEF CallTypes
<1> QED
  BY <1>4, <1>6, <1>7, <1>8

LEMMA RefuseKeeps ==
    ASSUME IInv, NEW k \in Calls, RefuseSave(k)
    PROVE  CallsInv'
<1> USE DEF IInv, CallsInv
<1>1. PICK c : c = [calls[k] EXCEPT !.stage = "refused"]
  OBVIOUS
<1>2. calls' = [calls EXCEPT ![k] = c] /\ calls[k].stage = "sent" /\ calls[k].own
  BY <1>1 DEF RefuseSave, At
<1>3. /\ c \in CallRecords /\ c.own /\ c.stage = "refused"
      /\ c.kind = calls[k].kind /\ c.edited = calls[k].edited /\ c.snapshot = calls[k].snapshot
  BY <1>1, <1>2, CallFields DEF CallRecords
<1>4. /\ calls' \in [Calls -> CallRecords \cup {NoCall}]
      /\ calls'[k] = c /\ \A j \in Calls : j # k => calls'[j] = calls[j]
      /\ OneOwn'
  BY <1>2, <1>3, CallReplaced DEF OneOwn
<1>5. /\ UNCHANGED <<stored, foreign, seen, lost, edits>> /\ rules' = rules
  BY DEF RefuseSave, daemon, view
<1>6. CallTypes'
  BY <1>4, <1>5 DEF CallTypes
<1>7. SavesMatch'
  BY <1>2, <1>3, <1>4, <1>5 DEF SavesMatch
<1>8. StoredKnown'
  BY <1>2, <1>3, <1>4, <1>5 DEF StoredKnown
<1> QED
  BY <1>4, <1>6, <1>7, <1>8

LEMMA OtherReplacesKeeps ==
    ASSUME IInv, OtherReplaces
    PROVE  CallsInv'
<1>1. foreign' = TRUE /\ stored' \in Seq(Rule)
  BY RulesWorkspaceAssumption DEF OtherReplaces
<1>2. UNCHANGED <<calls, seen, lost, edits>> /\ rules' = rules
  BY DEF OtherReplaces, view
<1>3. CallTypes'
  BY <1>1, <1>2 DEF IInv, CallsInv, CallTypes
<1>4. OneOwn' /\ SavesMatch' /\ StoredKnown'
  BY <1>1, <1>2 DEF IInv, CallsInv, OneOwn, SavesMatch, StoredKnown
<1> QED
  BY <1>3, <1>4 DEF CallsInv

(* An answer returns: the view waits for nothing then.                     *)
LEMMA ReturnKeeps ==
    ASSUME IInv, NEW k \in Calls, LoadReturns(k) \/ SaveReturns(k)
    PROVE  CallsInv' /\ \A j \in Calls : ~calls'[j].own
<1> USE DEF IInv, CallsInv
<1>1. /\ calls' = [calls EXCEPT ![k] = NoCall] /\ calls[k].own /\ calls[k].stage = "answered"
      /\ seen' = [by |-> "answer", rules |-> calls[k].answer]
      /\ UNCHANGED <<stored, foreign, lost, edits>>
  BY DEF LoadReturns, SaveReturns, Returns, At, Ended, daemon
<1>2. ~NoCall.own /\ NoCall.stage # "answered"
  BY DEF NoCall
<1>3. /\ calls' \in [Calls -> CallRecords \cup {NoCall}]
      /\ calls'[k] = NoCall /\ \A j \in Calls : j # k => calls'[j] = calls[j]
      /\ OneOwn'
  BY <1>1, <1>2, CallReplaced
<1>4. \A j \in Calls : ~calls'[j].own
  BY <1>1, <1>2, <1>3 DEF OneOwn
<1>5. CallTypes'
  BY <1>1, <1>3, CallFields DEF CallTypes
<1>6. SavesMatch'
  BY <1>4 DEF SavesMatch
<1>7. StoredKnown'
  BY <1>1, <1>2, <1>3 DEF StoredKnown
<1> QED
  BY <1>3, <1>4, <1>5, <1>6, <1>7

LEMMA GivenUpIs ==
    ASSUME NEW call \in CallRecords \cup {NoCall}
    PROVE  /\ GivenUp(call) \in CallRecords \cup {NoCall}
           /\ ~GivenUp(call).own /\ GivenUp(call).stage # "answered"
           /\ GivenUp(call) # NoCall => call.kind = "save" /\ call # NoCall
<1>1. ~NoCall.own /\ NoCall.stage # "answered" /\ NoCall.kind # "save"
  BY DEF NoCall
<1>2. CASE ~(call.kind = "save" /\ call.stage = "sent")
  BY <1>1, <1>2 DEF GivenUp
<1>3. CASE call.kind = "save" /\ call.stage = "sent"
  <2>1. call \in CallRecords
    BY <1>1, <1>3
  <2>2. GivenUp(call) = [call EXCEPT !.own = FALSE, !.edited = FALSE]
    BY <1>3 DEF GivenUp
  <2>3. GivenUp(call) \in CallRecords /\ ~GivenUp(call).own /\ GivenUp(call).stage = "sent"
    BY <1>3, <2>1, <2>2 DEF CallRecords
  <2> QED
    BY <1>1, <1>3, <2>3
<1> QED
  BY <1>2, <1>3

LEMMA CallFailsKeeps ==
    ASSUME IInv, NEW k \in Calls, CallFails(k)
    PROVE  CallsInv'
<1> USE DEF IInv, CallsInv
<1>1. PICK c : c = GivenUp(calls[k])
  OBVIOUS
<1>2. calls' = [calls EXCEPT ![k] = c] /\ calls[k].own
  BY <1>1 DEF CallFails
<1>3. /\ c \in CallRecords \cup {NoCall} /\ ~c.own /\ c.stage # "answered"
      /\ c # NoCall => calls[k].kind = "save"
  BY <1>1, GivenUpIs, CallFields
<1>4. /\ calls' \in [Calls -> CallRecords \cup {NoCall}]
      /\ calls'[k] = c /\ \A j \in Calls : j # k => calls'[j] = calls[j]
      /\ OneOwn'
  BY <1>2, <1>3, CallReplaced
<1>5. /\ UNCHANGED <<stored, foreign, edits>> /\ rules' = rules
  BY DEF CallFails, daemon, view
<1>6. seen' = IF seen.by = "nothing" THEN [seen EXCEPT !.by = "failure"] ELSE seen
  BY DEF CallFails
<1>7. lost' = (lost \/ calls[k].kind = "save")
  BY DEF CallFails
<1>8. /\ seen' \in [by : {"nothing", "failure", "answer"}, rules : Seq(Rule)]
      /\ seen'.by = "answer" => seen' = seen
  BY <1>6 DEF CallTypes
<1>9. CallTypes'
  <2>1. lost' \in BOOLEAN
    BY <1>7, Zenon
  <2> QED
    BY <1>4, <1>5, <1>8, <2>1 DEF CallTypes
<1>10. SavesMatch'
  BY <1>3, <1>4, <1>5 DEF SavesMatch
<1>11. StoredKnown'
  <2>1. CASE foreign \/ lost'
    BY <1>5, <2>1 DEF StoredKnown
  <2>2. CASE ~foreign /\ ~lost'
    <3>1. ~lost /\ calls[k].kind # "save" /\ c = NoCall
      BY <1>3, <1>7, <2>2, Zenon
    <3> QED
      BY <1>3, <1>4, <1>5, <1>8, <2>2, <3>1 DEF StoredKnown
  <2> QED
    BY <2>1, <2>2, Zenon
<1> QED
  BY <1>4, <1>9, <1>10, <1>11

LEMMA OverKeeps ==
    ASSUME IInv, NEW k \in Calls, Over(k)
    PROVE  CallsInv'
<1> USE DEF IInv, CallsInv
<1>1. /\ calls' = [calls EXCEPT ![k] = NoCall] /\ calls[k] # NoCall
      /\ ~calls[k].own \/ calls[k].stage = "refused"
  BY DEF Over, Ended, At
<1>2. ~NoCall.own /\ NoCall.stage # "answered"
  BY DEF NoCall
<1>3. /\ calls' \in [Calls -> CallRecords \cup {NoCall}]
      /\ calls'[k] = NoCall /\ \A j \in Calls : j # k => calls'[j] = calls[j]
      /\ OneOwn'
  BY <1>1, <1>2, CallReplaced
<1>4. /\ UNCHANGED <<stored, foreign, seen, lost, edits>> /\ rules' = rules
  BY DEF Over, daemon, view
<1>5. CallTypes'
  BY <1>3, <1>4 DEF CallTypes
<1>6. SavesMatch'
  BY <1>2, <1>3, <1>4 DEF SavesMatch
<1>7. StoredKnown'
  BY <1>1, <1>2, <1>3, <1>4 DEF StoredKnown
<1> QED
  BY <1>3, <1>5, <1>6, <1>7

LEMMA LeaveKeeps ==
    ASSUME IInv, Leave
    PROVE  CallsInv'
<1> USE DEF IInv, CallsInv
<1>1. PICK k \in Calls :
         calls' = [j \in Calls |-> IF j = k THEN NewCall("load") ELSE GivenUp(calls[j])]
  BY DEF Leave
<1>2. PICK c : c = NewCall("load")
  OBVIOUS
<1>3. c \in CallRecords /\ c.own /\ c.kind = "load" /\ c.stage = "sent"
  BY <1>2, NewCallIs DEF ViewInv
<1>4. calls'[k] = c /\ \A j \in Calls : j # k => calls'[j] = GivenUp(calls[j])
  BY <1>1, <1>2
<1>5. \A j \in Calls :
         /\ GivenUp(calls[j]) \in CallRecords \cup {NoCall}
         /\ ~GivenUp(calls[j]).own /\ GivenUp(calls[j]).stage # "answered"
         /\ GivenUp(calls[j]) # NoCall => calls[j].kind = "save" /\ calls[j] # NoCall
  BY GivenUpIs, CallFields
<1>6. calls' \in [Calls -> CallRecords \cup {NoCall}]
  <2>1. \A j \in Calls : (IF j = k THEN c ELSE GivenUp(calls[j])) \in CallRecords \cup {NoCall}
    BY <1>3, <1>5
  <2> QED
    BY <1>1, <1>2, <2>1
<1>7. /\ UNCHANGED <<stored, foreign, edits>>
      /\ seen' = [by |-> "nothing", rules |-> << >>]
  BY DEF Leave, daemon
<1>8. lost' = (lost \/ IsSaving)
  BY DEF Leave
<1>9. CallTypes'
  <2>1. lost' \in BOOLEAN
    BY <1>8, Zenon
  <2>2. seen' \in [by : {"nothing", "failure", "answer"}, rules : Seq(Rule)]
    BY <1>7
  <2> QED
    BY <1>6, <1>7, <2>1, <2>2 DEF CallTypes
<1>10. OneOwn'
  BY <1>4, <1>5 DEF OneOwn
<1>11. SavesMatch'
  BY <1>3, <1>4, <1>5 DEF SavesMatch
<1>12. StoredKnown'
  <2>1. CASE foreign \/ lost'
    BY <1>7, <2>1 DEF StoredKnown
  <2>2. CASE ~foreign /\ ~lost'
    <3>1. ~lost /\ ~IsSaving
      BY <1>8, <2>2, Zenon
    <3>2. \A j \in Calls : calls[j] # NoCall => calls[j].own
      BY <2>2, <3>1 DEF StoredKnown
    <3>3. \A j \in Calls : GivenUp(calls[j]) = NoCall
      BY <1>5, <3>1, <3>2 DEF IsSaving, Own
    <3>4. \A j \in Calls : calls'[j] # NoCall => calls'[j].own
      BY <1>3, <1>4, <3>3
    <3>5. \A j \in Calls : calls'[j].stage # "answered"
      BY <1>3, <1>4, <1>5
    <3> QED
      BY <1>7, <3>4, <3>5 DEF StoredKnown
  <2> QED
    BY <2>1, <2>2, Zenon
<1> QED
  BY <1>9, <1>10, <1>11, <1>12

(* Whatever the user edits, a save on its way is noted.                    *)
LEMMA EditKeeps ==
    ASSUME IInv, Edit
    PROVE  CallsInv'
<1> USE DEF IInv, CallsInv
<1>1. /\ UNCHANGED <<stored, foreign, seen, lost>>
      /\ edits' = edits + 1 /\ edits < MaxEdits
  BY DEF Edit, daemon
<1>2. ASSUME NEW k \in Calls
      PROVE  /\ calls'[k] \in CallRecords \cup {NoCall}
             /\ calls[k] = NoCall <=> calls'[k] = NoCall
             /\ calls'[k].kind = calls[k].kind /\ calls'[k].stage = calls[k].stage
             /\ calls'[k].own = calls[k].own /\ calls'[k].answer = calls[k].answer
             /\ calls'[k].snapshot = calls[k].snapshot
             /\ calls[k].own /\ calls[k].kind = "save" => calls'[k].edited
  <2>1. PICK e : e = (calls[k].edited \/ k \in Own("save"))
    OBVIOUS
  <2>2. calls'[k] = [calls[k] EXCEPT !.edited = e]
    BY <2>1 DEF Edit
  <2>3. e \in BOOLEAN
    BY <2>1, Zenon
  <2>4. calls[k].own /\ calls[k].kind = "save" => e
    BY <2>1 DEF Own
  <2>5. CASE calls[k] = NoCall
    <3>1. ~calls[k].edited /\ k \notin Own("save")
      BY <2>5 DEF Own, NoCall
    <3>2. e = FALSE
      <4>1. ~e
        BY <2>1, <3>1
      <4> QED
        BY <2>3, <4>1, Zenon
    <3>3. [NoCall EXCEPT !.edited = FALSE] = NoCall
      <4> DEFINE Unedited == [kind : {"none"}, stage : {"none"}, own : {FALSE}, edited : {FALSE},
                              snapshot : Seq(Rule), answer : Seq(Rule)]
      <4>1. NoCall \in Unedited
        BY DEF NoCall
      <4>2. \A call \in Unedited : [call EXCEPT !.edited = FALSE] = call
        OBVIOUS
      <4> QED
        BY <4>1, <4>2
    <3>4. calls'[k] = NoCall
      BY <2>2, <2>5, <3>2, <3>3
    <3> QED
      BY <2>4, <2>5, <3>2, <3>4
  <2>6. CASE calls[k] # NoCall
    <3>1. calls[k] \in CallRecords
      BY <2>6, CallFields
    <3>2. calls'[k] \in CallRecords /\ NoCall \notin CallRecords
      BY <2>2, <2>3, <3>1 DEF CallRecords, NoCall
    <3>3. /\ calls'[k].kind = calls[k].kind /\ calls'[k].stage = calls[k].stage
          /\ calls'[k].own = calls[k].own /\ calls'[k].answer = calls[k].answer
          /\ calls'[k].snapshot = calls[k].snapshot /\ calls'[k].edited = e
      BY <2>2, <3>1 DEF CallRecords
    <3> QED
      BY <2>4, <2>6, <3>2, <3>3
  <2> QED
    BY <2>5, <2>6
<1>3. calls' \in [Calls -> CallRecords \cup {NoCall}]
  <2>1. calls' = [k \in Calls |-> calls'[k]]
    BY DEF Edit
  <2> QED
    BY <1>2, <2>1
<1>4. CallTypes'
  BY <1>1, <1>3, RulesWorkspaceAssumption DEF CallTypes
<1>5. OneOwn'
  BY <1>2 DEF OneOwn
<1>6. SavesMatch'
  BY <1>2 DEF SavesMatch
<1>7. StoredKnown'
  BY <1>1, <1>2 DEF StoredKnown
<1> QED
  BY <1>4, <1>5, <1>6, <1>7

LEMMA CallsNext ==
    ASSUME IInv, [Next]_vars
    PROVE  CallsInv'
<1>1. CASE UNCHANGED vars \/ \E i \in DOMAIN rules : Select(i)
  <2>1. UNCHANGED <<stored, foreign, rules, calls, seen, lost, edits>>
    BY <1>1 DEF vars, Select, daemon, view
  <2> QED
    BY <2>1 DEF IInv, CallsInv, CallTypes, OneOwn, SavesMatch, StoredKnown
<1>2. CASE LoadRules \/ SaveRules
  BY <1>2, CallKeeps DEF LoadRules, SaveRules
<1>3. CASE OtherReplaces \/ Leave
  BY <1>3, OtherReplacesKeeps, LeaveKeeps
<1>4. ASSUME NEW k \in Calls,
             \/ ServeLoad(k) \/ ServeSave(k) \/ RefuseSave(k) \/ CallFails(k)
             \/ LoadReturns(k) \/ SaveReturns(k) \/ Over(k)
      PROVE  CallsInv'
  BY <1>4, ServeLoadKeeps, ServeSaveKeeps, RefuseKeeps, CallFailsKeeps, ReturnKeeps, OverKeeps
<1>5. CASE \/ AddRule \/ SetText \/ DeleteSelectedRule
           \/ \E id \in 1 .. MaxId : SetId(id)
           \/ \E offset \in {-1, 1} : MoveSelectedRule(offset)
  <2>1. Edit
    BY <1>5 DEF AddRule, SetText, DeleteSelectedRule, SetId, MoveSelectedRule
  <2> QED
    BY <2>1, EditKeeps
<1> QED
  BY <1>1, <1>2, <1>3, <1>4, <1>5 DEF Next

LEMMA IInvInit == Init => IInv
<1> SUFFICES ASSUME Init PROVE IInv
  OBVIOUS
<1>1. /\ rules = << >> /\ selected = None /\ chosen = None /\ collided = FALSE /\ adrift = FALSE
      /\ seen = [by |-> "nothing", rules |-> << >>]
      /\ stored \in Foreign /\ foreign = FALSE /\ lost = FALSE /\ edits = 0
  BY DEF Init
<1>2. << >> \in Seq(Rule) /\ Len(<< >>) = 0 /\ DOMAIN << >> = {} /\ Ids(<< >>) = {}
  BY DEF Ids
<1>3. ViewTypes
  <2>1. selected \in 0 .. MaxId /\ chosen \in 0 .. Len(rules)
    BY <1>1, <1>2, RulesWorkspaceAssumption DEF None
  <2>2. collided \in BOOLEAN /\ adrift \in BOOLEAN
    BY <1>1
  <2> QED
    BY <1>1, <1>2, <2>1, <2>2 DEF ViewTypes
<1>4. Picked
  BY <1>1, <1>2 DEF Picked, SelectionNamesRule, EditsGoToChosenRule, Index, FirstIndex, Unique
<1>5. PICK k \in Calls : calls = [j \in Calls |-> IF j = k THEN NewCall("load") ELSE NoCall]
  BY DEF Init
<1>6. PICK c : c = NewCall("load")
  OBVIOUS
<1>7. /\ c \in CallRecords /\ c.own /\ c.kind = "load" /\ c.stage = "sent"
      /\ ~NoCall.own /\ NoCall.stage # "answered"
  BY <1>3, <1>6, NewCallIs DEF NoCall
<1>8. /\ calls \in [Calls -> CallRecords \cup {NoCall}]
      /\ calls[k] = c /\ \A j \in Calls : j # k => calls[j] = NoCall
  BY <1>5, <1>6, <1>7
<1>9. CallTypes
  <2>1. seen \in [by : {"nothing", "failure", "answer"}, rules : Seq(Rule)]
    BY <1>1, <1>2
  <2>2. foreign \in BOOLEAN /\ lost \in BOOLEAN
    BY <1>1
  <2> QED
    BY <1>1, <1>8, <2>1, <2>2, RulesWorkspaceAssumption DEF CallTypes
<1>10. OneOwn /\ SavesMatch
  BY <1>7, <1>8 DEF OneOwn, SavesMatch
<1>11. StoredKnown
  BY <1>1, <1>7, <1>8 DEF StoredKnown
<1> QED
  BY <1>3, <1>4, <1>9, <1>10, <1>11 DEF IInv, ViewInv, CallsInv

LEMMA Invariance == Spec => []IInv
<1>1. IInv /\ [Next]_vars => IInv'
  BY ViewNext, CallsNext DEF IInv
<1> QED
  BY IInvInit, <1>1, PTL DEF Spec

-----------------------------------------------------------------------------
(* The selection names the rule that the user picked, through edits of its *)
(* ID, moves, deletions and reloads, and what is typed goes to that rule,  *)
(* except where a save brought other rules back or two rules got one ID    *)
(* (RulesWorkspace.swift:291-307, 514-589).                                *)
THEOREM SelectionStaysFaithful == Spec => []SelectionIsFaithful
<1>1. IInv => SelectionIsFaithful
  <2> SUFFICES ASSUME IInv PROVE SelectionIsFaithful
    OBVIOUS
  <2>1. \A k \in Calls : calls[k].stage \in {"none", "sent", "refused", "answered"}
    BY CallFields DEF IInv, CallsInv, CallRecords
  <2>2. seen.rules \in Seq(Rule)
    BY DEF IInv, CallsInv, CallTypes
  <2>3. TypeOK
    BY <2>1, <2>2 DEF IInv, ViewInv, ViewTypes, CallsInv, CallTypes, OneOwn, TypeOK
  <2> QED
    BY <2>3 DEF IInv, ViewInv, Picked, SelectionIsFaithful
<1> QED
  BY Invariance, <1>1, PTL

(* A view that waits for nothing knows the daemon's rules, unless another  *)
(* client replaced them or a save was given up: no late answer undoes what *)
(* a later call did, for any number of views left with their calls on the  *)
(* way (RulesWorkspace.swift:23, 28, 560-595).                             *)
THEOREM StoredIsKnown == Spec => []KnowsWhatIsStored
<1>1. IInv => KnowsWhatIsStored
  <2> SUFFICES ASSUME IInv, seen.by = "answer", ~IsLoading, ~IsSaving, ~foreign, ~lost
               PROVE  seen.rules = stored
    BY DEF KnowsWhatIsStored
  <2>1. \A k \in Calls : ~calls[k].own
    BY NoneOwned DEF IInv, CallsInv
  <2>2. \A k \in Calls : calls[k] = NoCall /\ NoCall.stage # "answered"
    BY <2>1 DEF IInv, CallsInv, StoredKnown, NoCall
  <2> QED
    BY <2>2 DEF IInv, CallsInv, StoredKnown
<1> QED
  BY Invariance, <1>1, PTL

(* A save that returns takes back no edit that was made before it: what    *)
(* the daemon answers is what the view sent, and still shows unless the    *)
(* user has gone on editing (RulesWorkspace.swift:581-595).                *)
THEOREM SavesKeepEdits == Spec => SaveKeepsEdits
<1>1. IInv /\ [Next]_vars =>
         [\A k \in Calls : SaveReturns(k) /\ ~calls[k].edited => rules' = rules]_vars
  <2> SUFFICES ASSUME IInv, NEW k \in Calls, SaveReturns(k), ~calls[k].edited
               PROVE  rules' = rules
    OBVIOUS
  <2>1. /\ calls[k].own /\ calls[k].kind = "save" /\ calls[k].stage = "answered"
        /\ rules' = calls[k].answer
    BY DEF SaveReturns, Returns, At
  <2> QED
    BY <2>1 DEF IInv, CallsInv, SavesMatch
<1> QED
  BY Invariance, <1>1, PTL DEF Spec, SaveKeepsEdits

=============================================================================
