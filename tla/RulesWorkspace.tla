--------------------------- MODULE RulesWorkspace ---------------------------
(***************************************************************************)
(* The rule editor of the application                                      *)
(* (macos/Sources/ProxymanCloneApp/RulesWorkspace.swift): it loads the     *)
(* daemon's rules, the user edits a copy, also while a call is on its way, *)
(* and saves it over whatever the daemon has then.  Leaving the workspace  *)
(* discards its state, not its calls.                                      *)
(*                                                                         *)
(* The daemon is an atomic register, as RuleStore shows of a replacement   *)
(* that is acknowledged.                                                   *)
(* A call that failed may still have its effect, as in ControlChannel.     *)
(***************************************************************************)
EXTENDS Integers, Sequences, SequencesExt

CONSTANTS
    MaxId,             \* rule IDs are numbered: "rule-1" and so on
    MaxEdits,          \* bounds the model
    Calls,             \* what a call can be; bounds those on their way
    Foreign            \* rules that another client may put in place

Rule == [id : 1 .. MaxId, text : BOOLEAN]

ASSUME RulesWorkspaceAssumption ==
    /\ MaxId \in Nat /\ MaxEdits \in Nat
    /\ Foreign \subseteq Seq(Rule)

VARIABLES
    stored,            \* the daemon's rules
    foreign,           \* whether another client has replaced them
    rules, selected,   \* the copy, and selectedRuleID
    calls,             \* the calls on their way, and NoCall
    seen,              \* ghost: what the view last got from the daemon
    lost,              \* ghost: a save was not waited for to its end
    chosen,            \* ghost: the place of the rule the user picked
    collided,          \* ghost: since then two rules had one ID
    adrift,            \* ghost: a save returned rules that were edited since
    edits              \* bounds the model

daemon == <<stored, foreign>>
view == <<rules, selected, chosen, collided, adrift>>
vars == <<daemon, view, calls, seen, lost, edits>>

None == 0

(* isLoading and isSaving: the view's own calls of a kind.                 *)
Own(kind) == {k \in Calls : calls[k].own /\ calls[k].kind = kind}
IsLoading == Own("load") # {}
IsSaving == Own("save") # {}

Ids(list) == {list[i].id : i \in DOMAIN list}
Unique(list) == \A i, j \in DOMAIN list : list[i].id = list[j].id => i = j

(* rules.firstIndex(where:), None if there is no such rule.                *)
FirstIndex(list, id) ==
    IF id \in Ids(list)
    THEN CHOOSE i \in DOMAIN list : list[i].id = id /\ \A j \in 1 .. i - 1 : list[j].id # id
    ELSE None

(* "edited" is a ghost: the user has edited since the call was made.       *)
NewCall(kind) ==
    [kind |-> kind, stage |-> "sent", own |-> TRUE, edited |-> FALSE,
     snapshot |-> IF kind = "save" THEN rules ELSE << >>, answer |-> << >>]

NoCall ==
    [kind |-> "none", stage |-> "none", own |-> FALSE, edited |-> FALSE,
     snapshot |-> << >>, answer |-> << >>]

(* The view appears, and loads the rules as it has none.                   *)
Init ==
    /\ stored \in Foreign /\ foreign = FALSE
    /\ rules = << >> /\ selected = None /\ chosen = None /\ collided = FALSE /\ adrift = FALSE
    /\ \E k \in Calls : calls = [j \in Calls |-> IF j = k THEN NewCall("load") ELSE NoCall]
    /\ seen = [by |-> "nothing", rules |-> << >>]
    /\ lost = FALSE /\ edits = 0

-----------------------------------------------------------------------------
(* Calls.                                                                  *)

Call(kind) ==
    /\ \E k \in Calls :
          calls[k] = NoCall /\ calls' = [calls EXCEPT ![k] = NewCall(kind)]
    /\ UNCHANGED <<daemon, view, seen, lost, edits>>

LoadRules == ~IsLoading /\ ~IsSaving /\ Call("load")

(* Faulty: the button is not disabled while the rules are loaded.          *)
SaveWhileLoading == ~IsSaving /\ Call("save")

SaveRules == ~IsLoading /\ ~IsSaving /\ Call("save")

At(k, stage) == calls[k].stage = stage

(* An answer that nobody waits for is left unread.                         *)
Answered(k, list) ==
    calls' = [calls EXCEPT ![k] =
                 IF calls[k].own
                 THEN [calls[k] EXCEPT !.stage = "answered", !.answer = list] ELSE NoCall]

(* The answer to a load is what the daemon has.                            *)
ServeLoad(k) ==
    /\ At(k, "sent") /\ calls[k].kind = "load"
    /\ Answered(k, stored)
    /\ UNCHANGED <<daemon, view, seen, lost, edits>>

(* The answer to a save is the saved rules themselves.                     *)
ServeSave(k) ==
    /\ At(k, "sent") /\ calls[k].kind = "save" /\ Unique(calls[k].snapshot)
    /\ stored' = calls[k].snapshot
    /\ Answered(k, calls[k].snapshot)
    /\ UNCHANGED <<foreign, view, seen, lost, edits>>

(* validate_rewrite_rules() refuses two rules with one ID.                 *)
RefuseSave(k) ==
    /\ At(k, "sent") /\ calls[k].kind = "save" /\ ~Unique(calls[k].snapshot) /\ calls[k].own
    /\ calls' = [calls EXCEPT ![k].stage = "refused"]
    /\ UNCHANGED <<daemon, view, seen, lost, edits>>

OtherReplaces ==
    /\ ~foreign /\ foreign' = TRUE
    /\ stored' \in Foreign \ {stored}
    /\ UNCHANGED <<view, calls, seen, lost, edits>>

-----------------------------------------------------------------------------
(* What the view does with an answer.                                      *)

Ended(k) == calls' = [calls EXCEPT ![k] = NoCall]

(* The ghost follows the selection when rules are replaced.                *)
Repicked ==
    /\ chosen' = FirstIndex(rules', selected')
    /\ collided' = ~Unique(rules')

Reselect(loaded) ==
    selected' = IF selected \in Ids(loaded) THEN selected
                ELSE IF loaded = << >> THEN None ELSE loaded[1].id

Returns(k, kind) == At(k, "answered") /\ calls[k].own /\ calls[k].kind = kind

LoadReturns(k) ==
    /\ Returns(k, "load") /\ Ended(k)
    /\ rules' = calls[k].answer
    /\ Reselect(calls[k].answer)
    /\ Repicked /\ adrift' = FALSE
    /\ seen' = [by |-> "answer", rules |-> calls[k].answer]
    /\ UNCHANGED <<daemon, lost, edits>>

(* The selection stays, whether or not it names a rule of the answer.      *)
SaveReturns(k) ==
    /\ Returns(k, "save") /\ Ended(k)
    /\ rules' = calls[k].answer
    /\ UNCHANGED selected
    /\ Repicked /\ adrift' = (adrift \/ rules' # rules)
    /\ seen' = [by |-> "answer", rules |-> calls[k].answer]
    /\ UNCHANGED <<daemon, lost, edits>>

(* What becomes of a call that is not waited for: a save that was sent may *)
(* still reach the daemon.                                                 *)
GivenUp(call) ==
    IF call.kind = "save" /\ call.stage = "sent"
    THEN [call EXCEPT !.own = FALSE, !.edited = FALSE] ELSE NoCall

(* Only the status text changes, and the buttons are enabled again.        *)
CallFails(k) ==
    /\ calls[k].own
    /\ calls' = [calls EXCEPT ![k] = GivenUp(@)]
    /\ seen' = IF seen.by = "nothing" THEN [seen EXCEPT !.by = "failure"] ELSE seen
    /\ lost' = (lost \/ calls[k].kind = "save")
    /\ UNCHANGED <<daemon, view, edits>>

(* A save that nobody waits for is lost or refused; one that the daemon    *)
(* refused is over when the view has been told.                            *)
Over(k) ==
    /\ calls[k] # NoCall /\ (~calls[k].own \/ At(k, "refused"))
    /\ Ended(k)
    /\ UNCHANGED <<daemon, view, seen, lost, edits>>

(* The workspace is left and entered again; another view appears.          *)
Leave ==
    /\ rules' = << >> /\ selected' = None /\ chosen' = None
    /\ collided' = FALSE /\ adrift' = FALSE
    /\ seen' = [by |-> "nothing", rules |-> << >>]
    /\ lost' = (lost \/ IsSaving)
    /\ \E k \in Calls :
          /\ GivenUp(calls[k]) = NoCall
          /\ calls' = [j \in Calls |-> IF j = k THEN NewCall("load") ELSE GivenUp(calls[j])]
    /\ UNCHANGED <<daemon, edits>>

-----------------------------------------------------------------------------
(* What the user does, at any time.                                        *)

Edit ==
    /\ edits < MaxEdits /\ edits' = edits + 1
    /\ calls' = [k \in Calls |-> [calls[k] EXCEPT !.edited = @ \/ k \in Own("save")]]
    /\ UNCHANGED <<daemon, seen, lost>>

(* Faulty: the number of rules is taken for a free ID.                     *)
CountedId == Len(rules) + 1

(* addRule() counts on from there.                                         *)
FreeId ==
    CHOOSE id \in Len(rules) + 1 .. 2 * Len(rules) + 1 :
        /\ id \notin Ids(rules)
        /\ \A n \in Len(rules) + 1 .. id - 1 : n \in Ids(rules)

AddRule ==
    /\ Edit /\ FreeId <= MaxId
    /\ rules' = Append(rules, [id |-> FreeId, text |-> FALSE])
    /\ selected' = FreeId /\ chosen' = Len(rules) + 1
    /\ collided' = ~Unique(rules) /\ adrift' = FALSE

Index == FirstIndex(rules, selected)

(* A field of the selected rule is typed.  The fields are those of the     *)
(* first rule with its ID, and the selection follows the ID.               *)
SetId(id) ==
    /\ Edit /\ Index # None /\ id # selected
    /\ rules' = [rules EXCEPT ![Index].id = id]
    /\ selected' = id /\ collided' = (collided \/ id \in Ids(rules))
    /\ UNCHANGED <<chosen, adrift>>

SetText ==
    /\ Edit /\ Index # None
    /\ rules' = [rules EXCEPT ![Index].text = ~@]
    /\ UNCHANGED <<selected, chosen, collided, adrift>>

(* The rule that moved to its place, or else the last one.                 *)
SelectAfterDelete(index, rest) ==
    selected' = IF rest = << >> THEN None
                ELSE rest[IF index <= Len(rest) THEN index ELSE Len(rest)].id

DeleteSelectedRule ==
    /\ Edit /\ Index # None
    /\ rules' = RemoveAt(rules, Index)
    /\ SelectAfterDelete(Index, rules')
    /\ Repicked /\ UNCHANGED adrift

MoveSelectedRule(offset) ==
    /\ Edit /\ Index # None /\ Index + offset \in DOMAIN rules
    /\ rules' = [rules EXCEPT ![Index] = rules[Index + offset], ![Index + offset] = rules[Index]]
    /\ chosen' = CASE chosen = Index -> Index + offset
                   [] chosen = Index + offset -> Index
                   [] OTHER -> chosen
    /\ UNCHANGED <<selected, collided, adrift>>

Select(i) ==
    /\ i \in DOMAIN rules /\ rules[i].id # selected
    /\ UNCHANGED rules /\ selected' = rules[i].id
    /\ Repicked /\ adrift' = FALSE
    /\ UNCHANGED <<daemon, calls, seen, lost, edits>>

-----------------------------------------------------------------------------
Next ==
    \/ LoadRules \/ SaveRules \/ OtherReplaces \/ Leave
    \/ \E k \in Calls :
          \/ ServeLoad(k) \/ ServeSave(k) \/ RefuseSave(k) \/ CallFails(k)
          \/ LoadReturns(k) \/ SaveReturns(k) \/ Over(k)
    \/ AddRule \/ SetText \/ DeleteSelectedRule
    \/ \E id \in 1 .. MaxId : SetId(id)
    \/ \E offset \in {-1, 1} : MoveSelectedRule(offset)
    \/ \E i \in DOMAIN rules : Select(i)

Spec == Init /\ [][Next]_vars

-----------------------------------------------------------------------------
(* A view waits for one call at a time.                                    *)
TypeOK ==
    /\ stored \in Seq(Rule) /\ rules \in Seq(Rule) /\ seen.rules \in Seq(Rule)
    /\ selected \in 0 .. MaxId /\ chosen \in 0 .. Len(rules)
    /\ edits \in 0 .. MaxEdits
    /\ \A k \in Calls : calls[k].stage \in {"none", "sent", "refused", "answered"}
    /\ \A j, k \in Calls : calls[j].own /\ calls[k].own => j = k

(* While no call is on its way the view knows what the daemon has, unless  *)
(* another client replaced it or a save was given up: no answer arrives    *)
(* late and undoes a later one, because either button is disabled while a  *)
(* call is on its way (RulesWorkspace.swift:23, 28, 560-595).              *)
KnowsWhatIsStored ==
    seen.by = "answer" /\ ~IsLoading /\ ~IsSaving => seen.rules = stored \/ foreign \/ lost

(* A save takes no edit back that was made before it: when it returns, the *)
(* view shows what it showed, unless the user has gone on editing          *)
(* (RulesWorkspace.swift:581-595).                                         *)
SaveKeepsEdits ==
    [][ \A k \in Calls : SaveReturns(k) /\ ~calls[k].edited => rules' = rules ]_vars

(* The selection names a rule, through edits of its ID, deletions and      *)
(* reloads; only a save that returns other rules than are shown leaves it  *)
(* behind (RulesWorkspace.swift:291-307, 526-532, 568-573, 589).           *)
SelectionNamesRule == selected = None \/ selected \in Ids(rules) \/ adrift

(* What the user types goes to the rule that was picked, which is found by *)
(* its ID each time: only typing another rule's ID, even on the way to a   *)
(* longer one, makes it another rule                                       *)
(* (RulesWorkspace.swift:291-307, 514-524).                                *)
EditsGoToChosenRule == Index # None => Index = chosen \/ collided

(* The selection is what the user picked and sees, although it is kept as  *)
(* an ID that the user may edit (RulesWorkspace.swift:291-307, 514-589).   *)
SelectionIsFaithful == TypeOK /\ SelectionNamesRule /\ EditsGoToChosenRule
=============================================================================
