----------------------------- MODULE RulesProofs -----------------------------
(***************************************************************************)
(* Proofs about Rules, for every list of rules, every message and any      *)
(* number of replacements; about RuleStore, for every set of clients and   *)
(* of rule sets and any number of commands and crashes; and about both.    *)
(***************************************************************************)
EXTENDS Rules, RuleStore, SequenceTheorems, WellFoundedInduction, TLAPS

-----------------------------------------------------------------------------
(* Induction, and what it yields about folds.                              *)

(* What holds of 0 and passes from each number to the next holds up to any *)
(* bound: there is no least number of which it fails.                      *)
LEMMA UpTo ==
    ASSUME NEW len \in Nat, NEW Good,
           0 \in Good, \A n \in 1 .. len : n - 1 \in Good => n \in Good
    PROVE  0 .. len \subseteq Good
<1> DEFINE R   == {ss \in Nat \X Nat : ss[1] < ss[2]}
           Bad == {n \in 0 .. len : n \notin Good}
<1>1. IsWellFoundedOn(R, Nat)
  BY NatLessThanWellFounded DEF OpToRel
<1>2. SUFFICES ASSUME Bad # {} PROVE FALSE
  OBVIOUS
<1>3. Bad \in SUBSET Nat
  OBVIOUS
<1>4. PICK m \in Bad : \A n \in Bad : ~ (<<n, m>> \in R)
  <2> HIDE DEF R, Bad
  <2> QED BY <1>1, <1>2, <1>3, WFMin
<1>5. m \in 1 .. len /\ m - 1 \in 0 .. len /\ m - 1 < m /\ m - 1 \in Nat
  OBVIOUS
<1>6. m - 1 \in Good
  <2>1. <<m - 1, m>> \in R
    BY <1>5
  <2>2. m - 1 \notin Bad
    BY <1>4, <2>1
  <2> QED BY <1>5, <2>2
<1> QED BY <1>5, <1>6

(* The equation of a fold over the numbers up to a bound, greatest last.   *)
Folds(g, base, len, step) ==
    \A s \in SUBSET (1 .. len) :
        g[s] = IF s = {} THEN base ELSE step[<<g[s \ {Max(s)}], Max(s)>>]

(* It has a solution.                                                      *)
LEMMA FoldExists ==
    ASSUME NEW S, NEW base \in S, NEW len \in Nat, NEW step \in [S \X (1 .. len) -> S]
    PROVE  \E g \in [SUBSET (1 .. len) -> S] : Folds(g, base, len, step)
<1> DEFINE Fold(n, g) == Folds(g, base, n, step)
           Good == {n \in 0 .. len : \E g \in [SUBSET (1 .. n) -> S] : Fold(n, g)}
<1>1. 0 \in Good
  <2> DEFINE g == [s \in SUBSET (1 .. 0) |-> base]
  <2>1. g \in [SUBSET (1 .. 0) -> S] /\ \A s \in SUBSET (1 .. 0) : s = {}
    OBVIOUS
  <2>2. Fold(0, g)
    BY <2>1 DEF Folds
  <2> HIDE DEF g, Fold
  <2>3. \E h \in [SUBSET (1 .. 0) -> S] : Fold(0, h)
    BY <2>1, <2>2
  <2>4. 0 \in 0 .. len
    OBVIOUS
  <2> QED BY <2>3, <2>4, Zenon
<1>2. ASSUME NEW n \in 1 .. len, n - 1 \in Good
      PROVE  n \in Good
  <2>1. PICK g \in [SUBSET (1 .. n - 1) -> S] : Fold(n - 1, g)
    BY <1>2
  <2> DEFINE h == [s \in SUBSET (1 .. n) |->
                      IF n \in s THEN step[<<g[s \ {n}], n>>] ELSE g[s]]
  <2>2. ASSUME NEW s \in SUBSET (1 .. n)
        PROVE  /\ s \ {n} \in SUBSET (1 .. n - 1)
               /\ n \notin s => s \in SUBSET (1 .. n - 1)
               /\ n \in s => Max(s) = n
    <3>1. ASSUME n \in s PROVE Max(s) = n
      <4>1. \A y \in s : n >= y
        OBVIOUS
      <4>2. Max(s) \in s /\ \A y \in s : Max(s) >= y
        BY <3>1, <4>1, Zenon DEF Max
      <4>3. Max(s) \in 1 .. n /\ Max(s) >= n
        BY <3>1, <4>2
      <4> QED BY <4>3
    <3>2. s \ {n} \in SUBSET (1 .. n - 1)
      OBVIOUS
    <3>3. n \notin s => s \in SUBSET (1 .. n - 1)
      BY <3>2
    <3> QED BY <3>1, <3>2, <3>3
  <2>3. h \in [SUBSET (1 .. n) -> S]
    <3>1. ASSUME NEW s \in SUBSET (1 .. n)
          PROVE  (IF n \in s THEN step[<<g[s \ {n}], n>>] ELSE g[s]) \in S
      BY <2>1, <2>2
    <3> QED BY <3>1
  <2>4. ASSUME NEW s \in SUBSET (1 .. n)
        PROVE  h[s] = IF s = {} THEN base ELSE step[<<h[s \ {Max(s)}], Max(s)>>]
    <3>1. CASE n \in s
      <4>1. Max(s) = n /\ s \ {n} \in SUBSET (1 .. n) /\ n \notin s \ {n}
        BY <2>2, <3>1
      <4>2. h[s] = step[<<g[s \ {n}], n>>] /\ h[s \ {n}] = g[s \ {n}]
        BY <3>1, <4>1
      <4> QED BY <3>1, <4>1, <4>2
    <3>2. CASE n \notin s
      <4>1. s \ {Max(s)} \in SUBSET (1 .. n) /\ n \notin s \ {Max(s)}
        BY <3>2
      <4>2. h[s] = g[s] /\ h[s \ {Max(s)}] = g[s \ {Max(s)}]
        BY <3>2, <4>1
      <4> QED BY <2>1, <2>2, <3>2, <4>2 DEF Folds
    <3> QED BY <3>1, <3>2
  <2>5. Fold(n, h)
    BY <2>4 DEF Folds
  <2> HIDE DEF h, Fold
  <2> QED BY <2>3, <2>5
<1> HIDE DEF Good
<1>3. len \in Good
  BY <1>1, <1>2, UpTo
<1> QED BY <1>3 DEF Good

(* The greatest of some numbers up to a bound is one of them, and that of  *)
(* the first n numbers is n.                                               *)
LEMMA Greatest ==
    ASSUME NEW len \in Nat
    PROVE  /\ \A s \in SUBSET (1 .. len) : s # {} => Max(s) \in s
           /\ 1 .. 0 = {}
           /\ \A n \in 1 .. len : /\ 1 .. n \in SUBSET (1 .. len) /\ 1 .. n # {}
                                  /\ Max(1 .. n) = n /\ (1 .. n) \ {n} = 1 .. n - 1
<1> DEFINE Has(s) == \E x \in s : \A y \in s : x >= y
           Good == {n \in 0 .. len : \A s \in SUBSET (1 .. n) : s # {} => Has(s)}
<1>1. 0 \in Good
  <2>1. \A s \in SUBSET (1 .. 0) : s = {}
    OBVIOUS
  <2>2. 0 \in 0 .. len
    OBVIOUS
  <2> QED BY <2>1, <2>2, Zenon
<1>2. ASSUME NEW n \in 1 .. len, n - 1 \in Good
      PROVE  n \in Good
  <2>1. ASSUME NEW s \in SUBSET (1 .. n), s # {}
        PROVE  Has(s)
    <3>1. CASE n \in s
      BY <3>1
    <3>2. CASE n \notin s
      <4>1. s \in SUBSET (1 .. n - 1)
        BY <3>2
      <4> QED BY <1>2, <2>1, <4>1
    <3> QED BY <3>1, <3>2
  <2> QED BY <2>1
<1>3. len \in Good
  <2> HIDE DEF Good
  <2> QED BY <1>1, <1>2, UpTo
<1>4. ASSUME NEW s \in SUBSET (1 .. len), s # {}
      PROVE  Max(s) \in s /\ \A y \in s : Max(s) >= y
  BY <1>3, <1>4, Zenon DEF Max
<1>5. ASSUME NEW n \in 1 .. len
      PROVE  /\ 1 .. n \in SUBSET (1 .. len) /\ 1 .. n # {}
             /\ Max(1 .. n) = n /\ (1 .. n) \ {n} = 1 .. n - 1
  <2>1. 1 .. n \in SUBSET (1 .. len) /\ n \in 1 .. n
    OBVIOUS
  <2>2. Max(1 .. n) \in 1 .. n /\ Max(1 .. n) >= n
    BY <1>4, <2>1
  <2>3. Max(1 .. n) = n
    BY <2>2
  <2>4. (1 .. n) \ {n} = 1 .. n - 1
    OBVIOUS
  <2> QED BY <2>1, <2>3, <2>4
<1> QED BY <1>4, <1>5

(* The same equation with steps that need not be those of a function.      *)
Unfolds(it, base, len, next) ==
    \A s \in SUBSET (1 .. len) : it[s] = IF s = {} THEN base ELSE next[s]

StepsBy(it, S, len, step, next) ==
    \A s \in SUBSET (1 .. len) :
        s # {} /\ it[s \ {Max(s)}] \in S => next[s] = step[<<it[s \ {Max(s)}], Max(s)>>]

(* One value after the other, up to the result.                            *)
Runs(f, base, len, step, result) ==
    /\ f[0] = base /\ f[len] = result
    /\ \A n \in 1 .. len : f[n] = step[<<f[n - 1], n>>]

(* Whatever satisfies the equation of a fold goes through one value per    *)
(* element, if on the values it goes through the steps are a function's.   *)
LEMMA FoldRuns ==
    ASSUME NEW S, NEW base \in S, NEW len \in Nat, NEW step \in [S \X (1 .. len) -> S],
           NEW next, NEW it, Unfolds(it, base, len, next), StepsBy(it, S, len, step, next)
    PROVE  \E f \in [0 .. len -> S] : Runs(f, base, len, step, it[1 .. len])
<1> DEFINE f    == [n \in 0 .. len |-> it[1 .. n]]
           Good == {n \in 0 .. len : f[n] \in S}
<1>1. 0 \in 0 .. len /\ len \in 0 .. len /\ \A n \in 1 .. len : n \in 0 .. len /\ n - 1 \in 0 .. len
  OBVIOUS
<1>2. f[0] = base /\ f[len] = it[1 .. len]
  BY <1>1, Greatest DEF Unfolds
<1>3. ASSUME NEW n \in 1 .. len, f[n - 1] \in S
      PROVE  f[n] = step[<<f[n - 1], n>>]
  <2>1. /\ 1 .. n \in SUBSET (1 .. len) /\ 1 .. n # {}
        /\ Max(1 .. n) = n /\ (1 .. n) \ {Max(1 .. n)} = 1 .. n - 1
    BY Greatest
  <2>2. f[n] = it[1 .. n] /\ f[n - 1] = it[1 .. n - 1]
    BY <1>1
  <2> HIDE DEF f
  <2> DEFINE t == 1 .. n
             u == 1 .. n - 1
  <2>3. t \in SUBSET (1 .. len) /\ t # {} /\ Max(t) = n /\ t \ {Max(t)} = u
    BY <2>1
  <2>4. f[n] = it[t] /\ f[n - 1] = it[u]
    BY <2>2
  <2> HIDE DEF t, u
  <2>5. it[t] = next[t]
    BY <2>3 DEF Unfolds
  <2>6. next[t] = step[<<it[t \ {Max(t)}], Max(t)>>]
    BY <1>3, <2>3, <2>4 DEF StepsBy
  <2> QED BY <2>3, <2>4, <2>5, <2>6
<1>4. 0 \in Good
  BY <1>1, <1>2
<1>5. ASSUME NEW n \in 1 .. len, n - 1 \in Good
      PROVE  n \in Good
  <2>1. f[n - 1] \in S
    BY <1>5
  <2>2. f[n] = step[<<f[n - 1], n>>]
    BY <1>3, <2>1
  <2> HIDE DEF f
  <2> QED BY <1>1, <2>1, <2>2
<1>6. 0 .. len \subseteq Good
  <2> HIDE DEF Good, f
  <2> QED BY <1>4, <1>5, UpTo
<1>7. \A n \in 0 .. len : f[n] \in S
  <2> HIDE DEF f
  <2> QED BY <1>6
<1>8. f \in [0 .. len -> S]
  BY <1>7
<1>9. \A n \in 1 .. len : f[n] = step[<<f[n - 1], n>>]
  <2> HIDE DEF f
  <2> QED BY <1>1, <1>3, <1>7
<1> HIDE DEF f
<1> QED BY <1>2, <1>8, <1>9 DEF Runs

-----------------------------------------------------------------------------
(* Single actions.                                                         *)

(* An action is one of three.                                              *)
EditsHeader(a) == a.type \in {"set_header", "remove_header"} /\ a.header \in Header
SetsPath(a)    == a.type = "set_path" /\ a.path \in Seq(Pieces \cup {Unsafe})
SetsStatus(a)  == a.type = "set_status" /\ a.status \in StatusCode

(* Every action a rule can hold is one of those three, of the side it is   *)
(* for.                                                                    *)
LEMMA ActionKinds ==
    /\ \A a \in RequestAction : SetsPath(a) \/ EditsHeader(a)
    /\ \A a \in ResponseAction : SetsStatus(a) \/ EditsHeader(a)
<1>1. ASSUME NEW a \in HeaderAction PROVE EditsHeader(a)
  BY DEF HeaderAction, EditsHeader
<1>2. ASSUME NEW a \in [type : {"set_path"}, path : Seq(Pieces \cup {Unsafe})]
      PROVE  SetsPath(a)
  BY DEF SetsPath
<1>3. ASSUME NEW a \in [type : {"set_status"}, status : StatusCode]
      PROVE  SetsStatus(a)
  BY DEF SetsStatus
<1>4. \A a \in RequestAction : SetsPath(a) \/ EditsHeader(a)
  BY <1>1, <1>2 DEF RequestAction
<1>5. \A a \in ResponseAction : SetsStatus(a) \/ EditsHeader(a)
  BY <1>1, <1>3 DEF ResponseAction
<1> QED BY <1>4, <1>5

(* The values that an edit of a header may leave of it.                    *)
Wanted(a) ==
    IF a.type = "remove_header" THEN {<<>>}
    ELSE {copies \in Seq(Values) : copies # <<>> /\ copies[1] = a.header.value}

EditHeader(headers, a) ==
    IF a.type = "set_header" THEN SetHeader(headers, a.header) ELSE RemoveHeader(headers, a.header)

(* An edit changes its own header only, if it changes any, and leaves what *)
(* it wants.                                                               *)
LEMMA EditEffect ==
    ASSUME NEW headers \in [Names -> Seq(Values)], NEW a, EditsHeader(a)
    PROVE  /\ EditHeader(headers, a) \in [Names -> Seq(Values)]
           /\ \A name \in Names :
                 IF IsEdit(a, name) THEN EditHeader(headers, a)[name] \in Wanted(a)
                 ELSE EditHeader(headers, a)[name] = headers[name]
<1> DEFINE h == a.header
<1>1. /\ a.type \in {"set_header", "remove_header"}
      /\ h.name \in Names \cup {Unsafe} /\ h.value \in Values \cup {Unsafe} /\ Unsafe \notin Names
  BY RulesAssumption DEF EditsHeader, Header
<1>2. \A name \in Names :
         IsEdit(a, name) <=> /\ Rewritable(h) /\ h.name = name
                             /\ a.type = "set_header" => h.value # Unsafe
  BY <1>1 DEF IsEdit, Rewritable
<1>3. Rewritable(h) => h.name \in Names
  BY <1>1 DEF Rewritable
<1> HIDE DEF h
<1>4. CASE a.type = "remove_header"
  <2>1. EditHeader(headers, a) =
            IF Rewritable(h) THEN [headers EXCEPT ![h.name] = <<>>] ELSE headers
    BY <1>4 DEF EditHeader, RemoveHeader, h
  <2>2. Wanted(a) = {<<>>}
    BY <1>4 DEF Wanted
  <2> QED BY <1>2, <1>3, <1>4, <2>1, <2>2
<1>5. CASE a.type = "set_header"
  <2>1. EditHeader(headers, a) =
            IF ~Rewritable(h) \/ h.value = Unsafe \/ HasValue(headers, h)
            THEN headers ELSE [headers EXCEPT ![h.name] = <<h.value>>]
    BY <1>5 DEF EditHeader, SetHeader, h
  <2>2. Wanted(a) = {copies \in Seq(Values) : copies # <<>> /\ copies[1] = h.value}
    BY <1>5 DEF Wanted, h
  <2>3. h.value # Unsafe => <<h.value>> \in Wanted(a) /\ <<h.value>> \in Seq(Values)
    BY <1>1, <2>2 DEF h
  <2>4. HasValue(headers, h) /\ h.name \in Names => headers[h.name] \in Wanted(a)
    BY <2>2 DEF HasValue
  <2> QED BY <1>2, <1>3, <1>5, <2>1, <2>3, <2>4
<1> QED BY <1>1, <1>4, <1>5

(* What the checks accept is a path again, with its leading slash.         *)
LEMMA NormalPath ==
    ASSUME NEW path \in Seq(Pieces \cup {Unsafe}), UsablePath(path)
    PROVE  /\ NormalizePath(path) \in Seq(Pieces) /\ NormalizePath(path) # <<>>
           /\ NormalizePath(path)[1] = "/"
<1>1. path # <<>> /\ Len(path) \in Nat \ {0} /\ \A i \in 1 .. Len(path) : path[i] # Unsafe
  BY EmptySeq DEF UsablePath, ToSet
<1>2. path \in Seq(Pieces)
  <2>1. \A i \in 1 .. Len(path) : path[i] \in Pieces
    BY <1>1
  <2> QED BY <2>1
<1>3. "/" \in Pieces
  BY RulesAssumption
<1> QED BY <1>1, <1>2, <1>3 DEF NormalizePath

(* A request action sets the path, or edits one header, or does nothing.   *)
LEMMA RequestActionEffect ==
    ASSUME NEW r \in RequestHead, NEW a \in RequestAction
    PROVE  /\ ApplyRequestAction(r, a) \in RequestHead
           /\ ApplyRequestAction(r, a).host = r.host
           /\ ApplyRequestAction(r, a).path = IF IsMove(a) THEN NormalizePath(a.path) ELSE r.path
           /\ \A name \in Names :
                 IF IsEdit(a, name) THEN ApplyRequestAction(r, a).headers[name] \in Wanted(a)
                 ELSE ApplyRequestAction(r, a).headers[name] = r.headers[name]
<1>1. CASE SetsPath(a)
  <2>1. a.type = "set_path" /\ ~ \E name \in Names : IsEdit(a, name)
    BY <1>1 DEF SetsPath, IsEdit
  <2>2. ApplyRequestAction(r, a) =
            IF UsablePath(a.path) THEN [r EXCEPT !.path = NormalizePath(a.path)] ELSE r
    BY <2>1 DEF ApplyRequestAction
  <2>3. UsablePath(a.path) => NormalizePath(a.path) \in Seq(Pieces)
    BY <1>1, NormalPath DEF SetsPath
  <2> QED BY <2>1, <2>2, <2>3 DEF IsMove, RequestHead
<1>2. CASE EditsHeader(a)
  <2>1. a.type \in {"set_header", "remove_header"} /\ ~IsMove(a)
    BY <1>2 DEF EditsHeader, IsMove
  <2>2. ApplyRequestAction(r, a) = [r EXCEPT !.headers = EditHeader(r.headers, a)]
    BY <2>1 DEF ApplyRequestAction, EditHeader
  <2>3. r.headers \in [Names -> Seq(Values)]
    BY DEF RequestHead
  <2>4. EditHeader(r.headers, a) \in [Names -> Seq(Values)]
    BY <1>2, <2>3, EditEffect
  <2>5. /\ ApplyRequestAction(r, a) \in RequestHead
        /\ ApplyRequestAction(r, a).host = r.host /\ ApplyRequestAction(r, a).path = r.path
        /\ ApplyRequestAction(r, a).headers = EditHeader(r.headers, a)
    BY <2>2, <2>4 DEF RequestHead
  <2> QED BY <1>2, <2>1, <2>3, <2>5, EditEffect
<1> QED BY <1>1, <1>2, ActionKinds

(* A response action sets the status, or edits one header, or does nothing.*)
LEMMA ResponseActionEffect ==
    ASSUME NEW r \in ResponseHead, NEW a \in ResponseAction
    PROVE  /\ ApplyResponseAction(r, a) \in ResponseHead
           /\ ApplyResponseAction(r, a).status = IF IsStatus(a) THEN a.status ELSE r.status
           /\ \A name \in Names :
                 IF IsEdit(a, name) THEN ApplyResponseAction(r, a).headers[name] \in Wanted(a)
                 ELSE ApplyResponseAction(r, a).headers[name] = r.headers[name]
<1>1. CASE SetsStatus(a)
  <2>1. a.type = "set_status" /\ ~ \E name \in Names : IsEdit(a, name)
    BY <1>1 DEF SetsStatus, IsEdit
  <2>2. ApplyResponseAction(r, a) =
            IF ValidStatus(a.status) THEN [r EXCEPT !.status = a.status] ELSE r
    BY <2>1 DEF ApplyResponseAction
  <2>3. ValidStatus(a.status) => a.status \in HeadStatus
    BY DEF ValidStatus, HeadStatus
  <2> QED BY <2>1, <2>2, <2>3 DEF IsStatus, ResponseHead
<1>2. CASE EditsHeader(a)
  <2>1. a.type \in {"set_header", "remove_header"} /\ ~IsStatus(a)
    BY <1>2 DEF EditsHeader, IsStatus
  <2>2. ApplyResponseAction(r, a) = [r EXCEPT !.headers = EditHeader(r.headers, a)]
    BY <2>1 DEF ApplyResponseAction, EditHeader
  <2>3. r.headers \in [Names -> Seq(Values)]
    BY DEF ResponseHead
  <2>4. EditHeader(r.headers, a) \in [Names -> Seq(Values)]
    BY <1>2, <2>3, EditEffect
  <2>5. /\ ApplyResponseAction(r, a) \in ResponseHead
        /\ ApplyResponseAction(r, a).status = r.status
        /\ ApplyResponseAction(r, a).headers = EditHeader(r.headers, a)
    BY <2>2, <2>4 DEF ResponseHead
  <2> QED BY <1>2, <2>1, <2>3, <2>5, EditEffect
<1> QED BY <1>1, <1>2, ActionKinds

-----------------------------------------------------------------------------
(* Folds go through one head per action, and per rule.                     *)

(* The actions of a rule for requests.                                     *)
LEMMA RequestActionsRun ==
    ASSUME NEW r \in RequestHead, NEW actions \in Seq(RequestAction)
    PROVE  \E f \in [0 .. Len(actions) -> RequestHead] :
              /\ f[0] = r /\ f[Len(actions)] = ApplyRequestActions(r, actions)
              /\ \A n \in 1 .. Len(actions) : f[n] = ApplyRequestAction(f[n - 1], actions[n])
<1> DEFINE len       == Len(actions)
           all       == SUBSET DOMAIN actions
           Steps(it) == [s \in all |->
                            ApplyRequestAction(it[s \ {Max(s)}], actions[Max(s)])]
           Fold(it)  == it = [s \in all |->
                                IF s = {} THEN r
                                ELSE ApplyRequestAction(it[s \ {Max(s)}], actions[Max(s)])]
           iter      == CHOOSE it : Fold(it)
           step      == [p \in RequestHead \X (1 .. len) |->
                           ApplyRequestAction(p[1], actions[p[2]])]
<1>1. ApplyRequestActions(r, actions) = iter[DOMAIN actions]
  BY DEF ApplyRequestActions, FoldLeft, MapThenFoldSet
<1>2. /\ len \in Nat /\ DOMAIN actions = 1 .. len
      /\ \A n \in 1 .. len : actions[n] \in RequestAction
  BY LenProperties
<1>3. /\ step \in [RequestHead \X (1 .. len) -> RequestHead]
      /\ \A h \in RequestHead, n \in 1 .. len :
            step[<<h, n>>] = ApplyRequestAction(h, actions[n])
  BY <1>2, RequestActionEffect
<1>4. \A s \in all : s # {} => Max(s) \in 1 .. len
  BY <1>2, Greatest
<1>5. \E it : Fold(it)
  <2> HIDE DEF step
  <2>1. PICK g \in [SUBSET (1 .. len) -> RequestHead] : Folds(g, r, len, step)
    <3> HIDE DEF len
    <3> QED BY <1>2, <1>3, FoldExists, Zenon
  <2>2. ASSUME NEW s \in all
        PROVE  g[s] = IF s = {} THEN r
                      ELSE ApplyRequestAction(g[s \ {Max(s)}], actions[Max(s)])
    <3>1. s \in SUBSET (1 .. len) /\ s \ {Max(s)} \in SUBSET (1 .. len)
      BY <1>2
    <3>2. g[s \ {Max(s)}] \in RequestHead
      BY <2>1, <3>1
    <3> QED BY <1>3, <1>4, <2>1, <3>1, <3>2 DEF Folds
  <2>3. Fold(g)
    BY <1>2, <2>1, <2>2
  <2> QED BY <2>3
<1>6. Fold(iter)
  <2> HIDE DEF Fold
  <2> QED BY <1>5
<1> HIDE DEF iter, step
<1> DEFINE next == Steps(iter)
<1>7. Unfolds(iter, r, len, next) /\ StepsBy(iter, RequestHead, len, step, next)
  BY <1>2, <1>3, <1>4, <1>6 DEF Unfolds, StepsBy
<1> HIDE DEF next
<1>8. PICK f \in [0 .. len -> RequestHead] : Runs(f, r, len, step, iter[1 .. len])
  <2> HIDE DEF len
  <2> QED BY <1>2, <1>3, <1>7, FoldRuns, Zenon
<1>9. ASSUME NEW n \in 1 .. len
      PROVE  f[n] = ApplyRequestAction(f[n - 1], actions[n])
  <2>1. n - 1 \in 0 .. len
    BY <1>2
  <2> QED BY <1>3, <1>8, <2>1 DEF Runs
<1> QED BY <1>1, <1>2, <1>8, <1>9 DEF Runs

(* What a rule makes of a request head is one again.                       *)
LEMMA RequestRuleTyped ==
    ASSUME NEW r \in RequestHead, NEW rule \in Rule
    PROVE  ApplyRequestRule(r, rule) \in RequestHead
<1>1. rule.actions \in Seq(RequestAction)
  BY DEF Rule
<1>2. PICK f \in [0 .. Len(rule.actions) -> RequestHead] :
         f[Len(rule.actions)] = ApplyRequestActions(r, rule.actions)
  BY <1>1, RequestActionsRun
<1>3. Len(rule.actions) \in 0 .. Len(rule.actions)
  BY <1>1, LenProperties
<1> QED BY <1>2, <1>3 DEF ApplyRequestRule

(* A list of rules, for requests.                                          *)
LEMMA RequestRulesRun ==
    ASSUME NEW r \in RequestHead, NEW list \in Seq(Rule)
    PROVE  \E f \in [0 .. Len(list) -> RequestHead] :
              /\ f[0] = r /\ f[Len(list)] = ApplyRequestRules(r, list)
              /\ \A n \in 1 .. Len(list) : f[n] = ApplyRequestRule(f[n - 1], list[n])
<1> DEFINE len       == Len(list)
           all       == SUBSET DOMAIN list
           Steps(it) == [s \in all |->
                            ApplyRequestRule(it[s \ {Max(s)}], list[Max(s)])]
           Fold(it)  == it = [s \in all |->
                                IF s = {} THEN r
                                ELSE ApplyRequestRule(it[s \ {Max(s)}], list[Max(s)])]
           iter      == CHOOSE it : Fold(it)
           step      == [p \in RequestHead \X (1 .. len) |->
                           ApplyRequestRule(p[1], list[p[2]])]
<1>1. ApplyRequestRules(r, list) = iter[DOMAIN list]
  BY DEF ApplyRequestRules, FoldLeft, MapThenFoldSet
<1>2. /\ len \in Nat /\ DOMAIN list = 1 .. len
      /\ \A n \in 1 .. len : list[n] \in Rule
  BY LenProperties
<1>3. /\ step \in [RequestHead \X (1 .. len) -> RequestHead]
      /\ \A h \in RequestHead, n \in 1 .. len :
            step[<<h, n>>] = ApplyRequestRule(h, list[n])
  BY <1>2, RequestRuleTyped
<1>4. \A s \in all : s # {} => Max(s) \in 1 .. len
  BY <1>2, Greatest
<1>5. \E it : Fold(it)
  <2> HIDE DEF step
  <2>1. PICK g \in [SUBSET (1 .. len) -> RequestHead] : Folds(g, r, len, step)
    <3> HIDE DEF len
    <3> QED BY <1>2, <1>3, FoldExists, Zenon
  <2>2. ASSUME NEW s \in all
        PROVE  g[s] = IF s = {} THEN r
                      ELSE ApplyRequestRule(g[s \ {Max(s)}], list[Max(s)])
    <3>1. s \in SUBSET (1 .. len) /\ s \ {Max(s)} \in SUBSET (1 .. len)
      BY <1>2
    <3>2. g[s \ {Max(s)}] \in RequestHead
      BY <2>1, <3>1
    <3> QED BY <1>3, <1>4, <2>1, <3>1, <3>2 DEF Folds
  <2>3. Fold(g)
    BY <1>2, <2>1, <2>2
  <2> QED BY <2>3
<1>6. Fold(iter)
  <2> HIDE DEF Fold
  <2> QED BY <1>5
<1> HIDE DEF iter, step
<1> DEFINE next == Steps(iter)
<1>7. Unfolds(iter, r, len, next) /\ StepsBy(iter, RequestHead, len, step, next)
  BY <1>2, <1>3, <1>4, <1>6 DEF Unfolds, StepsBy
<1> HIDE DEF next
<1>8. PICK f \in [0 .. len -> RequestHead] : Runs(f, r, len, step, iter[1 .. len])
  <2> HIDE DEF len
  <2> QED BY <1>2, <1>3, <1>7, FoldRuns, Zenon
<1>9. ASSUME NEW n \in 1 .. len
      PROVE  f[n] = ApplyRequestRule(f[n - 1], list[n])
  <2>1. n - 1 \in 0 .. len
    BY <1>2
  <2> QED BY <1>3, <1>8, <2>1 DEF Runs
<1> QED BY <1>1, <1>2, <1>8, <1>9 DEF Runs

(* The actions of a rule for responses.                                    *)
LEMMA ResponseActionsRun ==
    ASSUME NEW r \in ResponseHead, NEW actions \in Seq(ResponseAction)
    PROVE  \E f \in [0 .. Len(actions) -> ResponseHead] :
              /\ f[0] = r /\ f[Len(actions)] = ApplyResponseActions(r, actions)
              /\ \A n \in 1 .. Len(actions) : f[n] = ApplyResponseAction(f[n - 1], actions[n])
<1> DEFINE len       == Len(actions)
           all       == SUBSET DOMAIN actions
           Steps(it) == [s \in all |->
                            ApplyResponseAction(it[s \ {Max(s)}], actions[Max(s)])]
           Fold(it)  == it = [s \in all |->
                                IF s = {} THEN r
                                ELSE ApplyResponseAction(it[s \ {Max(s)}], actions[Max(s)])]
           iter      == CHOOSE it : Fold(it)
           step      == [p \in ResponseHead \X (1 .. len) |->
                           ApplyResponseAction(p[1], actions[p[2]])]
<1>1. ApplyResponseActions(r, actions) = iter[DOMAIN actions]
  BY DEF ApplyResponseActions, FoldLeft, MapThenFoldSet
<1>2. /\ len \in Nat /\ DOMAIN actions = 1 .. len
      /\ \A n \in 1 .. len : actions[n] \in ResponseAction
  BY LenProperties
<1>3. /\ step \in [ResponseHead \X (1 .. len) -> ResponseHead]
      /\ \A h \in ResponseHead, n \in 1 .. len :
            step[<<h, n>>] = ApplyResponseAction(h, actions[n])
  BY <1>2, ResponseActionEffect
<1>4. \A s \in all : s # {} => Max(s) \in 1 .. len
  BY <1>2, Greatest
<1>5. \E it : Fold(it)
  <2> HIDE DEF step
  <2>1. PICK g \in [SUBSET (1 .. len) -> ResponseHead] : Folds(g, r, len, step)
    <3> HIDE DEF len
    <3> QED BY <1>2, <1>3, FoldExists, Zenon
  <2>2. ASSUME NEW s \in all
        PROVE  g[s] = IF s = {} THEN r
                      ELSE ApplyResponseAction(g[s \ {Max(s)}], actions[Max(s)])
    <3>1. s \in SUBSET (1 .. len) /\ s \ {Max(s)} \in SUBSET (1 .. len)
      BY <1>2
    <3>2. g[s \ {Max(s)}] \in ResponseHead
      BY <2>1, <3>1
    <3> QED BY <1>3, <1>4, <2>1, <3>1, <3>2 DEF Folds
  <2>3. Fold(g)
    BY <1>2, <2>1, <2>2
  <2> QED BY <2>3
<1>6. Fold(iter)
  <2> HIDE DEF Fold
  <2> QED BY <1>5
<1> HIDE DEF iter, step
<1> DEFINE next == Steps(iter)
<1>7. Unfolds(iter, r, len, next) /\ StepsBy(iter, ResponseHead, len, step, next)
  BY <1>2, <1>3, <1>4, <1>6 DEF Unfolds, StepsBy
<1> HIDE DEF next
<1>8. PICK f \in [0 .. len -> ResponseHead] : Runs(f, r, len, step, iter[1 .. len])
  <2> HIDE DEF len
  <2> QED BY <1>2, <1>3, <1>7, FoldRuns, Zenon
<1>9. ASSUME NEW n \in 1 .. len
      PROVE  f[n] = ApplyResponseAction(f[n - 1], actions[n])
  <2>1. n - 1 \in 0 .. len
    BY <1>2
  <2> QED BY <1>3, <1>8, <2>1 DEF Runs
<1> QED BY <1>1, <1>2, <1>8, <1>9 DEF Runs

(* What a rule makes of a response head is one again.                       *)
LEMMA ResponseRuleTyped ==
    ASSUME NEW req \in RequestHead, NEW r \in ResponseHead, NEW rule \in Rule
    PROVE  ApplyResponseRule(req, r, rule) \in ResponseHead
<1>1. rule.response_actions \in Seq(ResponseAction)
  BY DEF Rule
<1>2. PICK f \in [0 .. Len(rule.response_actions) -> ResponseHead] :
         f[Len(rule.response_actions)] = ApplyResponseActions(r, rule.response_actions)
  BY <1>1, ResponseActionsRun
<1>3. Len(rule.response_actions) \in 0 .. Len(rule.response_actions)
  BY <1>1, LenProperties
<1> QED BY <1>2, <1>3 DEF ApplyResponseRule

(* A list of rules, for responses to one request.                          *)
LEMMA ResponseRulesRun ==
    ASSUME NEW req \in RequestHead, NEW r \in ResponseHead, NEW list \in Seq(Rule)
    PROVE  \E f \in [0 .. Len(list) -> ResponseHead] :
              /\ f[0] = r /\ f[Len(list)] = ApplyResponseRules(req, r, list)
              /\ \A n \in 1 .. Len(list) : f[n] = ApplyResponseRule(req, f[n - 1], list[n])
<1> DEFINE len       == Len(list)
           all       == SUBSET DOMAIN list
           Steps(it) == [s \in all |->
                            ApplyResponseRule(req, it[s \ {Max(s)}], list[Max(s)])]
           Fold(it)  == it = [s \in all |->
                                IF s = {} THEN r
                                ELSE ApplyResponseRule(req, it[s \ {Max(s)}], list[Max(s)])]
           iter      == CHOOSE it : Fold(it)
           step      == [p \in ResponseHead \X (1 .. len) |->
                           ApplyResponseRule(req, p[1], list[p[2]])]
<1>1. ApplyResponseRules(req, r, list) = iter[DOMAIN list]
  BY DEF ApplyResponseRules, FoldLeft, MapThenFoldSet
<1>2. /\ len \in Nat /\ DOMAIN list = 1 .. len
      /\ \A n \in 1 .. len : list[n] \in Rule
  BY LenProperties
<1>3. /\ step \in [ResponseHead \X (1 .. len) -> ResponseHead]
      /\ \A h \in ResponseHead, n \in 1 .. len :
            step[<<h, n>>] = ApplyResponseRule(req, h, list[n])
  BY <1>2, ResponseRuleTyped
<1>4. \A s \in all : s # {} => Max(s) \in 1 .. len
  BY <1>2, Greatest
<1>5. \E it : Fold(it)
  <2> HIDE DEF step
  <2>1. PICK g \in [SUBSET (1 .. len) -> ResponseHead] : Folds(g, r, len, step)
    <3> HIDE DEF len
    <3> QED BY <1>2, <1>3, FoldExists, Zenon
  <2>2. ASSUME NEW s \in all
        PROVE  g[s] = IF s = {} THEN r
                      ELSE ApplyResponseRule(req, g[s \ {Max(s)}], list[Max(s)])
    <3>1. s \in SUBSET (1 .. len) /\ s \ {Max(s)} \in SUBSET (1 .. len)
      BY <1>2
    <3>2. g[s \ {Max(s)}] \in ResponseHead
      BY <2>1, <3>1
    <3> QED BY <1>3, <1>4, <2>1, <3>1, <3>2 DEF Folds
  <2>3. Fold(g)
    BY <1>2, <2>1, <2>2
  <2> QED BY <2>3
<1>6. Fold(iter)
  <2> HIDE DEF Fold
  <2> QED BY <1>5
<1> HIDE DEF iter, step
<1> DEFINE next == Steps(iter)
<1>7. Unfolds(iter, r, len, next) /\ StepsBy(iter, ResponseHead, len, step, next)
  BY <1>2, <1>3, <1>4, <1>6 DEF Unfolds, StepsBy
<1> HIDE DEF next
<1>8. PICK f \in [0 .. len -> ResponseHead] : Runs(f, r, len, step, iter[1 .. len])
  <2> HIDE DEF len
  <2> QED BY <1>2, <1>3, <1>7, FoldRuns, Zenon
<1>9. ASSUME NEW n \in 1 .. len
      PROVE  f[n] = ApplyResponseRule(req, f[n - 1], list[n])
  <2>1. n - 1 \in 0 .. len
    BY <1>2
  <2> QED BY <1>3, <1>8, <2>1 DEF Runs
<1> QED BY <1>1, <1>2, <1>8, <1>9 DEF Runs

-----------------------------------------------------------------------------
(* The last action that counts decides.                                    *)

(* Of values each of which is what its place decides, or the one before if *)
(* its place decides nothing, the last is what the last place decides.     *)
LEMMA LastDecides ==
    ASSUME NEW len \in Nat, NEW f, NEW Dec \in SUBSET (1 .. len), NEW G,
           \A j \in 1 .. len : IF j \in Dec THEN f[j] \in G[j] ELSE f[j] = f[j - 1]
    PROVE  IF Dec = {} THEN f[len] = f[0]
           ELSE \E j \in Dec : (\A k \in Dec : k <= j) /\ f[len] \in G[j]
<1> DEFINE Up(n)   == Dec \cap 1 .. n
           Ends(n) == \E j \in Up(n) : (\A k \in Up(n) : k <= j) /\ f[n] \in G[j]
           Good    == {n \in 0 .. len : IF Up(n) = {} THEN f[n] = f[0] ELSE Ends(n)}
<1>1. 0 \in Good
  <2>1. Up(0) = {} /\ 0 \in 0 .. len
    OBVIOUS
  <2> QED BY <2>1
<1>2. ASSUME NEW n \in 1 .. len, n - 1 \in Good
      PROVE  n \in Good
  <2>1. CASE n \in Dec
    <3>1. n \in Up(n) /\ (\A k \in Up(n) : k <= n) /\ f[n] \in G[n]
      BY <2>1
    <3> QED BY <3>1
  <2>2. CASE n \notin Dec
    <3>1. Up(n) = Up(n - 1)
      BY <2>2
    <3>2. f[n] = f[n - 1]
      BY <2>2
    <3>3. IF Up(n - 1) = {} THEN f[n - 1] = f[0] ELSE Ends(n - 1)
      BY <1>2
    <3> QED BY <3>1, <3>2, <3>3
  <2> QED BY <2>1, <2>2
<1>3. len \in Good
  <2> HIDE DEF Good
  <2> QED BY <1>1, <1>2, UpTo
<1>4. Up(len) = Dec
  OBVIOUS
<1> QED BY <1>3, <1>4

(* The heads between the rules and those between the actions of the rules  *)
(* that are chosen, or one field of each: what they begin and end with.    *)
Joined(scripts, len, chosen, outer, inner) ==
    /\ \A i \in chosen :
          /\ Len(scripts[i]) \in Nat /\ DOMAIN scripts[i] = 1 .. Len(scripts[i])
          /\ inner[i][0] = outer[i - 1] /\ inner[i][Len(scripts[i])] = outer[i]
    /\ \A i \in (1 .. len) \ chosen : outer[i] = outer[i - 1]

(* An action of a chosen rule has a place.                                 *)
LEMMA PlaceOf ==
    ASSUME NEW scripts, NEW chosen, NEW i \in chosen, NEW j \in DOMAIN scripts[i]
    PROVE  <<i, j>> \in Places(scripts, chosen) /\ At(scripts, <<i, j>>) = scripts[i][j]
BY DEF Places, At

(* A step at a place that counts leaves what it wants, another one leaves  *)
(* everything.                                                             *)
Decided(scripts, chosen, inner, Dec, G) ==
    \A i \in chosen : \A j \in DOMAIN scripts[i] :
        IF <<i, j>> \in Dec THEN inner[i][j] \in G[<<i, j>>] ELSE inner[i][j] = inner[i][j - 1]

(* So the last place of all that count decides.                            *)
LEMMA LatestDecides ==
    ASSUME NEW len \in Nat, NEW chosen \in SUBSET (1 .. len), NEW scripts,
           NEW outer, NEW inner, NEW G, NEW Dec \in SUBSET Places(scripts, chosen),
           Joined(scripts, len, chosen, outer, inner), Decided(scripts, chosen, inner, Dec, G)
    PROVE  IF Dec = {} THEN outer[len] = outer[0]
           ELSE Latest(Dec) \in Dec /\ outer[len] \in G[Latest(Dec)]
<1> DEFINE In(i)   == {j \in DOMAIN scripts[i] : <<i, j>> \in Dec}
           Best(i) == CHOOSE j \in In(i) : (\A k \in In(i) : k <= j) /\ outer[i] \in G[<<i, j>>]
           D       == {i \in chosen : In(i) # {}}
           H       == [i \in D |-> G[<<i, Best(i)>>]]
<1>1. ASSUME NEW i \in chosen
      PROVE  IF In(i) = {} THEN outer[i] = outer[i - 1]
             ELSE \E j \in In(i) : (\A k \in In(i) : k <= j) /\ outer[i] \in G[<<i, j>>]
  <2> DEFINE m == Len(scripts[i])
             f == inner[i]
             g == [j \in In(i) |-> G[<<i, j>>]]
  <2>1. m \in Nat /\ DOMAIN scripts[i] = 1 .. m /\ f[0] = outer[i - 1] /\ f[m] = outer[i]
    BY DEF Joined
  <2>2. In(i) \in SUBSET (1 .. m)
    BY <2>1
  <2>3. \A j \in 1 .. m : IF j \in In(i) THEN f[j] \in g[j] ELSE f[j] = f[j - 1]
    BY <2>1 DEF Decided
  <2>4. IF In(i) = {} THEN f[m] = f[0]
        ELSE \E j \in In(i) : (\A k \in In(i) : k <= j) /\ f[m] \in g[j]
    <3> HIDE DEF m, f, g, In
    <3> QED BY <2>1, <2>2, <2>3, LastDecides
  <2> HIDE DEF In
  <2> QED BY <2>1, <2>4
<1>2. ASSUME NEW i \in D
      PROVE  /\ Best(i) \in In(i) /\ outer[i] \in G[<<i, Best(i)>>]
             /\ \A k \in In(i) : k <= Best(i)
  <2> HIDE DEF In
  <2> QED BY <1>1
<1>3. D \in SUBSET (1 .. len)
  OBVIOUS
<1>4. \A i \in 1 .. len : IF i \in D THEN outer[i] \in H[i] ELSE outer[i] = outer[i - 1]
  <2> HIDE DEF In, Best
  <2> QED BY <1>1, <1>2 DEF Joined
<1>5. IF D = {} THEN outer[len] = outer[0]
      ELSE \E i \in D : (\A k \in D : k <= i) /\ outer[len] \in H[i]
  <2> HIDE DEF D, H
  <2> QED BY <1>3, <1>4, LastDecides
<1>6. \A p \in Dec : p[1] \in D /\ p[2] \in In(p[1]) /\ p = <<p[1], p[2]>>
  BY DEF Places
<1>7. ASSUME NEW i \in D, NEW j \in In(i) PROVE j \in Nat
  <2>1. DOMAIN scripts[i] = 1 .. Len(scripts[i]) /\ Len(scripts[i]) \in Nat
    BY DEF Joined
  <2> QED BY <2>1
<1>8. CASE D = {}
  <2>1. Dec = {}
    BY <1>6, <1>8
  <2> QED BY <1>5, <1>8, <2>1
<1>9. CASE D # {}
  <2>1. PICK i \in D : (\A k \in D : k <= i) /\ outer[len] \in H[i]
    BY <1>5, <1>9
  <2> DEFINE b == Best(i)
             q == <<i, b>>
  <2>2. b \in In(i) /\ (\A k \in In(i) : k <= b)
    BY <1>2
  <2> HIDE DEF b
  <2>3. q \in Dec
    BY <2>2
  <2>4. ASSUME NEW p \in Dec PROVE NotAfter(p, q)
    <3>1. p[1] \in 1 .. len /\ i \in 1 .. len /\ p[1] <= i
      BY <1>3, <1>6, <2>1
    <3>2. p[1] = i => p[2] <= b
      BY <1>6, <2>2
    <3> QED BY <3>1, <3>2 DEF NotAfter
  <2>5. ASSUME NEW p \in Dec, \A r \in Dec : NotAfter(r, p)
        PROVE  p = q
    <3>1. NotAfter(p, q) /\ NotAfter(q, p)
      BY <2>3, <2>4, <2>5
    <3>2. p[1] \in 1 .. len /\ i \in 1 .. len /\ p = <<p[1], p[2]>>
      BY <1>3, <1>6
    <3>3. p[2] \in Nat /\ b \in Nat
      <4> HIDE DEF D, In
      <4> QED BY <1>6, <1>7, <2>2
    <3> QED BY <3>1, <3>2, <3>3 DEF NotAfter
  <2>6. Latest(Dec) = q
    BY <2>3, <2>4, <2>5 DEF Latest
  <2>7. outer[len] \in G[q]
    BY <2>1 DEF b
  <2> QED BY <2>3, <2>6, <2>7
<1> QED BY <1>8, <1>9

-----------------------------------------------------------------------------
(* Rules on a message, as runs.                                            *)

(* A run of request rules: the heads between the rules are `outer`, those  *)
(* between the actions of the rules that match in turn are `inner`.        *)
RequestRun(r, list, chosen, outer, inner) ==
    /\ outer \in [0 .. Len(list) -> RequestHead]
    /\ outer[0] = r /\ outer[Len(list)] = ApplyRequestRules(r, list)
    /\ chosen = {i \in 1 .. Len(list) : Matches(list[i], outer[i - 1])}
    /\ Joined(RequestScripts(list), Len(list), chosen, outer, inner)
    /\ \A i \in chosen : \A j \in DOMAIN RequestScripts(list)[i] :
          /\ RequestScripts(list)[i][j] \in RequestAction
          /\ inner[i][j - 1] \in RequestHead
          /\ inner[i][j] = ApplyRequestAction(inner[i][j - 1], RequestScripts(list)[i][j])

(* Every application of rules to a request is such a run.                  *)
LEMMA RequestRunExists ==
    ASSUME NEW r \in RequestHead, NEW list \in Seq(Rule)
    PROVE  \E chosen, outer, inner : RequestRun(r, list, chosen, outer, inner)
<1>1. PICK outer \in [0 .. Len(list) -> RequestHead] :
         /\ outer[0] = r /\ outer[Len(list)] = ApplyRequestRules(r, list)
         /\ \A n \in 1 .. Len(list) : outer[n] = ApplyRequestRule(outer[n - 1], list[n])
  BY RequestRulesRun
<1> DEFINE chosen == {i \in 1 .. Len(list) : Matches(list[i], outer[i - 1])}
           Through(i, f) ==
              /\ f \in [0 .. Len(list[i].actions) -> RequestHead]
              /\ f[0] = outer[i - 1] /\ f[Len(list[i].actions)] = outer[i]
              /\ \A n \in 1 .. Len(list[i].actions) :
                    f[n] = ApplyRequestAction(f[n - 1], list[i].actions[n])
           inner == [i \in chosen |-> CHOOSE f : Through(i, f)]
           scripts == RequestScripts(list)
<1>2. /\ Len(list) \in Nat /\ DOMAIN list = 1 .. Len(list)
      /\ \A i \in 1 .. Len(list) : list[i] \in Rule /\ i - 1 \in 0 .. Len(list)
  BY LenProperties
<1>3. ASSUME NEW i \in 1 .. Len(list)
      PROVE  /\ scripts[i] = list[i].actions /\ scripts[i] \in Seq(RequestAction)
             /\ Len(scripts[i]) \in Nat /\ DOMAIN scripts[i] = 1 .. Len(scripts[i])
  <2>1. scripts[i] = list[i].actions
    BY <1>2 DEF RequestScripts
  <2>2. scripts[i] \in Seq(RequestAction)
    BY <1>2, <2>1 DEF Rule
  <2> QED BY <2>1, <2>2, LenProperties
<1>4. ASSUME NEW i \in chosen
      PROVE  Through(i, inner[i])
  <2>1. list[i].actions \in Seq(RequestAction) /\ outer[i - 1] \in RequestHead
    BY <1>1, <1>2, <1>3
  <2>2. outer[i] = ApplyRequestActions(outer[i - 1], list[i].actions)
    BY <1>1 DEF ApplyRequestRule
  <2> DEFINE actions == list[i].actions
             before  == outer[i - 1]
  <2>3. PICK f \in [0 .. Len(actions) -> RequestHead] :
           /\ f[0] = before /\ f[Len(actions)] = ApplyRequestActions(before, actions)
           /\ \A n \in 1 .. Len(actions) : f[n] = ApplyRequestAction(f[n - 1], actions[n])
    <3> HIDE DEF actions, before
    <3>1. actions \in Seq(RequestAction) /\ before \in RequestHead
      BY <2>1 DEF actions, before
    <3> QED BY <3>1, RequestActionsRun
  <2>4. Through(i, f)
    BY <2>2, <2>3
  <2> HIDE DEF Through
  <2> QED BY <2>4
<1>5. \A i \in (1 .. Len(list)) \ chosen : outer[i] = outer[i - 1]
  BY <1>1 DEF ApplyRequestRule
<1> HIDE DEF inner
<1>6. Joined(scripts, Len(list), chosen, outer, inner)
  <2>1. ASSUME NEW i \in chosen
        PROVE  /\ Len(scripts[i]) \in Nat /\ DOMAIN scripts[i] = 1 .. Len(scripts[i])
               /\ inner[i][0] = outer[i - 1] /\ inner[i][Len(scripts[i])] = outer[i]
    BY <1>3, <1>4
  <2> HIDE DEF chosen, scripts
  <2> QED BY <1>5, <2>1 DEF Joined
<1>7. ASSUME NEW i \in chosen, NEW j \in DOMAIN scripts[i]
      PROVE  /\ scripts[i][j] \in RequestAction
             /\ inner[i][j - 1] \in RequestHead
             /\ inner[i][j] = ApplyRequestAction(inner[i][j - 1], scripts[i][j])
  <2>1. /\ scripts[i] = list[i].actions /\ scripts[i] \in Seq(RequestAction)
        /\ Len(scripts[i]) \in Nat /\ DOMAIN scripts[i] = 1 .. Len(scripts[i])
    BY <1>3
  <2>2. Through(i, inner[i])
    BY <1>4
  <2>3. j \in 1 .. Len(scripts[i]) /\ j - 1 \in 0 .. Len(scripts[i])
    BY <2>1
  <2> HIDE DEF scripts
  <2>4. scripts[i][j] \in RequestAction
    BY <2>1, <2>3
  <2> QED BY <2>1, <2>2, <2>3, <2>4
<1>8. RequestRun(r, list, chosen, outer, inner)
  <2> HIDE DEF scripts, chosen, Through
  <2>1. /\ outer \in [0 .. Len(list) -> RequestHead]
        /\ outer[0] = r /\ outer[Len(list)] = ApplyRequestRules(r, list)
    BY <1>1
  <2>2. chosen = {i \in 1 .. Len(list) : Matches(list[i], outer[i - 1])}
    BY DEF chosen
  <2> QED BY <1>6, <1>7, <2>1, <2>2, Zenon DEF RequestRun, scripts
<1> QED BY <1>8

(* The same of response rules: those count that match the request.         *)
ResponseRun(req, r, list, chosen, outer, inner) ==
    /\ outer \in [0 .. Len(list) -> ResponseHead]
    /\ outer[0] = r /\ outer[Len(list)] = ApplyResponseRules(req, r, list)
    /\ chosen = {i \in 1 .. Len(list) : Matches(list[i], req)}
    /\ Joined(ResponseScripts(list), Len(list), chosen, outer, inner)
    /\ \A i \in chosen : \A j \in DOMAIN ResponseScripts(list)[i] :
          /\ ResponseScripts(list)[i][j] \in ResponseAction
          /\ inner[i][j - 1] \in ResponseHead
          /\ inner[i][j] = ApplyResponseAction(inner[i][j - 1], ResponseScripts(list)[i][j])

(* Every application of rules to a response is such a run.                 *)
LEMMA ResponseRunExists ==
    ASSUME NEW req \in RequestHead, NEW r \in ResponseHead, NEW list \in Seq(Rule)
    PROVE  \E chosen, outer, inner : ResponseRun(req, r, list, chosen, outer, inner)
<1>1. PICK outer \in [0 .. Len(list) -> ResponseHead] :
         /\ outer[0] = r /\ outer[Len(list)] = ApplyResponseRules(req, r, list)
         /\ \A n \in 1 .. Len(list) : outer[n] = ApplyResponseRule(req, outer[n - 1], list[n])
  BY ResponseRulesRun
<1> DEFINE chosen == {i \in 1 .. Len(list) : Matches(list[i], req)}
           Through(i, f) ==
              /\ f \in [0 .. Len(list[i].response_actions) -> ResponseHead]
              /\ f[0] = outer[i - 1] /\ f[Len(list[i].response_actions)] = outer[i]
              /\ \A n \in 1 .. Len(list[i].response_actions) :
                    f[n] = ApplyResponseAction(f[n - 1], list[i].response_actions[n])
           inner == [i \in chosen |-> CHOOSE f : Through(i, f)]
           scripts == ResponseScripts(list)
<1>2. /\ Len(list) \in Nat /\ DOMAIN list = 1 .. Len(list)
      /\ \A i \in 1 .. Len(list) : list[i] \in Rule /\ i - 1 \in 0 .. Len(list)
  BY LenProperties
<1>3. ASSUME NEW i \in 1 .. Len(list)
      PROVE  /\ scripts[i] = list[i].response_actions /\ scripts[i] \in Seq(ResponseAction)
             /\ Len(scripts[i]) \in Nat /\ DOMAIN scripts[i] = 1 .. Len(scripts[i])
  <2>1. scripts[i] = list[i].response_actions
    BY <1>2 DEF ResponseScripts
  <2>2. scripts[i] \in Seq(ResponseAction)
    BY <1>2, <2>1 DEF Rule
  <2> QED BY <2>1, <2>2, LenProperties
<1>4. ASSUME NEW i \in chosen
      PROVE  Through(i, inner[i])
  <2>1. list[i].response_actions \in Seq(ResponseAction) /\ outer[i - 1] \in ResponseHead
    BY <1>1, <1>2, <1>3
  <2>2. outer[i] = ApplyResponseActions(outer[i - 1], list[i].response_actions)
    BY <1>1 DEF ApplyResponseRule
  <2> DEFINE actions == list[i].response_actions
             before  == outer[i - 1]
  <2>3. PICK f \in [0 .. Len(actions) -> ResponseHead] :
           /\ f[0] = before /\ f[Len(actions)] = ApplyResponseActions(before, actions)
           /\ \A n \in 1 .. Len(actions) : f[n] = ApplyResponseAction(f[n - 1], actions[n])
    <3> HIDE DEF actions, before
    <3>1. actions \in Seq(ResponseAction) /\ before \in ResponseHead
      BY <2>1 DEF actions, before
    <3> QED BY <3>1, ResponseActionsRun
  <2>4. Through(i, f)
    BY <2>2, <2>3
  <2> HIDE DEF Through
  <2> QED BY <2>4
<1>5. \A i \in (1 .. Len(list)) \ chosen : outer[i] = outer[i - 1]
  BY <1>1 DEF ApplyResponseRule
<1> HIDE DEF inner
<1>6. Joined(scripts, Len(list), chosen, outer, inner)
  <2>1. ASSUME NEW i \in chosen
        PROVE  /\ Len(scripts[i]) \in Nat /\ DOMAIN scripts[i] = 1 .. Len(scripts[i])
               /\ inner[i][0] = outer[i - 1] /\ inner[i][Len(scripts[i])] = outer[i]
    BY <1>3, <1>4
  <2> HIDE DEF chosen, scripts
  <2> QED BY <1>5, <2>1 DEF Joined
<1>7. ASSUME NEW i \in chosen, NEW j \in DOMAIN scripts[i]
      PROVE  /\ scripts[i][j] \in ResponseAction
             /\ inner[i][j - 1] \in ResponseHead
             /\ inner[i][j] = ApplyResponseAction(inner[i][j - 1], scripts[i][j])
  <2>1. /\ scripts[i] = list[i].response_actions /\ scripts[i] \in Seq(ResponseAction)
        /\ Len(scripts[i]) \in Nat /\ DOMAIN scripts[i] = 1 .. Len(scripts[i])
    BY <1>3
  <2>2. Through(i, inner[i])
    BY <1>4
  <2>3. j \in 1 .. Len(scripts[i]) /\ j - 1 \in 0 .. Len(scripts[i])
    BY <2>1
  <2> HIDE DEF scripts
  <2>4. scripts[i][j] \in ResponseAction
    BY <2>1, <2>3
  <2> QED BY <2>1, <2>2, <2>3, <2>4
<1>8. ResponseRun(req, r, list, chosen, outer, inner)
  <2> HIDE DEF scripts, chosen, Through
  <2>1. /\ outer \in [0 .. Len(list) -> ResponseHead]
        /\ outer[0] = r /\ outer[Len(list)] = ApplyResponseRules(req, r, list)
    BY <1>1
  <2>2. chosen = {i \in 1 .. Len(list) : Matches(list[i], req)}
    BY DEF chosen
  <2> QED BY <1>6, <1>7, <2>1, <2>2, Zenon DEF ResponseRun, scripts
<1> QED BY <1>8

-----------------------------------------------------------------------------
(* What a run makes of a message.                                          *)


(* A field of the heads is what the last place that sets it says.          *)
LEMMA FieldFollows ==
    ASSUME NEW scripts, NEW len \in Nat, NEW chosen \in SUBSET (1 .. len), NEW outer, NEW inner,
           NEW field, NEW value, NEW Dec \in SUBSET Places(scripts, chosen),
           Joined(scripts, len, chosen, outer, inner),
           \A i \in chosen : \A j \in DOMAIN scripts[i] :
              field[inner[i][j]] = IF <<i, j>> \in Dec THEN value[<<i, j>>]
                                   ELSE field[inner[i][j - 1]]
    PROVE  /\ field[outer[len]] = IF Dec = {} THEN field[outer[0]] ELSE value[Latest(Dec)]
           /\ Dec # {} => Latest(Dec) \in Dec
<1> DEFINE o == [n \in 0 .. len |-> field[outer[n]]]
           h == [i \in chosen |-> [j \in 0 .. Len(scripts[i]) |-> field[inner[i][j]]]]
           G == [p \in Places(scripts, chosen) |-> {value[p]}]
<1>1. Joined(scripts, len, chosen, o, h)
  <2>1. ASSUME NEW i \in chosen
        PROVE  /\ Len(scripts[i]) \in Nat /\ DOMAIN scripts[i] = 1 .. Len(scripts[i])
               /\ h[i][0] = o[i - 1] /\ h[i][Len(scripts[i])] = o[i]
    <3>1. /\ Len(scripts[i]) \in Nat /\ DOMAIN scripts[i] = 1 .. Len(scripts[i])
          /\ inner[i][0] = outer[i - 1] /\ inner[i][Len(scripts[i])] = outer[i]
      BY DEF Joined
    <3>2. i \in 0 .. len /\ i - 1 \in 0 .. len
      OBVIOUS
    <3>3. 0 \in 0 .. Len(scripts[i]) /\ Len(scripts[i]) \in 0 .. Len(scripts[i])
      BY <3>1
    <3> QED BY <3>1, <3>2, <3>3
  <2>2. ASSUME NEW i \in (1 .. len) \ chosen
        PROVE  o[i] = o[i - 1]
    <3>1. i \in 0 .. len /\ i - 1 \in 0 .. len /\ outer[i] = outer[i - 1]
      BY DEF Joined
    <3> QED BY <3>1
  <2> HIDE DEF o, h
  <2>3. \A i \in chosen : /\ Len(scripts[i]) \in Nat /\ DOMAIN scripts[i] = 1 .. Len(scripts[i])
                          /\ h[i][0] = o[i - 1] /\ h[i][Len(scripts[i])] = o[i]
    BY <2>1
  <2>4. \A i \in (1 .. len) \ chosen : o[i] = o[i - 1]
    BY <2>2
  <2> QED BY <2>3, <2>4, Zenon DEF Joined
<1>2. ASSUME NEW i \in chosen, NEW j \in DOMAIN scripts[i]
      PROVE  IF <<i, j>> \in Dec THEN h[i][j] \in G[<<i, j>>] ELSE h[i][j] = h[i][j - 1]
  <2>1. j \in 0 .. Len(scripts[i]) /\ j - 1 \in 0 .. Len(scripts[i])
    <3>1. Len(scripts[i]) \in Nat /\ DOMAIN scripts[i] = 1 .. Len(scripts[i])
      BY DEF Joined
    <3> QED BY <3>1
  <2>2. <<i, j>> \in Places(scripts, chosen)
    BY PlaceOf, Zenon
  <2>3. h[i][j] = field[inner[i][j]] /\ h[i][j - 1] = field[inner[i][j - 1]]
    BY <2>1
  <2>4. G[<<i, j>>] = {value[<<i, j>>]}
    BY <2>2
  <2> HIDE DEF h, G
  <2> QED BY <2>3, <2>4
<1>3. IF Dec = {} THEN o[len] = o[0]
      ELSE Latest(Dec) \in Dec /\ o[len] \in G[Latest(Dec)]
  <2> HIDE DEF o, h, G
  <2>1. Decided(scripts, chosen, h, Dec, G)
    BY <1>2 DEF Decided
  <2> QED BY <1>1, <2>1, LatestDecides
<1>4. o[len] = field[outer[len]] /\ o[0] = field[outer[0]]
  OBVIOUS
<1>5. ASSUME Dec # {}
      PROVE  o[len] = value[Latest(Dec)]
  BY <1>3, <1>5
<1> HIDE DEF o
<1> QED BY <1>3, <1>4, <1>5

(* Every step edits headers as its action says.                            *)
Edited(scripts, chosen, inner) ==
    \A i \in chosen : \A j \in DOMAIN scripts[i] : \A name \in Names :
        IF IsEdit(scripts[i][j], name)
        THEN inner[i][j].headers[name] \in Wanted(scripts[i][j])
        ELSE inner[i][j].headers[name] = inner[i][j - 1].headers[name]

(* Each header is what the last of its edits wants.                        *)
LEMMA HeadersFollow ==
    ASSUME NEW scripts, NEW len \in Nat, NEW chosen \in SUBSET (1 .. len), NEW outer, NEW inner,
           Joined(scripts, len, chosen, outer, inner), Edited(scripts, chosen, inner)
    PROVE  HeadersAgree(outer[0].headers, outer[len].headers, scripts, chosen)
<1> SUFFICES ASSUME NEW name \in Names
             PROVE  LET edits == Edits(scripts, chosen, name)
                        last  == At(scripts, Latest(edits))
                    IN  IF edits = {}
                        THEN outer[len].headers[name] = outer[0].headers[name]
                        ELSE IF last.type = "remove_header" THEN outer[len].headers[name] = <<>>
                        ELSE /\ outer[len].headers[name] # <<>>
                             /\ outer[len].headers[name][1] = last.header.value
  BY Zenon DEF HeadersAgree
<1> DEFINE edits == Edits(scripts, chosen, name)
           o == [n \in 0 .. len |-> outer[n].headers[name]]
           h == [i \in chosen |->
                    [j \in 0 .. Len(scripts[i]) |-> inner[i][j].headers[name]]]
           G == [p \in Places(scripts, chosen) |-> Wanted(At(scripts, p))]
<1>1. Joined(scripts, len, chosen, o, h)
  <2>1. ASSUME NEW i \in chosen
        PROVE  /\ Len(scripts[i]) \in Nat /\ DOMAIN scripts[i] = 1 .. Len(scripts[i])
               /\ h[i][0] = o[i - 1] /\ h[i][Len(scripts[i])] = o[i]
    <3>1. /\ Len(scripts[i]) \in Nat /\ DOMAIN scripts[i] = 1 .. Len(scripts[i])
          /\ inner[i][0] = outer[i - 1] /\ inner[i][Len(scripts[i])] = outer[i]
      BY DEF Joined
    <3>2. i \in 0 .. len /\ i - 1 \in 0 .. len
      OBVIOUS
    <3>3. 0 \in 0 .. Len(scripts[i]) /\ Len(scripts[i]) \in 0 .. Len(scripts[i])
      BY <3>1
    <3> QED BY <3>1, <3>2, <3>3
  <2>2. ASSUME NEW i \in (1 .. len) \ chosen
        PROVE  o[i] = o[i - 1]
    <3>1. i \in 0 .. len /\ i - 1 \in 0 .. len /\ outer[i] = outer[i - 1]
      BY DEF Joined
    <3> QED BY <3>1
  <2> HIDE DEF o, h
  <2>3. \A i \in chosen : /\ Len(scripts[i]) \in Nat /\ DOMAIN scripts[i] = 1 .. Len(scripts[i])
                          /\ h[i][0] = o[i - 1] /\ h[i][Len(scripts[i])] = o[i]
    BY <2>1
  <2>4. \A i \in (1 .. len) \ chosen : o[i] = o[i - 1]
    BY <2>2
  <2> QED BY <2>3, <2>4, Zenon DEF Joined
<1>2. ASSUME NEW i \in chosen, NEW j \in DOMAIN scripts[i]
      PROVE  IF <<i, j>> \in edits THEN h[i][j] \in G[<<i, j>>] ELSE h[i][j] = h[i][j - 1]
  <2>1. j \in 0 .. Len(scripts[i]) /\ j - 1 \in 0 .. Len(scripts[i])
    <3>1. Len(scripts[i]) \in Nat /\ DOMAIN scripts[i] = 1 .. Len(scripts[i])
      BY DEF Joined
    <3> QED BY <3>1
  <2>2. <<i, j>> \in Places(scripts, chosen) /\ At(scripts, <<i, j>>) = scripts[i][j]
    BY PlaceOf, Zenon
  <2>3. <<i, j>> \in edits <=> IsEdit(scripts[i][j], name)
    BY <2>2 DEF Edits
  <2>4. /\ h[i][j] = inner[i][j].headers[name] /\ h[i][j - 1] = inner[i][j - 1].headers[name]
        /\ G[<<i, j>>] = Wanted(scripts[i][j])
    BY <2>1, <2>2
  <2> HIDE DEF edits, h, G
  <2> QED BY <2>3, <2>4 DEF Edited
<1>3. edits \in SUBSET Places(scripts, chosen)
  BY DEF Edits
<1>4. IF edits = {} THEN o[len] = o[0]
      ELSE Latest(edits) \in edits /\ o[len] \in G[Latest(edits)]
  <2> HIDE DEF edits, o, h, G
  <2>1. Decided(scripts, chosen, h, edits, G)
    BY <1>2 DEF Decided
  <2> QED BY <1>1, <1>3, <2>1, LatestDecides
<1>5. o[len] = outer[len].headers[name] /\ o[0] = outer[0].headers[name]
  OBVIOUS
<1>6. ASSUME edits # {}
      PROVE  outer[len].headers[name] \in Wanted(At(scripts, Latest(edits)))
  <2> HIDE DEF edits, o
  <2> QED BY <1>3, <1>4, <1>5, <1>6
<1> HIDE DEF edits, o
<1> QED BY <1>4, <1>5, <1>6 DEF Wanted, edits

(* The part of a run up to a rule is one of as many rules.                 *)
LEMMA JoinedUpTo ==
    ASSUME NEW scripts, NEW len \in Nat, NEW chosen \in SUBSET (1 .. len), NEW outer, NEW inner,
           NEW n \in 0 .. len, Joined(scripts, len, chosen, outer, inner)
    PROVE  /\ chosen \cap 1 .. n \in SUBSET (1 .. n)
           /\ Joined(scripts, n, chosen \cap 1 .. n, outer, inner)
<1>1. \A i \in (1 .. n) \ (chosen \cap 1 .. n) : i \in (1 .. len) \ chosen
  OBVIOUS
<1>2. \A i \in chosen \cap 1 .. n : i \in chosen
  OBVIOUS
<1> QED BY <1>1, <1>2 DEF Joined

(* A head whose host is that of `r` and whose path is what moves make of it.*)
PathIs(r, scripts, chosen, q) ==
    /\ q.host = r.host /\ q.path = PathAfter(r.path, scripts, chosen)
    /\ Moves(scripts, chosen) # {} => Latest(Moves(scripts, chosen)) \in Moves(scripts, chosen)

(* After any number of rules, the host is the one that came, and the path  *)
(* what the last of their moves says.                                      *)
LEMMA PathFollows ==
    ASSUME NEW r \in RequestHead, NEW list \in Seq(Rule), NEW chosen, NEW outer, NEW inner,
           RequestRun(r, list, chosen, outer, inner), NEW n \in 0 .. Len(list)
    PROVE  PathIs(r, RequestScripts(list), chosen \cap 1 .. n, outer[n])
<1> DEFINE scripts == RequestScripts(list)
           sub     == chosen \cap 1 .. n
           hosts   == [h \in RequestHead |-> h.host]
           paths   == [h \in RequestHead |-> h.path]
           moves   == Moves(scripts, sub)
           value   == [p \in Places(scripts, sub) |-> NormalizePath(At(scripts, p).path)]
<1>1. /\ Len(list) \in Nat /\ n \in Nat /\ chosen \in SUBSET (1 .. Len(list))
      /\ outer \in [0 .. Len(list) -> RequestHead] /\ outer[0] = r
      /\ Joined(scripts, Len(list), chosen, outer, inner)
  BY LenProperties DEF RequestRun
<1>2. sub \in SUBSET (1 .. n) /\ Joined(scripts, n, sub, outer, inner)
  BY <1>1, JoinedUpTo
<1>3. ASSUME NEW i \in sub, NEW j \in DOMAIN scripts[i]
      PROVE  /\ hosts[inner[i][j]] = hosts[inner[i][j - 1]]
             /\ paths[inner[i][j]] = IF <<i, j>> \in moves THEN value[<<i, j>>]
                                     ELSE paths[inner[i][j - 1]]
  <2>1. /\ scripts[i][j] \in RequestAction /\ inner[i][j - 1] \in RequestHead
        /\ inner[i][j] = ApplyRequestAction(inner[i][j - 1], scripts[i][j])
    BY DEF RequestRun
  <2>2. <<i, j>> \in Places(scripts, sub) /\ At(scripts, <<i, j>>) = scripts[i][j]
    BY PlaceOf, Zenon
  <2>3. <<i, j>> \in moves <=> IsMove(scripts[i][j])
    BY <2>2 DEF Moves
  <2>4. value[<<i, j>>] = NormalizePath(scripts[i][j].path)
    BY <2>2
  <2> HIDE DEF scripts, moves, value
  <2>5. /\ inner[i][j] \in RequestHead /\ inner[i][j].host = inner[i][j - 1].host
        /\ inner[i][j].path = IF IsMove(scripts[i][j]) THEN NormalizePath(scripts[i][j].path)
                              ELSE inner[i][j - 1].path
    BY <2>1, RequestActionEffect
  <2> QED BY <2>1, <2>3, <2>4, <2>5
<1>4. moves \in SUBSET Places(scripts, sub) /\ {} \in SUBSET Places(scripts, sub)
  BY DEF Moves
<1>5. /\ hosts[outer[n]] = outer[n].host /\ hosts[outer[0]] = r.host
      /\ paths[outer[n]] = outer[n].path /\ paths[outer[0]] = r.path
  BY <1>1
<1>6. hosts[outer[n]] = hosts[outer[0]]
  <2> HIDE DEF hosts, scripts, sub
  <2> DEFINE none == {}
  <2>1. \A i \in sub : \A j \in DOMAIN scripts[i] :
           hosts[inner[i][j]] = IF <<i, j>> \in none THEN value[<<i, j>>]
                                ELSE hosts[inner[i][j - 1]]
    BY <1>3
  <2>2. none \in SUBSET Places(scripts, sub) /\ none = {}
    BY <1>4
  <2> HIDE DEF value, none
  <2> QED BY <1>1, <1>2, <2>1, <2>2, FieldFollows
<1>7. /\ paths[outer[n]] = IF moves = {} THEN paths[outer[0]] ELSE value[Latest(moves)]
      /\ moves # {} => Latest(moves) \in moves
  <2> HIDE DEF paths, scripts, sub, moves, value
  <2>1. \A i \in sub : \A j \in DOMAIN scripts[i] :
           paths[inner[i][j]] = IF <<i, j>> \in moves THEN value[<<i, j>>]
                                ELSE paths[inner[i][j - 1]]
    BY <1>3
  <2>2. moves \in SUBSET Places(scripts, sub)
    BY <1>4
  <2> QED BY <1>1, <1>2, <2>1, <2>2, FieldFollows
<1>8. moves # {} => value[Latest(moves)] = NormalizePath(At(scripts, Latest(moves)).path)
  BY <1>4, <1>7
<1> QED BY <1>5, <1>6, <1>7, <1>8 DEF PathAfter, PathIs

(* What decides the path is a path with a leading slash.                   *)
LEMMA PathStaysUsable ==
    ASSUME NEW r \in RequestHead, NEW list \in Seq(Rule), NEW chosen, NEW outer, NEW inner,
           RequestRun(r, list, chosen, outer, inner),
           NEW path, path = PathAfter(r.path, RequestScripts(list), chosen),
           Moves(RequestScripts(list), chosen) # {} =>
               Latest(Moves(RequestScripts(list), chosen)) \in Moves(RequestScripts(list), chosen)
    PROVE  path = r.path \/ (path # <<>> /\ path[1] = "/")
<1> DEFINE scripts == RequestScripts(list)
           moves   == Moves(scripts, chosen)
           a       == At(scripts, Latest(moves))
<1>1. CASE moves = {}
  BY <1>1 DEF PathAfter
<1>2. CASE moves # {}
  <2>1. Latest(moves) \in Places(scripts, chosen) /\ IsMove(a)
    BY <1>2 DEF Moves
  <2>2. a \in RequestAction
    BY <2>1 DEF RequestRun, Places, At
  <2>3. a.type = "set_path" /\ UsablePath(a.path)
    BY <2>1 DEF IsMove
  <2>4. path = NormalizePath(a.path)
    BY <1>2 DEF PathAfter
  <2> HIDE DEF a
  <2>5. a.path \in Seq(Pieces \cup {Unsafe})
    BY <2>2, <2>3, ActionKinds DEF SetsPath, EditsHeader
  <2> QED BY <2>3, <2>4, <2>5, NormalPath
<1> QED BY <1>1, <1>2

(* What request rules make of a head, for every head and every list.       *)
RequestOutcome(r, list, q, chosen) ==
    /\ MatchInTurn(list, r, chosen)
    /\ q.host = r.host
    /\ q.path = PathAfter(r.path, RequestScripts(list), chosen)
    /\ HeadersAgree(r.headers, q.headers, RequestScripts(list), chosen)

(* The request pass does what the last actions of the rules that match in  *)
(* turn say, and nothing else (rules.rs:63-81).                            *)
THEOREM RequestRulesAreFollowed ==
    ASSUME NEW r \in RequestHead, NEW list \in Seq(Rule)
    PROVE  /\ ApplyRequestRules(r, list) \in RequestHead
           /\ \E chosen \in SUBSET DOMAIN list :
                 RequestOutcome(r, list, ApplyRequestRules(r, list), chosen)
           /\ \/ ApplyRequestRules(r, list).path = r.path
              \/ /\ ApplyRequestRules(r, list).path # <<>>
                 /\ ApplyRequestRules(r, list).path[1] = "/"
<1> DEFINE q == ApplyRequestRules(r, list)
           scripts == RequestScripts(list)
           len == Len(list)
<1>1. PICK chosen, outer, inner : RequestRun(r, list, chosen, outer, inner)
  BY RequestRunExists
<1>2. /\ len \in Nat /\ len \in 0 .. len /\ DOMAIN list = 1 .. len
      /\ \A i \in 1 .. len : i - 1 \in 0 .. len
  BY LenProperties
<1>3. /\ outer \in [0 .. len -> RequestHead] /\ outer[0] = r /\ outer[len] = q
      /\ chosen = {i \in 1 .. len : Matches(list[i], outer[i - 1])}
      /\ Joined(scripts, len, chosen, outer, inner)
  BY <1>1 DEF RequestRun
<1>4. chosen \in SUBSET (1 .. len) /\ chosen \cap 1 .. len = chosen
  BY <1>3
<1>5. q \in RequestHead
  BY <1>2, <1>3
<1>6. /\ q.host = r.host /\ q.path = PathAfter(r.path, scripts, chosen)
      /\ Moves(scripts, chosen) # {} => Latest(Moves(scripts, chosen)) \in Moves(scripts, chosen)
  <2> HIDE DEF q, scripts, len
  <2>1. len = Len(list) /\ scripts = RequestScripts(list)
    BY DEF len, scripts
  <2> QED BY <1>1, <1>2, <1>3, <1>4, <2>1, PathFollows DEF PathIs
<1>7. MatchInTurn(list, r, chosen)
  <2>1. ASSUME NEW i \in 1 .. len
        PROVE  i \in chosen <=>
                   Matches(list[i], [r EXCEPT !.path =
                                        PathAfter(r.path, scripts, chosen \cap 1 .. (i - 1))])
    <3>1. /\ outer[i - 1].host = r.host
          /\ outer[i - 1].path = PathAfter(r.path, scripts, chosen \cap 1 .. (i - 1))
      <4> DEFINE n == i - 1
      <4>1. n \in 0 .. Len(list) /\ scripts = RequestScripts(list)
        BY <1>2
      <4>2. n = i - 1
        OBVIOUS
      <4> HIDE DEF n, scripts, len, q
      <4>3. PathIs(r, RequestScripts(list), chosen \cap 1 .. n, outer[n])
        BY <1>1, <4>1, PathFollows
      <4> QED BY <4>1, <4>2, <4>3 DEF PathIs
    <3>2. outer[i - 1] \in RequestHead
      BY <1>2, <1>3
    <3> DEFINE p == PathAfter(r.path, scripts, chosen \cap 1 .. (i - 1))
               s == [r EXCEPT !.path = p]
    <3> HIDE DEF p
    <3>3. s.host = r.host /\ s.path = p
      BY DEF RequestHead
    <3> HIDE DEF s
    <3>4. Matches(list[i], outer[i - 1]) <=> Matches(list[i], s)
      BY <3>1, <3>3 DEF Matches, p
    <3> QED BY <1>3, <3>4 DEF s, p
  <2> HIDE DEF scripts
  <2> QED BY <1>2, <2>1 DEF MatchInTurn, scripts
<1>8. HeadersAgree(r.headers, q.headers, scripts, chosen)
  <2>1. ASSUME NEW i \in chosen, NEW j \in DOMAIN scripts[i], NEW name \in Names
        PROVE  IF IsEdit(scripts[i][j], name)
               THEN inner[i][j].headers[name] \in Wanted(scripts[i][j])
               ELSE inner[i][j].headers[name] = inner[i][j - 1].headers[name]
    <3>1. /\ scripts[i][j] \in RequestAction /\ inner[i][j - 1] \in RequestHead
          /\ inner[i][j] = ApplyRequestAction(inner[i][j - 1], scripts[i][j])
      BY <1>1 DEF RequestRun
    <3> HIDE DEF scripts
    <3> QED BY <3>1, RequestActionEffect
  <2> HIDE DEF q, scripts, len
  <2>2. Edited(scripts, chosen, inner)
    BY <2>1 DEF Edited
  <2>3. HeadersAgree(outer[0].headers, outer[len].headers, scripts, chosen)
    <3>1. Joined(scripts, len, chosen, outer, inner)
      BY <1>3
    <3>2. len \in Nat /\ chosen \in SUBSET (1 .. len)
      BY <1>2, <1>4
    <3> QED BY <3>1, <3>2, <2>2, HeadersFollow
  <2> QED BY <1>3, <2>3
<1>9. q.path = r.path \/ (q.path # <<>> /\ q.path[1] = "/")
  <2> HIDE DEF q
  <2> QED BY <1>1, <1>6, PathStaysUsable
<1>10. RequestOutcome(r, list, q, chosen)
  BY <1>6, <1>7, <1>8 DEF RequestOutcome
<1>11. chosen \in SUBSET DOMAIN list
  BY <1>2, <1>4
<1> QED BY <1>5, <1>9, <1>10, <1>11

(* What response rules make of a head, for every head and every list.      *)
ResponseOutcome(req, r, list, q) ==
    LET chosen == {i \in DOMAIN list : Matches(list[i], req)}
    IN  /\ q.status = StatusAfter(r.status, ResponseScripts(list), chosen)
        /\ HeadersAgree(r.headers, q.headers, ResponseScripts(list), chosen)

(* The response pass does what the last actions say of the rules that      *)
(* match the request, and nothing else (rules.rs:83-100).                  *)
THEOREM ResponseRulesAreFollowed ==
    ASSUME NEW req \in RequestHead, NEW r \in ResponseHead, NEW list \in Seq(Rule)
    PROVE  /\ ApplyResponseRules(req, r, list) \in ResponseHead
           /\ ResponseOutcome(req, r, list, ApplyResponseRules(req, r, list))
           /\ \/ ApplyResponseRules(req, r, list).status = r.status
              \/ ValidStatus(ApplyResponseRules(req, r, list).status)
<1> DEFINE q        == ApplyResponseRules(req, r, list)
           scripts  == ResponseScripts(list)
           len      == Len(list)
<1>1. PICK chosen, outer, inner : ResponseRun(req, r, list, chosen, outer, inner)
  BY ResponseRunExists
<1>2. len \in Nat /\ len \in 0 .. len /\ DOMAIN list = 1 .. len
  BY LenProperties
<1>3. /\ outer \in [0 .. len -> ResponseHead] /\ outer[0] = r /\ outer[len] = q
      /\ chosen = {i \in DOMAIN list : Matches(list[i], req)}
      /\ Joined(scripts, len, chosen, outer, inner)
  BY <1>1, <1>2 DEF ResponseRun
<1>4. chosen \in SUBSET (1 .. len) /\ q \in ResponseHead
  BY <1>2, <1>3
<1> DEFINE field    == [h \in ResponseHead |-> h.status]
           statuses == Statuses(scripts, chosen)
           value    == [p \in Places(scripts, chosen) |-> At(scripts, p).status]
<1>5. ASSUME NEW i \in chosen, NEW j \in DOMAIN scripts[i]
      PROVE  /\ field[inner[i][j]] = IF <<i, j>> \in statuses THEN value[<<i, j>>]
                                     ELSE field[inner[i][j - 1]]
             /\ \A name \in Names :
                   IF IsEdit(scripts[i][j], name)
                   THEN inner[i][j].headers[name] \in Wanted(scripts[i][j])
                   ELSE inner[i][j].headers[name] = inner[i][j - 1].headers[name]
  <2>1. /\ scripts[i][j] \in ResponseAction /\ inner[i][j - 1] \in ResponseHead
        /\ inner[i][j] = ApplyResponseAction(inner[i][j - 1], scripts[i][j])
    BY <1>1 DEF ResponseRun
  <2>2. <<i, j>> \in Places(scripts, chosen) /\ At(scripts, <<i, j>>) = scripts[i][j]
    BY PlaceOf, Zenon
  <2>3. <<i, j>> \in statuses <=> IsStatus(scripts[i][j])
    BY <2>2 DEF Statuses
  <2>4. value[<<i, j>>] = scripts[i][j].status
    BY <2>2
  <2> HIDE DEF scripts, statuses, value
  <2>5. /\ inner[i][j] \in ResponseHead
        /\ inner[i][j].status = IF IsStatus(scripts[i][j]) THEN scripts[i][j].status
                                ELSE inner[i][j - 1].status
        /\ \A name \in Names :
              IF IsEdit(scripts[i][j], name)
              THEN inner[i][j].headers[name] \in Wanted(scripts[i][j])
              ELSE inner[i][j].headers[name] = inner[i][j - 1].headers[name]
    BY <2>1, ResponseActionEffect
  <2> QED BY <2>1, <2>3, <2>4, <2>5
<1>6. statuses \in SUBSET Places(scripts, chosen)
  BY DEF Statuses
<1>7. field[outer[len]] = q.status /\ field[outer[0]] = r.status
  BY <1>2, <1>3
<1>8. /\ q.status = IF statuses = {} THEN r.status ELSE value[Latest(statuses)]
      /\ statuses # {} => Latest(statuses) \in statuses
  <2>1. \A i \in chosen : \A j \in DOMAIN scripts[i] :
           field[inner[i][j]] = IF <<i, j>> \in statuses THEN value[<<i, j>>]
                                ELSE field[inner[i][j - 1]]
    BY <1>5
  <2> HIDE DEF q, scripts, len, field, statuses, value
  <2>2. /\ field[outer[len]] = IF statuses = {} THEN field[outer[0]] ELSE value[Latest(statuses)]
        /\ statuses # {} => Latest(statuses) \in statuses
    BY <1>2, <1>3, <1>4, <1>6, <2>1, FieldFollows
  <2> QED BY <1>7, <2>2
<1>9. statuses # {} => value[Latest(statuses)] = At(scripts, Latest(statuses)).status
  BY <1>6, <1>8
<1>10. q.status = StatusAfter(r.status, scripts, chosen)
  BY <1>8, <1>9 DEF StatusAfter
<1>11. q.status = r.status \/ ValidStatus(q.status)
  <2>1. statuses # {} => IsStatus(At(scripts, Latest(statuses)))
    BY <1>8 DEF Statuses
  <2> HIDE DEF q, statuses, value
  <2> QED BY <1>8, <1>9, <2>1 DEF IsStatus
<1>12. HeadersAgree(r.headers, q.headers, scripts, chosen)
  <2>1. Edited(scripts, chosen, inner)
    BY <1>5 DEF Edited
  <2> HIDE DEF q, scripts, len
  <2>2. Joined(scripts, len, chosen, outer, inner)
    BY <1>3
  <2>3. HeadersAgree(outer[0].headers, outer[len].headers, scripts, chosen)
    BY <1>2, <1>4, <2>1, <2>2, HeadersFollow
  <2> QED BY <1>3, <2>3
<1>13. ResponseOutcome(req, r, list, q)
  BY <1>3, <1>10, <1>12 DEF ResponseOutcome
<1> QED BY <1>4, <1>11, <1>13

(* Headers that frame the body are edited by no action.                    *)
LEMMA FramingIsKept ==
    ASSUME NEW before, NEW after, NEW scripts, NEW chosen,
           HeadersAgree(before, after, scripts, chosen)
    PROVE  \A name \in Framing : after[name] = before[name]
<1> SUFFICES ASSUME NEW name \in Framing PROVE after[name] = before[name]
  OBVIOUS
<1>1. name \in Names
  BY RulesAssumption
<1>2. Edits(scripts, chosen, name) = {}
  BY DEF Edits, IsEdit
<1> QED BY <1>1, <1>2 DEF HeadersAgree

(* No rules, no change.                                                    *)
LEMMA EmptyListKeeps ==
    ASSUME NEW r \in RequestHead
    PROVE  ApplyRequestRules(r, <<>>) = r
<1> DEFINE none == <<>>
<1>1. none \in Seq(Rule) /\ Len(none) = 0
  BY RulesAssumption
<1> HIDE DEF none
<1>2. PICK f \in [0 .. Len(none) -> RequestHead] :
         f[0] = r /\ f[Len(none)] = ApplyRequestRules(r, none)
  BY <1>1, RequestRulesRun
<1> QED BY <1>1, <1>2 DEF none

(* Two requests that the rules match alike get the same response.          *)
LEMMA ResponseByMatching ==
    ASSUME NEW req \in RequestHead, NEW other \in RequestHead, NEW r \in ResponseHead,
           NEW list \in Seq(Rule),
           other.host = req.host, other.path = req.path
    PROVE  ApplyResponseRules(other, r, list) = ApplyResponseRules(req, r, list)
<1>1. PICK f \in [0 .. Len(list) -> ResponseHead] :
         /\ f[0] = r /\ f[Len(list)] = ApplyResponseRules(req, r, list)
         /\ \A n \in 1 .. Len(list) : f[n] = ApplyResponseRule(req, f[n - 1], list[n])
  BY ResponseRulesRun
<1>2. PICK g \in [0 .. Len(list) -> ResponseHead] :
         /\ g[0] = r /\ g[Len(list)] = ApplyResponseRules(other, r, list)
         /\ \A n \in 1 .. Len(list) : g[n] = ApplyResponseRule(other, g[n - 1], list[n])
  BY ResponseRulesRun
<1> DEFINE Good == {n \in 0 .. Len(list) : g[n] = f[n]}
<1>3. Len(list) \in Nat /\ 0 \in 0 .. Len(list) /\ Len(list) \in 0 .. Len(list)
  BY LenProperties
<1>4. 0 \in Good
  BY <1>1, <1>2, <1>3
<1>5. ASSUME NEW n \in 1 .. Len(list), n - 1 \in Good
      PROVE  n \in Good
  <2>1. n \in 0 .. Len(list) /\ g[n - 1] = f[n - 1]
    BY <1>5
  <2>2. Matches(list[n], other) <=> Matches(list[n], req)
    BY DEF Matches
  <2>3. \A q : ApplyResponseRule(other, q, list[n]) = ApplyResponseRule(req, q, list[n])
    BY <2>2 DEF ApplyResponseRule
  <2> QED BY <1>1, <1>2, <2>1, <2>3
<1>6. 0 .. Len(list) \subseteq Good
  <2> HIDE DEF Good
  <2> QED BY <1>3, <1>4, <1>5, UpTo
<1> QED BY <1>1, <1>2, <1>3, <1>6

-----------------------------------------------------------------------------
(* The invariant: what is sent and delivered is what the rules that were   *)
(* read make of what came, and a record holds what was delivered.          *)

Applied ==
    /\ pc # "idle" => request # None
    /\ request # None => client # None /\ request = ApplyRequestRules(client, request_rules)
    /\ response # None => /\ request # None /\ upstream # None
                          /\ response = ApplyResponseRules(request, upstream, response_rules)
    /\ upstream # None => response # None
    /\ captured # None =>
          (captured.upstream # None =>
              captured.response = ApplyResponseRules(captured.request, captured.upstream,
                                                     captured.rules))

IInv == TypeOK /\ Applied

(* What an explicit request makes of a head is a head.                     *)
LEMMA RebuiltTyped ==
    ASSUME NEW host \in Hosts, NEW r \in RequestHead
    PROVE  /\ Rebuilt(host, r) \in RequestHead
           /\ Rebuilt(host, r).host = host /\ Rebuilt(host, r).path = r.path
<1> DEFINE new(name) ==
              CASE name = "host" -> <<host>>
                [] name = "content-length" ->
                       IF r.headers[name] = <<>> THEN <<>> ELSE <<r.headers[name][1]>>
                [] name \in Reconstructed \ {"host", "content-length"} -> <<>>
                [] OTHER -> r.headers[name]
<1>1. ASSUME NEW name \in Names
      PROVE  new(name) \in Seq(Values)
  <2>1. r.headers[name] \in Seq(Values) /\ <<host>> \in Seq(Values)
    BY RulesAssumption DEF RequestHead
  <2> DEFINE old == r.headers[name]
  <2>2. (IF old = <<>> THEN <<>> ELSE <<old[1]>>) \in Seq(Values)
    <3> HIDE DEF old
    <3>1. CASE old = <<>>
      BY <3>1
    <3>2. CASE old # <<>>
      BY <2>1, <3>2 DEF old
    <3> QED BY <3>1, <3>2
  <2> HIDE DEF old
  <2>3. <<>> \in Seq(Values)
    OBVIOUS
  <2>4. CASE name = "host"
    BY <2>1, <2>4, Zenon
  <2>5. CASE name = "content-length"
    BY <2>2, <2>5 DEF old
  <2>6. CASE name \in Reconstructed \ {"host", "content-length"}
    BY <2>3, <2>6
  <2>7. CASE name \notin Reconstructed /\ name # "host" /\ name # "content-length"
    BY <2>1, <2>7
  <2> QED BY <2>4, <2>5, <2>6, <2>7
<1>2. [name \in Names |-> new(name)] \in [Names -> Seq(Values)]
  <2> HIDE DEF new
  <2> QED BY <1>1
<1>3. r.path \in Seq(Pieces)
  BY DEF RequestHead
<1> HIDE DEF new
<1>4. Rebuilt(host, r) =
          [host |-> host, path |-> r.path, headers |-> [name \in Names |-> new(name)]]
  BY DEF Rebuilt, new
<1> QED BY <1>2, <1>3, <1>4 DEF RequestHead

(* The beginning of an exchange keeps the invariant.                       *)
LEMMA BeginKeeps ==
    ASSUME IInv, NEW before \in RequestHead, NEW list \in RuleSets,
           Begin(before, ApplyRequestRules(before, list), list)
    PROVE  IInv'
<1> DEFINE after == ApplyRequestRules(before, list)
<1>1. list \in Seq(Rule) /\ <<>> \in RuleSets
  BY RulesAssumption
<1>2. after \in RequestHead /\ (after.path = before.path \/ after.path[1] = "/")
  BY <1>1, RequestRulesAreFollowed
<1>3. before # None /\ after # None
  BY <1>2, RulesAssumption
<1>4. TypeOK'
  <2> HIDE DEF after
  <2> QED BY <1>1, <1>2 DEF after, Begin, IInv, TypeOK
<1>5. Applied'
  <2> HIDE DEF after
  <2> QED BY <1>3 DEF after, Begin, IInv, Applied
<1> QED BY <1>4, <1>5 DEF IInv

(* Likewise of one that no rule touches.                                   *)
LEMMA BeginMadeKeeps ==
    ASSUME IInv, NEW made \in RequestHead, Begin(made, made, <<>>)
    PROVE  IInv'
<1>1. made = ApplyRequestRules(made, <<>>) /\ <<>> \in RuleSets
  BY EmptyListKeeps, RulesAssumption
<1>2. Begin(made, ApplyRequestRules(made, <<>>), <<>>)
  BY <1>1
<1> QED BY <1>1, <1>2, BeginKeeps

(* Every step keeps the invariant.                                         *)
LEMMA StepKeeps ==
    ASSUME IInv, [Next]_vars
    PROVE  IInv'
<1>1. CASE Forward
  <2>1. PICK head \in Requests : Begin(head, ApplyRequestRules(head, rules), rules)
    BY <1>1 DEF Forward
  <2>2. head \in RequestHead /\ rules \in RuleSets
    BY RulesAssumption DEF IInv, TypeOK
  <2> QED BY <2>1, <2>2, BeginKeeps
<1>2. CASE Execute
  <2>1. PICK head \in Requests : Begin(Rebuilt(head.host, head), Rebuilt(head.host, head), <<>>)
    BY <1>2 DEF Execute
  <2>2. head \in RequestHead /\ head.host \in Hosts
    BY RulesAssumption DEF RequestHead
  <2>3. Rebuilt(head.host, head) \in RequestHead
    BY <2>2, RebuiltTyped
  <2> QED BY <2>1, <2>3, BeginMadeKeeps
<1>3. CASE Replay
  <2>1. /\ captured # None /\ Authority(captured.request) \in Hosts
        /\ Begin(ReplayRequest(captured.request), ReplayRequest(captured.request), <<>>)
    BY <1>3 DEF Replay
  <2>2. captured.request \in RequestHead
    BY <2>1 DEF IInv, TypeOK, Exchange
  <2>3. ReplayRequest(captured.request) \in RequestHead
    BY <2>1, <2>2, RebuiltTyped DEF ReplayRequest
  <2> QED BY <2>1, <2>3, BeginMadeKeeps
<1>4. CASE Respond
  <2>1. PICK answer \in Responses : upstream' = answer
                                   /\ response' = ApplyResponseRules(request, answer, rules)
    BY <1>4 DEF Respond, RespondTo
  <2>2. answer \in ResponseHead /\ rules \in Seq(Rule)
    BY RulesAssumption DEF IInv, TypeOK
  <2>3. request # None /\ request \in RequestHead
    BY <1>4 DEF Respond, RespondTo, IInv, TypeOK, Applied
  <2>4. response' \in ResponseHead
    BY <2>1, <2>2, <2>3, ResponseRulesAreFollowed
  <2>5. upstream' # None /\ response' # None
    BY <2>1, <2>2, <2>4, RulesAssumption
  <2>6. TypeOK'
    BY <1>4, <2>1, <2>4 DEF Respond, RespondTo, IInv, TypeOK
  <2>7. Applied'
    BY <1>4, <2>1, <2>3, <2>5 DEF Respond, RespondTo, IInv, Applied
  <2> QED BY <2>6, <2>7 DEF IInv
<1>5. CASE Finish
  <2>1. request \in RequestHead /\ request # None
    BY <1>5 DEF Finish, IInv, TypeOK, Applied
  <2>2. /\ captured' \in Exchange
        /\ captured'.request = request /\ captured'.upstream = upstream
        /\ captured'.response = response /\ captured'.rules = response_rules
    BY <1>5, <2>1 DEF Finish, IInv, TypeOK, Exchange
  <2>3. TypeOK'
    BY <1>5, <2>2 DEF Finish, IInv, TypeOK, ghosts
  <2>4. Applied'
    BY <1>5, <2>2 DEF Finish, IInv, Applied, ghosts
  <2> QED BY <2>3, <2>4 DEF IInv
<1>6. CASE Replace
  <2>1. rules' \in RuleSets
    BY <1>6, RulesAssumption DEF Replace
  <2>2. TypeOK'
    BY <1>6, <2>1, RulesAssumption DEF Replace, IInv, TypeOK, ghosts
  <2>3. Applied'
    BY <1>6 DEF Replace, IInv, Applied, ghosts
  <2> QED BY <2>2, <2>3 DEF IInv
<1>7. CASE UNCHANGED vars
  BY <1>7 DEF vars, ghosts, IInv, TypeOK, Applied
<1> QED BY <1>1, <1>2, <1>3, <1>4, <1>5, <1>6, <1>7 DEF Next

(* Rules are applied to whole heads and the result is sent, always.        *)
THEOREM RulesAreApplied == Spec => []IInv
<1>1. Init => IInv
  BY RulesAssumption DEF Init, IInv, TypeOK, Applied
<1> QED BY <1>1, StepKeeps, PTL DEF Spec

-----------------------------------------------------------------------------
(* The promises.                                                           *)

(* The lists and heads that the ghosts hold.                               *)
LEMMA GhostsTyped ==
    ASSUME IInv
    PROVE  /\ request_rules \in Seq(Rule) /\ response_rules \in Seq(Rule)
           /\ request # None => client \in RequestHead /\ request \in RequestHead
           /\ response # None => upstream \in ResponseHead /\ response \in ResponseHead
BY RulesAssumption DEF IInv, TypeOK, Applied

(* The outcome of the request pass.                                        *)
LEMMA RequestFollows ==
    ASSUME IInv, request # None
    PROVE  \E chosen \in SUBSET DOMAIN request_rules :
               RequestOutcome(client, request_rules, request, chosen)
<1>1. /\ request_rules \in Seq(Rule) /\ client \in RequestHead
      /\ request = ApplyRequestRules(client, request_rules)
  BY GhostsTyped DEF IInv, Applied
<1> QED BY <1>1, RequestRulesAreFollowed

(* The head that is sent is what the last of the actions of the rules that *)
(* match say (RequestFollowsRules; rules.rs:63-81).                        *)
THEOREM RequestsFollowRules == Spec => []RequestFollowsRules
<1>1. IInv => RequestFollowsRules
  BY RequestFollows DEF RequestFollowsRules, RequestOutcome
<1> QED BY <1>1, RulesAreApplied, PTL

(* The outcome of the response pass.                                       *)
LEMMA ResponseFollows ==
    ASSUME IInv, response # None
    PROVE  /\ ResponseOutcome(request, upstream, response_rules, response)
           /\ response.status = upstream.status \/ ValidStatus(response.status)
<1>1. /\ response_rules \in Seq(Rule) /\ request \in RequestHead /\ upstream \in ResponseHead
      /\ response = ApplyResponseRules(request, upstream, response_rules)
  BY GhostsTyped DEF IInv, Applied
<1> QED BY <1>1, ResponseRulesAreFollowed

(* So is the head that is delivered, by one set of rules, matched with the *)
(* request that was sent (ResponseFollowsRules; rules.rs:83-100).          *)
THEOREM ResponsesFollowRules == Spec => []ResponseFollowsRules
<1>1. IInv => ResponseFollowsRules
  BY ResponseFollows DEF ResponseFollowsRules, ResponseOutcome, MatchedByResponse
<1> QED BY <1>1, RulesAreApplied, PTL

(* Heads stay well formed and keep the headers that frame their bodies,    *)
(* and a response with a body keeps it, whatever the rules are             *)
(* (MessagesStayWhole; rules.rs:160-225).                                  *)
THEOREM MessagesAreWhole == Spec => []MessagesStayWhole
<1>1. ASSUME IInv PROVE FramingSurvives
  <2>1. request # None => \A name \in Framing : request.headers[name] = client.headers[name]
    BY <1>1, RequestFollows, FramingIsKept DEF RequestOutcome
  <2>2. response # None => \A name \in Framing : response.headers[name] = upstream.headers[name]
    BY <1>1, ResponseFollows, FramingIsKept DEF ResponseOutcome
  <2> QED BY <2>1, <2>2 DEF FramingSurvives, Frame
<1>2. ASSUME IInv PROVE StatusKeepsBody
  <2>1. ASSUME NEW status, ValidStatus(status)
        PROVE  status \notin Bodyless
    <3>1. status \in Nat /\ 200 <= status /\ status \notin {204, 205, 304}
      BY <2>1 DEF ValidStatus
    <3>2. status \notin 100 .. 199
      BY <3>1
    <3> QED BY <3>1, <3>2 DEF Bodyless
  <2> SUFFICES ASSUME response # None,
                      upstream.status \in Bodyless => response.status = upstream.status
               PROVE  BodyFrame(response) = BodyFrame(upstream)
    BY DEF StatusKeepsBody
  <2>2. response.status \in Bodyless <=> upstream.status \in Bodyless
    BY <1>2, <2>1, ResponseFollows
  <2>3. Frame(response.headers) = Frame(upstream.headers)
    BY <1>1, <1>2 DEF FramingSurvives
  <2> QED BY <2>2, <2>3 DEF BodyFrame
<1>3. IInv => MessagesStayWhole
  BY <1>1, <1>2 DEF IInv, MessagesStayWhole
<1> QED BY <1>3, RulesAreApplied, PTL

(* Which rules match in turn is decided one by one, so in one way only.    *)
LEMMA MatchedOnce ==
    ASSUME NEW list \in Seq(Rule), NEW head, NEW chosen \in SUBSET DOMAIN list,
           NEW other \in SUBSET DOMAIN list,
           MatchInTurn(list, head, chosen), MatchInTurn(list, head, other)
    PROVE  chosen = other
<1> DEFINE len  == Len(list)
           Good == {n \in 0 .. len : chosen \cap 1 .. n = other \cap 1 .. n}
<1>1. len \in Nat /\ DOMAIN list = 1 .. len
  BY LenProperties
<1>2. 0 \in Good
  <2>1. 0 \in 0 .. len /\ chosen \cap 1 .. 0 = other \cap 1 .. 0
    BY <1>1
  <2> QED BY <2>1
<1>3. ASSUME NEW n \in 1 .. len, n - 1 \in Good
      PROVE  n \in Good
  <2>1. chosen \cap 1 .. (n - 1) = other \cap 1 .. (n - 1)
    BY <1>3
  <2>2. n \in chosen <=> n \in other
    <3> HIDE DEF Good
    <3> QED BY <1>1, <2>1 DEF MatchInTurn
  <2>3. n \in 0 .. len /\ \A i \in 1 .. n : i = n \/ i \in 1 .. (n - 1)
    BY <1>1
  <2> QED BY <2>1, <2>2, <2>3
<1>4. len \in Good
  <2> HIDE DEF Good
  <2>1. 0 .. len \subseteq Good
    BY <1>1, <1>2, <1>3, UpTo
  <2> QED BY <1>1, <2>1
<1> QED BY <1>1, <1>4

(* Without a move the path stays, so that all rules are matched with it.   *)
LEMMA MatchedAtOnce ==
    ASSUME NEW list \in Seq(Rule), NEW head \in RequestHead, NEW chosen \in SUBSET DOMAIN list,
           MatchInTurn(list, head, chosen), Moves(RequestScripts(list), chosen) = {}
    PROVE  /\ PathAfter(head.path, RequestScripts(list), chosen) = head.path
           /\ chosen = {i \in DOMAIN list : Matches(list[i], head)}
<1> DEFINE scripts == RequestScripts(list)
<1>1. \A part \in SUBSET chosen : PathAfter(head.path, scripts, part) = head.path
  <2>1. \A part \in SUBSET chosen : Moves(scripts, part) = {}
    BY DEF Moves, Places
  <2> HIDE DEF scripts
  <2> QED BY <2>1 DEF PathAfter
<1>2. [head EXCEPT !.path = head.path] = head
  BY DEF RequestHead
<1>3. ASSUME NEW i \in DOMAIN list
      PROVE  i \in chosen <=> Matches(list[i], head)
  <2>1. PathAfter(head.path, scripts, chosen \cap 1 .. (i - 1)) = head.path
    BY <1>1
  <2> HIDE DEF scripts
  <2> QED BY <1>2, <2>1 DEF MatchInTurn, scripts
<1> QED BY <1>1, <1>3

(* Both passes match the same rules unless a rule moves the request or the *)
(* rules are replaced in between (SameRulesUnlessMoved; rules.rs:63-100).  *)
THEOREM SameRulesMatch == Spec => []SameRulesUnlessMoved
<1>1. ASSUME IInv, response # None, response_rules = request_rules,
             Moves(RequestScripts(request_rules), MatchedByRequest) = {}
      PROVE  MatchedByResponse = MatchedByRequest
  <2> DEFINE list == request_rules
             M    == MatchedByRequest
  <2>1. request # None /\ list \in Seq(Rule) /\ client \in RequestHead /\ request \in RequestHead
    BY <1>1, GhostsTyped DEF IInv, Applied
  <2>2. PICK chosen \in SUBSET DOMAIN list : RequestOutcome(client, list, request, chosen)
    BY <1>1, <2>1, RequestFollows
  <2>3. M \in SUBSET DOMAIN list /\ MatchInTurn(list, client, M)
    BY <2>2 DEF MatchedByRequest, RequestOutcome
  <2>4. chosen = M
    BY <2>1, <2>2, <2>3, MatchedOnce DEF RequestOutcome
  <2>5. /\ PathAfter(client.path, RequestScripts(list), M) = client.path
        /\ M = {i \in DOMAIN list : Matches(list[i], client)}
    BY <1>1, <2>1, <2>3, MatchedAtOnce
  <2>6. request.host = client.host /\ request.path = client.path
    BY <2>2, <2>4, <2>5 DEF RequestOutcome
  <2>7. \A rule : Matches(rule, request) <=> Matches(rule, client)
    BY <2>6 DEF Matches
  <2> QED BY <1>1, <2>5, <2>7 DEF MatchedByResponse
<1>2. IInv => SameRulesUnlessMoved
  BY <1>1 DEF SameRulesUnlessMoved
<1> QED BY <1>2, RulesAreApplied, PTL

(* A replayed exchange whose record goes to the same host gets the same    *)
(* response from the same answer under the same rules                       *)
(* (ReplaySeesSameResponse; replay.rs:113-160).                            *)
THEOREM ReplaysSeeSameResponse == Spec => []ReplaySeesSameResponse
<1>1. ASSUME IInv, captured # None, response # None,
             request = ReplayRequest(captured.request),
             Authority(captured.request) = captured.request.host,
             upstream = captured.upstream, response_rules = captured.rules
      PROVE  response = captured.response
  <2>1. /\ captured.request \in RequestHead /\ captured.request.host \in Hosts
        /\ request # None /\ upstream # None
        /\ response = ApplyResponseRules(request, upstream, response_rules)
        /\ captured.response = ApplyResponseRules(captured.request, upstream, response_rules)
    BY <1>1 DEF IInv, TypeOK, Exchange, RequestHead, Applied
  <2>2. request \in RequestHead /\ upstream \in ResponseHead /\ response_rules \in Seq(Rule)
    BY <1>1, <2>1, GhostsTyped
  <2>3. request.host = captured.request.host /\ request.path = captured.request.path
    BY <1>1, <2>1, RebuiltTyped DEF ReplayRequest
  <2> QED BY <2>1, <2>2, <2>3, ResponseByMatching
<1>2. IInv => ReplaySeesSameResponse
  BY <1>1 DEF ReplaySeesSameResponse
<1> QED BY <1>2, RulesAreApplied, PTL

-----------------------------------------------------------------------------
(* The store of the rules.                                                 *)

(* From the size check on, and from the rename to the assignment.          *)
Fitting  == {"open", "fill", "protect_temp", "rename", "protect_file", "install"}
Replaced == {"protect_file", "install"}

-----------------------------------------------------------------------------
(* The inductive invariant: what holds between the steps of a replacement. *)

(* A stopped daemon serves nobody.                                         *)
NobodyWhenDown == ~running => writer = {} /\ \A c \in Clients : point[c] = "idle"

(* A client with a command in progress passed the checks before this point *)
(* and has no answer yet.                                                  *)
InProgress ==
    \A c \in Clients :
        /\ point[c] # "idle" => submitted[c] \in Valid /\ reply[c] = "none"
        /\ point[c] \in Fitting => submitted[c] \in Fits

(* What the client that saves has written, and where.                      *)
Written ==
    \A c \in Clients :
        /\ point[c] \in {"protect_temp", "rename"} => temp = submitted[c]
        /\ point[c] \in Replaced => file = submitted[c] /\ diverged = "no"

(* The only gap between the active rules and the file is inside a          *)
(* replacement that has renamed and not yet assigned.                      *)
ActiveFollowsFile ==
    running /\ diverged = "no" /\ (\A c \in Clients : point[c] \notin Replaced) =>
        active = Loaded(file)

(* A set that was renamed into place is what the file holds until another  *)
(* one is, from before its success event on.                               *)
SavedIsKept ==
    \A c \in Clients :
        /\ c \notin replaced
        /\ point[c] \in Replaced \cup {"snapshot"} \/ reply[c] = "rewrite_rules"
        => file = submitted[c] /\ submitted[c] \in Valid \cap Fits

StoreInv == /\ StoreTypeOK /\ OneWriter /\ ActiveIsValid
            /\ NobodyWhenDown /\ InProgress /\ Written
            /\ ActiveFollowsFile /\ SavedIsKept

(* Loading yields a set that passes both checks, and a file with such a    *)
(* set yields that set.                                                    *)
LEMMA LoadedIsGood ==
    /\ \A content \in Contents : Loaded(content) \in Valid \cap Fits
    /\ \A content \in Valid \cap Fits : Loaded(content) = content
BY RuleStoreAssumption DEF Loaded

(* The invariant holds before the first start.                             *)
LEMMA InvInit == StoreInit => StoreInv
<1> SUFFICES ASSUME StoreInit PROVE StoreInv
  OBVIOUS
<1>1. StoreTypeOK
  BY RuleStoreAssumption, LoadedIsGood DEF StoreInit, StoreTypeOK, Points, Replies, Contents
<1>2. OneWriter /\ ActiveIsValid
  BY LoadedIsGood DEF StoreInit, OneWriter, ActiveIsValid, Holding
<1>3. NobodyWhenDown /\ InProgress /\ Written /\ ActiveFollowsFile /\ SavedIsKept
  BY DEF StoreInit, NobodyWhenDown, InProgress, Written, ActiveFollowsFile, SavedIsKept, Fitting,
         Replaced
<1> QED BY <1>1, <1>2, <1>3 DEF StoreInv

-----------------------------------------------------------------------------
(* Each step preserves it.                                                 *)

(* A refused set touches nothing but the answer; an accepted one is valid. *)
LEMMA InvSubmit ==
    ASSUME StoreInv, NEW c \in Clients, NEW set \in Sets,
           Submit(c, set)
    PROVE  StoreInv'
<1> USE DEF StoreInv, StoreTypeOK, OneWriter, Holding, Points
<1> USE DEF Submit, Goto
<1>1. StoreTypeOK'
  BY RuleStoreAssumption DEF Replies, Contents
<1>2. OneWriter' /\ ActiveIsValid'
  BY DEF ActiveIsValid, InProgress
<1>3. NobodyWhenDown' /\ InProgress'
  BY DEF NobodyWhenDown, InProgress, Fitting
<1>4. Written'
  BY DEF Written, Replaced
<1>5. ActiveFollowsFile'
  BY DEF ActiveFollowsFile, Written, InProgress, Replaced, Fitting
<1>6. SavedIsKept'
  BY DEF SavedIsKept, Written, InProgress, Replaced, Fitting
<1> QED BY <1>1, <1>2, <1>3, <1>4, <1>5, <1>6

(* The lock is free, so nobody else is between it and its release.         *)
LEMMA InvAcquire ==
    ASSUME StoreInv, NEW c \in Clients,
           Acquire(c)
    PROVE  StoreInv'
<1> USE DEF StoreInv, StoreTypeOK, OneWriter, Holding, Points
<1> USE DEF Acquire, Goto
<1>1. StoreTypeOK'
  BY DEF Replies, Contents
<1>2. OneWriter' /\ ActiveIsValid'
  BY DEF ActiveIsValid, InProgress
<1>3. NobodyWhenDown' /\ InProgress'
  BY DEF NobodyWhenDown, InProgress, Fitting
<1>4. Written'
  BY DEF Written, Replaced
<1>5. ActiveFollowsFile'
  BY DEF ActiveFollowsFile, Written, InProgress, Replaced, Fitting
<1>6. SavedIsKept'
  BY DEF SavedIsKept, Written, InProgress, Replaced, Fitting
<1> QED BY <1>1, <1>2, <1>3, <1>4, <1>5, <1>6

(* The size check is what makes the set one that a start can load.         *)
LEMMA InvPrepare ==
    ASSUME StoreInv, NEW c \in Clients,
           Prepare(c) \/ PrepareFails(c)
    PROVE  StoreInv'
<1> USE DEF StoreInv, StoreTypeOK, OneWriter, Holding, Points
<1> USE DEF Prepare, PrepareFails, NoFileChange, SaveStep, Goto
<1>1. StoreTypeOK'
  BY DEF Replies, Contents
<1>2. OneWriter' /\ ActiveIsValid'
  BY DEF ActiveIsValid, InProgress
<1>3. NobodyWhenDown' /\ InProgress'
  BY DEF NobodyWhenDown, InProgress, Fitting
<1>4. Written'
  BY DEF Written, Replaced
<1>5. ActiveFollowsFile'
  BY DEF ActiveFollowsFile, Written, InProgress, Replaced, Fitting
<1>6. SavedIsKept'
  BY DEF SavedIsKept, Written, InProgress, Replaced, Fitting
<1> QED BY <1>1, <1>2, <1>3, <1>4, <1>5, <1>6

(* The steps before the rename change no file but the temporary one.       *)
LEMMA InvTemp ==
    ASSUME StoreInv, NEW c \in Clients,
           OpenTemp(c) \/ FillTemp(c) \/ WriteTempFails(c) \/ ProtectTemp(c)
    PROVE  StoreInv'
<1> USE DEF StoreInv, StoreTypeOK, OneWriter, Holding, Points
<1> USE DEF OpenTemp, FillTemp, WriteTempFails, ProtectTemp, NoFileChange, SaveStep, Goto
<1>1. StoreTypeOK'
  BY DEF Replies, Contents
<1>2. OneWriter' /\ ActiveIsValid'
  BY DEF ActiveIsValid, InProgress
<1>3. NobodyWhenDown' /\ InProgress'
  BY DEF NobodyWhenDown, InProgress, Fitting
<1>4. Written'
  BY DEF Written, Replaced
<1>5. ActiveFollowsFile'
  BY DEF ActiveFollowsFile, Written, InProgress, Replaced, Fitting
<1>6. SavedIsKept'
  BY DEF SavedIsKept, Written, InProgress, Replaced, Fitting
<1> QED BY <1>1, <1>2, <1>3, <1>4, <1>5, <1>6

(* The rename puts the own set in place and overwrites all others.         *)
LEMMA InvRename ==
    ASSUME StoreInv, NEW c \in Clients,
           Rename(c)
    PROVE  StoreInv'
<1> USE DEF StoreInv, StoreTypeOK, OneWriter, Holding, Points
<1> USE DEF Rename, SaveStep, Goto
<1>1. StoreTypeOK'
  BY DEF Replies, Contents
<1>2. OneWriter' /\ ActiveIsValid'
  BY DEF ActiveIsValid, InProgress
<1>3. NobodyWhenDown' /\ InProgress'
  BY DEF NobodyWhenDown, InProgress, Fitting
<1>4. Written'
  BY DEF Written, Replaced
<1>5. ActiveFollowsFile'
  BY DEF ActiveFollowsFile, Written, InProgress, Replaced, Fitting
<1>6. SavedIsKept'
  BY DEF SavedIsKept, Written, InProgress, Replaced, Fitting
<1> QED BY <1>1, <1>2, <1>3, <1>4, <1>5, <1>6

(* Without the rename the file is as it was.                               *)
LEMMA InvRenameFails ==
    ASSUME StoreInv, NEW c \in Clients,
           RenameFails(c)
    PROVE  StoreInv'
<1> USE DEF StoreInv, StoreTypeOK, OneWriter, Holding, Points
<1> USE DEF RenameFails, SaveStep, Goto
<1>1. StoreTypeOK'
  BY DEF Replies, Contents
<1>2. OneWriter' /\ ActiveIsValid'
  BY DEF ActiveIsValid, InProgress
<1>3. NobodyWhenDown' /\ InProgress'
  BY DEF NobodyWhenDown, InProgress, Fitting
<1>4. Written'
  BY DEF Written, Replaced
<1>5. ActiveFollowsFile'
  BY DEF ActiveFollowsFile, Written, InProgress, Replaced, Fitting
<1>6. SavedIsKept'
  BY DEF SavedIsKept, Written, InProgress, Replaced, Fitting
<1> QED BY <1>1, <1>2, <1>3, <1>4, <1>5, <1>6

(* The last step of save() either goes on or names the divergence.         *)
LEMMA InvProtect ==
    ASSUME StoreInv, NEW c \in Clients,
           ProtectFile(c) \/ ProtectFileFails(c)
    PROVE  StoreInv'
<1> USE DEF StoreInv, StoreTypeOK, OneWriter, Holding, Points
<1> USE DEF ProtectFile, ProtectFileFails, NoFileChange, SaveStep, Goto
<1>1. StoreTypeOK'
  BY DEF Replies, Contents
<1>2. OneWriter' /\ ActiveIsValid'
  BY DEF ActiveIsValid, InProgress
<1>3. NobodyWhenDown' /\ InProgress'
  BY DEF NobodyWhenDown, InProgress, Fitting
<1>4. Written'
  BY DEF Written, Replaced
<1>5. ActiveFollowsFile'
  BY DEF ActiveFollowsFile, Written, InProgress, Replaced, Fitting
<1>6. SavedIsKept'
  BY DEF SavedIsKept, Written, InProgress, Replaced, Fitting
<1> QED BY <1>1, <1>2, <1>3, <1>4, <1>5, <1>6

(* The active rules catch up with the file before the lock is free.        *)
LEMMA InvInstall ==
    ASSUME StoreInv, NEW c \in Clients,
           Install(c)
    PROVE  StoreInv'
<1> USE DEF StoreInv, StoreTypeOK, OneWriter, Holding, Points
<1> USE DEF Install, Goto
<1>1. StoreTypeOK'
  BY LoadedIsGood DEF Replies, Contents
<1>2. OneWriter' /\ ActiveIsValid'
  BY LoadedIsGood DEF ActiveIsValid, InProgress
<1>3. NobodyWhenDown' /\ InProgress'
  BY LoadedIsGood DEF NobodyWhenDown, InProgress, Fitting
<1>4. Written'
  BY LoadedIsGood DEF Written, Replaced
<1>5. ActiveFollowsFile'
  BY LoadedIsGood DEF ActiveFollowsFile, Written, InProgress, Replaced, Fitting
<1>6. SavedIsKept'
  BY LoadedIsGood DEF SavedIsKept, Written, InProgress, Replaced, Fitting
<1> QED BY <1>1, <1>2, <1>3, <1>4, <1>5, <1>6

(* Answers change no file and no rules.                                    *)
LEMMA InvAnswer ==
    ASSUME StoreInv, NEW c \in Clients,
           Succeed(c) \/ Report(c)
    PROVE  StoreInv'
<1> USE DEF StoreInv, StoreTypeOK, OneWriter, Holding, Points
<1> USE DEF Succeed, Report, Goto
<1>1. StoreTypeOK'
  BY DEF Replies, Contents
<1>2. OneWriter' /\ ActiveIsValid'
  BY DEF ActiveIsValid, InProgress
<1>3. NobodyWhenDown' /\ InProgress'
  BY DEF NobodyWhenDown, InProgress, Fitting
<1>4. Written'
  BY DEF Written, Replaced
<1>5. ActiveFollowsFile'
  BY DEF ActiveFollowsFile, Written, InProgress, Replaced, Fitting
<1>6. SavedIsKept'
  BY DEF SavedIsKept, Written, InProgress, Replaced, Fitting
<1> QED BY <1>1, <1>2, <1>3, <1>4, <1>5, <1>6

(* A crash leaves the files as they are and nobody at work.                *)
LEMMA InvCrash == StoreInv /\ Crash => StoreInv'
<1> SUFFICES ASSUME StoreInv, Crash PROVE StoreInv'
  OBVIOUS
<1>1. StoreTypeOK'
  <2>1. crashes' \in 0 .. MaxCrashes
    BY RuleStoreAssumption DEF Crash, StoreInv, StoreTypeOK
  <2>2. point' \in [Clients -> Points]
    BY DEF Crash, Points
  <2>3. running' \in BOOLEAN /\ writer' \subseteq Clients
    BY DEF Crash
  <2> QED BY <2>1, <2>2, <2>3 DEF Crash, StoreInv, StoreTypeOK
<1>2. OneWriter' /\ ActiveIsValid' /\ NobodyWhenDown' /\ InProgress'
  BY DEF Crash, StoreInv, OneWriter, ActiveIsValid, NobodyWhenDown, InProgress, Holding, Fitting
<1>3. Written' /\ ActiveFollowsFile' /\ SavedIsKept'
  BY DEF Crash, StoreInv, StoreTypeOK, Written, ActiveFollowsFile, SavedIsKept, Replaced
<1> QED BY <1>1, <1>2, <1>3 DEF StoreInv

(* A start takes the rules from the file, or none.                         *)
LEMMA InvStart == StoreInv /\ (Load \/ LoadFails) => StoreInv'
<1> SUFFICES ASSUME StoreInv, Load \/ LoadFails PROVE StoreInv'
  OBVIOUS
<1>1. /\ file \in Contents /\ Unreadable \in Contents /\ Absent \in Contents
      /\ Valid \subseteq Sets
  BY RuleStoreAssumption DEF StoreInv, StoreTypeOK, Contents
<1>2. active' \in Valid /\ temp' = Absent /\ ~running /\ running' = TRUE
  BY <1>1, LoadedIsGood DEF Load, LoadFails, Restart
<1>3. UNCHANGED <<file, writer, point, submitted, reply, submits, crashes, replaced>>
  BY DEF Load, LoadFails, Restart
<1>4. \/ diverged' = "no" /\ active' = Loaded(file)
      \/ diverged' = "load_failed"
  BY DEF Load, LoadFails, Restart
<1>5. StoreTypeOK'
  BY <1>1, <1>2, <1>3, <1>4 DEF StoreInv, StoreTypeOK
<1>6. OneWriter' /\ ActiveIsValid' /\ NobodyWhenDown' /\ InProgress'
  BY <1>2, <1>3 DEF StoreInv, OneWriter, ActiveIsValid, NobodyWhenDown, InProgress
<1>7. Written'
  BY <1>2, <1>3 DEF StoreInv, NobodyWhenDown, Written, Replaced
<1>8. ActiveFollowsFile' /\ SavedIsKept'
  BY <1>2, <1>3, <1>4 DEF StoreInv, ActiveFollowsFile, SavedIsKept, Loaded
<1> QED BY <1>5, <1>6, <1>7, <1>8 DEF StoreInv

(* It only depends on the variables.                                       *)
LEMMA InvStutter == StoreInv /\ UNCHANGED store_vars => StoreInv'
BY DEF store_vars, StoreInv, StoreTypeOK, OneWriter, ActiveIsValid, NobodyWhenDown, InProgress,
       Written, ActiveFollowsFile, SavedIsKept, Loaded

(* Every step preserves the invariant.                                     *)
LEMMA InvNext == StoreInv /\ [StoreNext]_store_vars => StoreInv'
<1> SUFFICES ASSUME StoreInv, [StoreNext]_store_vars PROVE StoreInv'
  OBVIOUS
<1>1. CASE \E c \in Clients, set \in Sets : Submit(c, set)
  BY <1>1, InvSubmit
<1>2. CASE \E c \in Clients : Acquire(c) \/ Install(c) \/ Succeed(c) \/ Report(c)
  BY <1>2, InvAcquire, InvInstall, InvAnswer
<1>3. CASE \E c \in Clients : Save(c)
  BY <1>3, InvPrepare, InvTemp, InvRename, InvRenameFails, InvProtect DEF Save
<1>4. CASE Crash \/ Load \/ LoadFails
  BY <1>4, InvCrash, InvStart
<1>5. CASE Quiescent \/ UNCHANGED store_vars
  BY <1>5, InvStutter DEF Quiescent
<1> QED BY <1>1, <1>2, <1>3, <1>4, <1>5 DEF StoreNext

(* The invariant holds in every behaviour.                                 *)
LEMMA StoreInvariance == StoreSpec => []StoreInv
BY InvInit, InvNext, PTL DEF StoreSpec

-----------------------------------------------------------------------------
(* The properties.                                                         *)

(* State stays typed: the daemon never applies what is no rule set.        *)
THEOREM StoreTypeCorrect == StoreSpec => []StoreTypeOK
<1>1. StoreInv => StoreTypeOK
  BY DEF StoreInv
<1> QED BY <1>1, StoreInvariance, PTL

(* However many clients replace the rules at once, one saves at a time,    *)
(* and no exit of the command keeps the lock or loses it.                  *)
THEOREM ReplacementsExclude == StoreSpec => []OneWriter
<1>1. StoreInv => OneWriter
  BY DEF StoreInv
<1> QED BY <1>1, StoreInvariance, PTL

(* Whatever the file held at start, active rules passed validation.        *)
THEOREM ActiveRulesAreValid == StoreSpec => []ActiveIsValid
<1>1. StoreInv => ActiveIsValid
  BY DEF StoreInv
<1> QED BY <1>1, StoreInvariance, PTL

(* Readers see the rules a restart would load, up to the two divergences   *)
(* the code has.                                                           *)
THEOREM ActiveRulesArePersisted == StoreSpec => []ActiveIsPersisted
<1>1. ASSUME StoreInv PROVE ActiveIsPersisted
  <2>1. writer = {} => \A c \in Clients : point[c] \notin Replaced
    BY <1>1 DEF StoreInv, OneWriter, Holding, Points, Replaced
  <2> QED BY <1>1, <2>1 DEF StoreInv, ActiveFollowsFile, ActiveIsPersisted
<1> QED BY <1>1, StoreInvariance, PTL

(* A success event survives any number of crashes and failed saves.        *)
THEOREM AcknowledgedRulesAreDurable == StoreSpec => []AcknowledgedIsDurable
<1>1. ASSUME StoreInv PROVE AcknowledgedIsDurable
  BY <1>1, LoadedIsGood DEF StoreInv, SavedIsKept, AcknowledgedIsDurable
<1> QED BY <1>1, StoreInvariance, PTL

(* Only a rename changes the file, and only to a whole document that the   *)
(* next start accepts.                                                     *)
THEOREM FileIsNeverTorn == StoreSpec => FileReplacedWhole
<1>1. ASSUME StoreInv, [StoreNext]_store_vars
      PROVE  file' # file => file' \in Valid \cap Fits
  <2>1. ASSUME NEW c \in Clients, Rename(c)
        PROVE  file' \in Valid \cap Fits
    BY <1>1, <2>1 DEF StoreInv, Written, InProgress, Rename, SaveStep, Fitting
  <2>2. file' = file \/ \E c \in Clients : Rename(c)
    BY <1>1 DEF StoreNext, store_vars, Submit, Acquire, Save, SaveStep, NoFileChange, Prepare,
                PrepareFails, OpenTemp, FillTemp, WriteTempFails, ProtectTemp, RenameFails,
                ProtectFile, ProtectFileFails, Install, Succeed, Report, Crash, Load, LoadFails,
                Restart, Quiescent
  <2> QED BY <2>1, <2>2
<1> QED BY <1>1, StoreInvariance, PTL DEF StoreSpec, FileReplacedWhole

(* Rules are assigned after the save, by the client that saved them.       *)
LEMMA InstalledIsSaved ==
    ASSUME StoreInv, [StoreNext]_store_vars, active' # active, running
    PROVE  Loaded(file) = active'
<1>1. ASSUME NEW c \in Clients, Install(c)
      PROVE  Loaded(file) = active'
  <2>1. file = submitted[c] /\ submitted[c] \in Valid \cap Fits /\ active' = submitted[c]
    BY <1>1 DEF StoreInv, Written, InProgress, Install, Replaced, Fitting
  <2> QED BY <2>1, LoadedIsGood
<1>2. active' = active \/ ~running \/ \E c \in Clients : Install(c)
  BY DEF StoreNext, store_vars, Submit, Acquire, Save, SaveStep, Prepare, PrepareFails,
         OpenTemp, FillTemp, WriteTempFails, ProtectTemp, Rename, RenameFails, ProtectFile,
         ProtectFileFails, Succeed, Report, Crash, Load, LoadFails, Restart, Quiescent
<1> QED BY <1>1, <1>2

(* A running daemon only changes to rules that a restart would load.       *)
THEOREM RulesArePersistedFirst == StoreSpec => PersistedBeforeActive
<1>1. StoreInv /\ [StoreNext]_store_vars =>
          [active' # active /\ running => Loaded(file) = active']_store_vars
  BY InstalledIsSaved
<1> QED BY <1>1, StoreInvariance, PTL DEF StoreSpec, PersistedBeforeActive

-----------------------------------------------------------------------------
(* Both together.                                                          *)

(* What Rules leaves open, when its rules change and to what, is what      *)
(* RuleStore does to the active rules: a daemon starts with valid ones,    *)
(* and while it runs they only change as Replace lets them, to a whole     *)
(* list that a client submitted (main.rs:83-111, 215-255).                 *)
THEOREM StoreReplacesRules ==
    ASSUME Valid = RuleSets, Valid \cap Fits \subseteq Submitted
    PROVE  StoreSpec => /\ active \in RuleSets
                        /\ [][ running => \/ active' = active
                                          \/ \E list \in Submitted \ {active} : active' = list
                             ]_store_vars
<1>1. StoreInit => active \in RuleSets
  BY InvInit DEF StoreInv, ActiveIsValid
<1>2. ASSUME StoreInv, [StoreNext]_store_vars, running, active' # active
      PROVE  active' \in Submitted
  <2>1. Loaded(file) = active'
    BY <1>2, InstalledIsSaved
  <2>2. file \in Contents
    BY <1>2 DEF StoreInv, StoreTypeOK
  <2> QED BY <2>1, <2>2, LoadedIsGood
<1>3. StoreInv /\ [StoreNext]_store_vars =>
          [running => \/ active' = active
                      \/ \E list \in Submitted \ {active} : active' = list]_store_vars
  BY <1>2
<1> QED BY <1>1, <1>3, StoreInvariance, PTL DEF StoreSpec
=============================================================================
