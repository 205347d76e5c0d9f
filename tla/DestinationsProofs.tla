------------------------- MODULE DestinationsProofs -------------------------
(***************************************************************************)
(* What Destinations promises, proved for authorities of any length, any   *)
(* bodies and limits, and any number of replays.                           *)
(***************************************************************************)
EXTENDS Destinations, FiniteSetTheorems, SequenceTheorems, WellFoundedInduction, TLAPS

PortValues == {80, 443, 8080}
Defaults == {80, 443}
Text == Seq(Pieces)

-----------------------------------------------------------------------------
(* Texts.                                                                  *)

LEMMA LeastElement ==
    ASSUME NEW S \in SUBSET Nat, S # {}
    PROVE  \E m \in S : \A n \in S : m <= n
<1> DEFINE R == {ss \in Nat \X Nat : ss[1] < ss[2]}
<1>1. IsWellFoundedOn(R, Nat)
  BY NatLessThanWellFounded DEF OpToRel
<1> HIDE DEF R
<1>2. PICK m \in S : \A n \in S : ~ (<<n, m>> \in R)
  BY <1>1, WFMin
<1>3. \A n \in S : ~(n < m)
  BY <1>2 DEF R
<1> QED
  BY <1>3

LEMMA GreatestElement ==
    ASSUME NEW bound \in Nat, NEW S \in SUBSET (1 .. bound), S # {}
    PROVE  \E m \in S : \A n \in S : m >= n
<1> DEFINE T == {k \in 0 .. bound : bound - k \in S}
<1>1. PICK x \in S : TRUE
  OBVIOUS
<1>2. bound - x \in 0 .. bound /\ bound - (bound - x) = x
  BY <1>1
<1>3. T \in SUBSET Nat /\ T # {}
  <2>1. T \in SUBSET Nat
    OBVIOUS
  <2>2. bound - x \in T
    BY <1>1, <1>2
  <2> QED
    BY <2>1, <2>2
<1>4. PICK k \in T : \A j \in T : k <= j
  <2> HIDE DEF T
  <2> QED
    BY <1>3, LeastElement
<1>5. ASSUME NEW n \in S
      PROVE  bound - n \in T /\ bound - n \in Int /\ n \in Int
  <2>1. n \in 1 .. bound
    OBVIOUS
  <2>2. bound - n \in 0 .. bound /\ bound - (bound - n) = n
    BY <2>1
  <2> QED
    BY <2>1, <2>2
<1>6. \A n \in S : k <= bound - n /\ n \in Int
  BY <1>4, <1>5
<1>7. k \in 0 .. bound /\ bound - k \in S
  BY <1>4
<1> QED
  BY <1>6, <1>7

LEMMA TextFacts ==
    ASSUME NEW text \in Text
    PROVE  /\ Len(text) \in Nat /\ DOMAIN text = 1 .. Len(text)
           /\ \A i \in DOMAIN text : text[i] \in Pieces
           /\ text # << >> <=> Len(text) > 0
<1>1. text # << >> => Len(text) > 0
  BY EmptySeq DEF Text
<1>2. Len(text) > 0 => text # << >>
  BY EmptySeq
<1> QED
  BY <1>1, <1>2, ElementOfSeq DEF Text

(* The first place of a piece in a text.                                   *)
LEMMA FirstAtIs ==
    ASSUME NEW text \in Text, NEW piece
    PROVE  /\ FirstAt(text, piece) \in 0 .. Len(text)
           /\ FirstAt(text, piece) = 0 => \A i \in DOMAIN text : text[i] # piece
           /\ FirstAt(text, piece) # 0 =>
                 /\ FirstAt(text, piece) \in DOMAIN text
                 /\ text[FirstAt(text, piece)] = piece
                 /\ \A i \in 1 .. FirstAt(text, piece) - 1 : text[i] # piece
<1> DEFINE I == {i \in 1 .. Len(text) : text[i] = piece}
<1>1. FirstAt(text, piece) = IF I # {} THEN Min(I) ELSE 0
  BY DEF FirstAt, SelectInSeq
<1>2. Len(text) \in Nat /\ DOMAIN text = 1 .. Len(text)
  BY TextFacts
<1>3. CASE I = {}
  BY <1>1, <1>2, <1>3
<1>4. CASE I # {}
  <2>1. I \in SUBSET Nat
    BY <1>2
  <2>2. \E m \in I : \A n \in I : m <= n
    <3> HIDE DEF I
    <3> QED
      BY <1>4, <2>1, LeastElement
  <2>3. Min(I) \in I /\ \A n \in I : Min(I) <= n
    <3> HIDE DEF I
    <3> QED
      BY <2>2 DEF Min
  <2>4. PICK m : m = Min(I)
    OBVIOUS
  <2>5. m \in 1 .. Len(text) /\ text[m] = piece /\ \A n \in 1 .. Len(text) : text[n] = piece => m <= n
    BY <2>3, <2>4
  <2>6. \A i \in 1 .. m - 1 : text[i] # piece
    BY <1>2, <2>5
  <2> QED
    BY <1>1, <1>2, <1>4, <2>4, <2>5, <2>6
<1> QED
  BY <1>3, <1>4

LEMMA LastAtIs ==
    ASSUME NEW text \in Text, NEW piece
    PROVE  /\ LastAt(text, piece) \in 0 .. Len(text)
           /\ LastAt(text, piece) = 0 => \A i \in DOMAIN text : text[i] # piece
           /\ LastAt(text, piece) # 0 =>
                 /\ LastAt(text, piece) \in DOMAIN text
                 /\ text[LastAt(text, piece)] = piece
                 /\ \A i \in DOMAIN text : text[i] = piece => i <= LastAt(text, piece)
<1> DEFINE I == {i \in 1 .. Len(text) : text[i] = piece}
<1>1. LastAt(text, piece) = IF I # {} THEN Max(I) ELSE 0
  BY DEF LastAt, SelectLastInSeq
<1>2. Len(text) \in Nat /\ DOMAIN text = 1 .. Len(text)
  BY TextFacts
<1>3. CASE I = {}
  BY <1>1, <1>2, <1>3
<1>4. CASE I # {}
  <2>1. I \in SUBSET (1 .. Len(text))
    OBVIOUS
  <2>2. \E m \in I : \A n \in I : m >= n
    <3> HIDE DEF I
    <3> QED
      BY <1>2, <1>4, <2>1, GreatestElement
  <2>3. Max(I) \in I /\ \A n \in I : Max(I) >= n
    <3> HIDE DEF I
    <3> QED
      BY <2>2 DEF Max
  <2>4. PICK m : m = Max(I)
    OBVIOUS
  <2>5. m \in 1 .. Len(text) /\ text[m] = piece /\ \A n \in 1 .. Len(text) : text[n] = piece => n <= m
    BY <2>3, <2>4
  <2> QED
    BY <1>1, <1>2, <1>4, <2>4, <2>5
<1> QED
  BY <1>3, <1>4

LEMMA ColonsAre ==
    ASSUME NEW text \in Text
    PROVE  /\ Colons(text) \in Nat
           /\ Colons(text) > 0 <=> \E i \in DOMAIN text : text[i] = ":"
           /\ Colons(text) > 1 <=>
                 \E i, j \in DOMAIN text : i # j /\ text[i] = ":" /\ text[j] = ":"
<1> DEFINE S == {i \in DOMAIN text : text[i] = ":"}
<1>1. Len(text) \in Nat /\ DOMAIN text = 1 .. Len(text)
  BY TextFacts
<1>2. IsFiniteSet(1 .. Len(text))
  BY <1>1, FS_Interval
<1>3. S \subseteq 1 .. Len(text)
  BY <1>1
<1>4. Colons(text) = Cardinality(S)
  BY DEF Colons
<1>5. (\E i \in DOMAIN text : text[i] = ":") <=> S # {}
  OBVIOUS
<1>6. (\E i, j \in DOMAIN text : i # j /\ text[i] = ":" /\ text[j] = ":")
          <=> \E i, j \in S : i # j
  OBVIOUS
<1> HIDE DEF S
<1>7. IsFiniteSet(S)
  BY <1>2, <1>3, FS_Subset
<1>8. Cardinality(S) \in Nat
  BY <1>7, FS_CardinalityType
<1>9. Cardinality(S) = 0 <=> S = {}
  BY <1>7, FS_EmptySet
<1>10. Cardinality(S) = 1 <=> \E x : S = {x}
  BY <1>7, FS_Singleton
<1>11. S # {} /\ ~(\E x : S = {x}) <=> \E i, j \in S : i # j
  OBVIOUS
<1> QED
  BY <1>4, <1>5, <1>6, <1>8, <1>9, <1>10, <1>11

(* A part of a text is a text that has its pieces.                         *)
LEMMA PartIs ==
    ASSUME NEW text \in Text, NEW m \in Int, NEW n \in Int, 1 <= m, n <= Len(text)
    PROVE  /\ SubSeq(text, m, n) \in Text
           /\ Len(SubSeq(text, m, n)) = IF m <= n THEN n - m + 1 ELSE 0
           /\ \A i \in 1 .. n - m + 1 : SubSeq(text, m, n)[i] = text[m + i - 1]
<1>1. Len(text) \in Nat /\ \A i \in 1 .. Len(text) : text[i] \in Pieces
  BY TextFacts
<1>2. \A i \in m .. n : text[i] \in Pieces
  BY <1>1
<1> QED
  BY <1>2, SubSeqProperties DEF Text

LEMMA PartIsText ==
    ASSUME NEW text \in Text, NEW m \in Int, NEW n \in Int, 1 <= m, n <= Len(text),
           NEW part \in Text, Len(part) = IF m <= n THEN n - m + 1 ELSE 0,
           \A i \in 1 .. n - m + 1 : part[i] = text[m + i - 1]
    PROVE  SubSeq(text, m, n) = part
<1> DEFINE s == SubSeq(text, m, n)
<1>1. /\ s \in Text /\ Len(s) = Len(part)
      /\ \A i \in 1 .. n - m + 1 : s[i] = part[i]
  BY PartIs
<1>2. \A i \in 1 .. Len(s) : i \in 1 .. n - m + 1
  BY <1>1
<1> HIDE DEF s
<1>3. s = part
  BY <1>1, <1>2, SeqEqual DEF Text
<1> QED
  BY <1>3 DEF s

-----------------------------------------------------------------------------
(* Parsers.                                                                *)

LEMMA PortNumbers ==
    /\ Numbers = {"80", "443", "8080"}
    /\ \A t \in Numbers : PortNumber[t] \in PortValues
    /\ \A p \in PortValues : \E t \in Numbers : PortNumber[t] = p
    /\ \A t, u \in Numbers : PortNumber[t] = PortNumber[u] => t = u
BY DEF Numbers, PortNumber, PortValues

LEMMA PortsAre ==
    ASSUME NEW text
    PROVE  /\ Ports(text) \subseteq PortValues
           /\ \A p, q \in Ports(text) : p = q
           /\ Ports(text) # {} => Len(text) = 1 /\ text[1] \in Numbers
BY PortNumbers DEF Ports

LEMMA PortsAfterAre ==
    ASSUME NEW text \in Text, NEW default \in Defaults
    PROVE  /\ PortsAfter(text, default) \subseteq PortValues
           /\ \A p, q \in PortsAfter(text, default) : p = q
<1>1. CASE text = << >>
  <2>1. PortsAfter(text, default) = {default}
    BY <1>1 DEF PortsAfter, StartsWith
  <2> QED
    BY <2>1 DEF Defaults, PortValues
<1>2. CASE text # << >> /\ StartsWith(text, ":")
  <2>1. PortsAfter(text, default) = Ports(After(text, 1))
    BY <1>2 DEF PortsAfter
  <2> QED
    BY <2>1, PortsAre
<1>3. CASE text # << >> /\ ~StartsWith(text, ":")
  <2>1. PortsAfter(text, default) = {}
    BY <1>3 DEF PortsAfter
  <2> QED
    BY <2>1
<1> QED
  BY <1>1, <1>2, <1>3

(* What a replay can be sent to: a host that needs no bracket, or one that *)
(* begins with a bracket and has none that closes.                         *)
Sendable(host) ==
    /\ host \in Text /\ host # << >>
    /\ StartsWith(host, "[") => \A i \in DOMAIN host : host[i] # "]"

IsPlace(place) ==
    /\ place = Place(place.host, place.port)
    /\ Sendable(place.host) /\ place.port \in PortValues

LEMMA BracketedIs ==
    ASSUME NEW text \in Text, StartsWith(text, "["), NEW default \in Defaults,
           NEW place \in Bracketed(text, default)
    PROVE  /\ place.host # << >> => IsPlace(place)
           /\ place.host \in Text /\ place.port \in PortValues
           /\ \A q \in Bracketed(text, default) : q = place
<1>1. PICK close : close = FirstAt(text, "]")
  OBVIOUS
<1>2. /\ close \in DOMAIN text /\ text[close] = "]" /\ \A i \in 1 .. close - 1 : text[i] # "]"
  <2>1. close # 0
    BY <1>1 DEF Bracketed
  <2> QED
    BY <1>1, <2>1, FirstAtIs
<1>3. PICK host : host = SubSeq(text, 2, close - 1)
  OBVIOUS
<1>4. PICK rest : rest = After(text, close)
  OBVIOUS
<1>5. Bracketed(text, default) = {Place(host, p) : p \in PortsAfter(rest, default)}
  <2>1. close # 0
    BY <1>2, TextFacts
  <2> QED
    BY <1>1, <1>3, <1>4, <2>1 DEF Bracketed
<1>6. Len(text) \in Nat /\ DOMAIN text = 1 .. Len(text) /\ text[1] = "["
  BY TextFacts DEF StartsWith
<1>7. host \in Text /\ \A i \in DOMAIN host : host[i] # "]"
  <2>1. close - 1 <= Len(text) /\ close - 1 \in Int /\ close \in 1 .. Len(text)
    BY <1>2, <1>6
  <2>2. /\ host \in Text /\ Len(host) = IF 2 <= close - 1 THEN close - 1 - 2 + 1 ELSE 0
        /\ \A i \in 1 .. close - 1 - 2 + 1 : host[i] = text[2 + i - 1]
    BY <1>3, <2>1, PartIs
  <2>3. ASSUME NEW i \in DOMAIN host
        PROVE  host[i] # "]"
    <3>1. DOMAIN host = 1 .. Len(host)
      BY <2>2, TextFacts
    <3>2. i \in 1 .. close - 1 - 2 + 1 /\ 2 + i - 1 \in 1 .. close - 1
      BY <2>1, <2>2, <3>1
    <3> QED
      BY <1>2, <2>2, <3>2
  <2> QED
    BY <2>2, <2>3
<1>8. rest \in Text
  <2>1. 1 <= close + 1 /\ close + 1 \in Int
    BY <1>2, <1>6
  <2> QED
    BY <1>4, <1>6, <2>1, PartIs DEF After
<1>9. PICK p \in PortsAfter(rest, default) : place = Place(host, p)
  BY <1>5
<1>10. p \in PortValues /\ \A q \in PortsAfter(rest, default) : q = p
  BY <1>8, <1>9, PortsAfterAre
<1>11. place.host = host /\ place.port = p
  BY <1>9 DEF Place
<1> QED
  BY <1>5, <1>7, <1>9, <1>10, <1>11 DEF IsPlace, Sendable

LEMMA AroundColonIs ==
    ASSUME NEW text \in Text, text # << >>, ~StartsWith(text, "["), NEW default \in Defaults,
           NEW place \in AroundColon(text, default)
    PROVE  IsPlace(place) /\ \A q \in AroundColon(text, default) : q = place
<1>1. PICK colon : colon = LastAt(text, ":")
  OBVIOUS
<1>2. colon \in 0 .. Len(text) /\ Len(text) \in Nat /\ Len(text) > 0 /\ text[1] # "["
  BY <1>1, LastAtIs, TextFacts DEF StartsWith
<1>3. CASE colon = 0
  <2>1. AroundColon(text, default) = {Place(text, default)}
    BY <1>1, <1>3 DEF AroundColon
  <2> QED
    BY <2>1 DEF IsPlace, Sendable, Place, Defaults, PortValues
<1>4. CASE colon = 1
  <2>1. AroundColon(text, default) = {}
    BY <1>1, <1>4 DEF AroundColon
  <2> QED
    BY <2>1
<1>5. CASE colon > 1
  <2>1. PICK host : host = SubSeq(text, 1, colon - 1)
    OBVIOUS
  <2>2. AroundColon(text, default) = {Place(host, p) : p \in Ports(After(text, colon))}
    <3>1. colon # 1
      BY <1>2, <1>5
    <3> QED
      BY <1>1, <1>5, <2>1, <3>1 DEF AroundColon
  <2>3. /\ host \in Text /\ Len(host) = IF 1 <= colon - 1 THEN colon - 1 - 1 + 1 ELSE 0
        /\ \A i \in 1 .. colon - 1 - 1 + 1 : host[i] = text[1 + i - 1]
    BY <1>2, <2>1, PartIs
  <2>4. Len(host) > 0 /\ host[1] = text[1]
    BY <1>2, <1>5, <2>3
  <2>5. Sendable(host)
    BY <1>2, <2>3, <2>4, TextFacts DEF Sendable, StartsWith
  <2>6. PICK p \in Ports(After(text, colon)) : place = Place(host, p)
    BY <2>2
  <2>7. p \in PortValues /\ \A q \in Ports(After(text, colon)) : q = p
    BY <2>6, PortsAre
  <2> QED
    BY <2>2, <2>5, <2>6, <2>7 DEF IsPlace, Place
<1> QED
  BY <1>2, <1>3, <1>4, <1>5

LEMMA ParseCases ==
    ASSUME NEW text \in Text, NEW default \in Defaults
    PROVE  /\ text = << >> => ParseAuthority(text, default) = {}
           /\ StartsWith(text, "[") =>
                 ParseAuthority(text, default) = {p \in Bracketed(text, default) : p.host # << >>}
           /\ text # << >> /\ ~StartsWith(text, "[") =>
                 ParseAuthority(text, default) =
                     IF Colons(text) > 1 THEN {Place(text, default)} ELSE AroundColon(text, default)
<1>1. CASE text = << >>
  <2>1. ~StartsWith(text, "[")
    BY <1>1 DEF StartsWith
  <2>2. ~(Colons(text) > 1)
    <3>1. DOMAIN text = {}
      BY <1>1
    <3> QED
      BY <3>1, ColonsAre
  <2>3. ParseAuthority(text, default) = {}
    BY <1>1, <2>1, <2>2 DEF ParseAuthority
  <2> QED
    BY <1>1, <2>1, <2>3
<1>2. CASE text # << >> /\ StartsWith(text, "[")
  BY <1>2 DEF ParseAuthority
<1>3. CASE text # << >> /\ ~StartsWith(text, "[")
  BY <1>3 DEF ParseAuthority
<1> QED
  BY <1>1, <1>2, <1>3

(* A replay is sent to one place or nowhere.                               *)
LEMMA ParsedIs ==
    ASSUME NEW text \in Text, NEW default \in Defaults,
           NEW place \in ParseAuthority(text, default)
    PROVE  IsPlace(place) /\ \A q \in ParseAuthority(text, default) : q = place
<1>1. CASE text = << >>
  BY <1>1, ParseCases
<1>2. CASE StartsWith(text, "[")
  BY <1>2, ParseCases, BracketedIs
<1>3. CASE text # << >> /\ ~StartsWith(text, "[") /\ Colons(text) > 1
  <2>1. ParseAuthority(text, default) = {Place(text, default)}
    BY <1>3, ParseCases
  <2> QED
    BY <1>3, <2>1 DEF IsPlace, Sendable, Place, Defaults, PortValues
<1>4. CASE text # << >> /\ ~StartsWith(text, "[") /\ ~(Colons(text) > 1)
  BY <1>4, ParseCases, AroundColonIs
<1> QED
  BY <1>1, <1>2, <1>3, <1>4

LEMMA SplitCases ==
    ASSUME NEW text \in Text, NEW default \in Defaults
    PROVE  /\ text = << >> => SplitAuthority(text, default) = {}
           /\ StartsWith(text, "[") =>
                 SplitAuthority(text, default) = Bracketed(text, default)
           /\ text # << >> /\ ~StartsWith(text, "[") =>
                 SplitAuthority(text, default) =
                     IF Colons(SubSeq(text, 1, LastAt(text, ":") - 1)) > 0
                     THEN {Place(text, default)} ELSE AroundColon(text, default)
<1>1. CASE text = << >>
  <2>1. ~StartsWith(text, "[")
    BY <1>1 DEF StartsWith
  <2>2. PICK colon : colon = LastAt(text, ":")
    OBVIOUS
  <2>3. ~(Colons(SubSeq(text, 1, colon - 1)) > 0)
    <3>1. Len(text) = 0
      BY <1>1
    <3>2. colon = 0
      BY <2>2, <3>1, LastAtIs
    <3>3. SubSeq(text, 1, colon - 1) = << >>
      BY <3>2, SubSeqEmpty
    <3>4. DOMAIN << >> = {} /\ << >> \in Text
      BY <1>1
    <3> QED
      BY <3>3, <3>4, ColonsAre
  <2>4. SplitAuthority(text, default) = {}
    BY <1>1, <2>1, <2>2, <2>3 DEF SplitAuthority
  <2> QED
    BY <1>1, <2>1, <2>4
<1>2. CASE text # << >> /\ StartsWith(text, "[")
  BY <1>2 DEF SplitAuthority
<1>3. CASE text # << >> /\ ~StartsWith(text, "[")
  BY <1>3 DEF SplitAuthority
<1> QED
  BY <1>1, <1>2, <1>3

(* The proxy and a replay read the same place in a Host header, although   *)
(* one looks for colons before the last and the other counts them.         *)
LEMMA SplitAgrees ==
    ASSUME NEW text \in Text, NEW default \in Defaults,
           NEW place \in SplitAuthority(text, default), NEW p \in ParseAuthority(text, default)
    PROVE  p = place
<1>1. CASE text = << >>
  BY <1>1, ParseCases
<1>2. CASE StartsWith(text, "[")
  BY <1>2, ParseCases, SplitCases, BracketedIs
<1>3. CASE text # << >> /\ ~StartsWith(text, "[")
  <2>1. PICK colon : colon = LastAt(text, ":")
    OBVIOUS
  <2>2. PICK before : before = SubSeq(text, 1, colon - 1)
    OBVIOUS
  <2>3. /\ colon \in 0 .. Len(text) /\ Len(text) \in Nat /\ DOMAIN text = 1 .. Len(text)
        /\ colon = 0 => \A i \in DOMAIN text : text[i] # ":"
        /\ colon # 0 => /\ text[colon] = ":"
                        /\ \A i \in DOMAIN text : text[i] = ":" => i <= colon
    BY <2>1, LastAtIs, TextFacts
  <2>4. /\ before \in Text /\ Len(before) = IF 1 <= colon - 1 THEN colon - 1 - 1 + 1 ELSE 0
        /\ \A i \in 1 .. colon - 1 - 1 + 1 : before[i] = text[1 + i - 1]
    BY <2>2, <2>3, PartIs
  <2>5. \A i \in 1 .. colon - 1 : i \in DOMAIN before /\ before[i] = text[i]
    BY <2>3, <2>4, TextFacts
  <2>6. \A i \in DOMAIN before : i \in 1 .. colon - 1
    BY <2>3, <2>4, TextFacts
  <2>7. Colons(before) > 0 => Colons(text) > 1
    <3> SUFFICES ASSUME NEW i \in DOMAIN before, before[i] = ":"
                 PROVE  Colons(text) > 1
      BY <2>4, ColonsAre
    <3>1. i \in 1 .. colon - 1 /\ text[i] = ":"
      BY <2>5, <2>6
    <3>2. colon \in DOMAIN text /\ i \in DOMAIN text /\ i # colon /\ text[colon] = ":"
      BY <2>3, <3>1
    <3> QED
      BY <3>1, <3>2, ColonsAre
  <2>8. Colons(text) > 1 => Colons(before) > 0
    <3> SUFFICES ASSUME NEW i \in DOMAIN text, NEW j \in DOMAIN text, i # j,
                        text[i] = ":", text[j] = ":"
                 PROVE  Colons(before) > 0
      BY ColonsAre
    <3>1. i \in 1 .. colon - 1 \/ j \in 1 .. colon - 1
      BY <2>3
    <3> QED
      BY <2>4, <2>5, <3>1, ColonsAre
  <2>9. SplitAuthority(text, default) = ParseAuthority(text, default)
    BY <1>3, <2>1, <2>2, <2>7, <2>8, ParseCases, SplitCases
  <2> QED
    BY <2>9, ParsedIs
<1> QED
  BY <1>1, <1>2, <1>3

-----------------------------------------------------------------------------
(* Formatters: what a replay writes, the next one reads.                   *)

LEMMA PortSuffixIs ==
    ASSUME NEW port \in PortValues, NEW default \in Defaults
    PROVE  /\ port = default => PortSuffix(port, default) = << >>
           /\ port # default => \E t \in Numbers : /\ PortSuffix(port, default) = <<":", t>>
                                                   /\ PortNumber[t] = port
           /\ PortSuffix(port, default) \in Text
<1>1. PICK t : t = CHOOSE u \in Numbers : PortNumber[u] = port
  OBVIOUS
<1>2. t \in Numbers /\ PortNumber[t] = port
  BY <1>1, PortNumbers
<1>3. <<":", t>> \in Text /\ << >> \in Text
  <2>1. ":" \in Pieces /\ t \in Pieces
    BY <1>2 DEF Pieces
  <2> QED
    BY <2>1 DEF Text
<1>4. port # default => PortSuffix(port, default) = <<":", t>>
  BY <1>1 DEF PortSuffix
<1>5. port = default => PortSuffix(port, default) = << >>
  BY DEF PortSuffix
<1> QED
  BY <1>2, <1>3, <1>4, <1>5

LEMMA SuffixFacts ==
    ASSUME NEW port \in PortValues, NEW default \in Defaults
    PROVE  /\ PortsAfter(PortSuffix(port, default), default) = {port}
           /\ \A i \in DOMAIN PortSuffix(port, default) : PortSuffix(port, default)[i] # "]"
<1>1. CASE port = default
  <2>1. PortSuffix(port, default) = << >>
    BY <1>1, PortSuffixIs
  <2>2. PortsAfter(<< >>, default) = {default}
    BY DEF PortsAfter, StartsWith
  <2> QED
    BY <1>1, <2>1, <2>2
<1>2. CASE port # default
  <2>1. PICK t \in Numbers : PortSuffix(port, default) = <<":", t>> /\ PortNumber[t] = port
    BY <1>2, PortSuffixIs
  <2>2. <<":", t>> \in Text /\ <<t>> \in Text /\ Len(<<":", t>>) = 2 /\ Len(<<t>>) = 1
    <3>1. ":" \in Pieces /\ t \in Pieces
      BY DEF Pieces
    <3> QED
      BY <3>1 DEF Text
  <2>3. After(<<":", t>>, 1) = <<t>>
    <3>1. PICK u, v : u = <<":", t>> /\ v = <<t>>
      OBVIOUS
    <3>2. u \in Text /\ v \in Text /\ Len(u) = 2 /\ Len(v) = 1 /\ u[2] = t /\ v[1] = t
      BY <2>2, <3>1
    <3>3. PICK n : n = 2
      OBVIOUS
    <3>4. /\ n \in Int /\ 1 <= n /\ n <= Len(u)
          /\ Len(v) = IF n <= n THEN n - n + 1 ELSE 0
          /\ \A i \in 1 .. n - n + 1 : v[i] = u[n + i - 1]
      BY <3>2, <3>3
    <3>5. SubSeq(u, n, n) = v
      BY <3>2, <3>4, PartIsText
    <3> QED
      BY <3>1, <3>2, <3>3, <3>5 DEF After
  <2>4. Ports(<<t>>) = {port}
    BY <2>1, <2>2 DEF Ports
  <2>5. <<":", t>> # << >> /\ StartsWith(<<":", t>>, ":")
    BY DEF StartsWith
  <2>6. PortsAfter(<<":", t>>, default) = {port}
    BY <2>3, <2>4, <2>5 DEF PortsAfter
  <2>7. t # "]"
    BY PortNumbers
  <2> QED
    BY <2>1, <2>6, <2>7
<1> QED
  BY <1>1, <1>2

(* What is found in a text that is put together.                           *)
LEMMA JoinIs ==
    ASSUME NEW a \in Text, NEW b \in Text
    PROVE  /\ a \o b \in Text /\ Len(a \o b) = Len(a) + Len(b)
           /\ DOMAIN (a \o b) = 1 .. Len(a) + Len(b)
           /\ \A i \in 1 .. Len(a) : (a \o b)[i] = a[i]
           /\ \A i \in 1 .. Len(b) : (a \o b)[Len(a) + i] = b[i]
<1>1. /\ a \o b \in Text /\ Len(a \o b) = Len(a) + Len(b)
      /\ \A i \in 1 .. Len(a) + Len(b) : (a \o b)[i] = IF i <= Len(a) THEN a[i] ELSE b[i - Len(a)]
  BY ConcatProperties DEF Text
<1>2. Len(a) \in Nat /\ Len(b) \in Nat
  BY TextFacts
<1>3. ASSUME NEW i \in 1 .. Len(b)
      PROVE  (a \o b)[Len(a) + i] = b[i]
  <2>1. Len(a) + i \in 1 .. Len(a) + Len(b) /\ ~(Len(a) + i <= Len(a)) /\ (Len(a) + i) - Len(a) = i
    BY <1>2
  <2> QED
    BY <1>1, <2>1
<1> QED
  BY <1>1, <1>2, <1>3, TextFacts

WithBrackets(host, suffix) == (<<"[">> \o host \o <<"]">>) \o suffix

Encloses(t, h, s) ==
    /\ t \in Text /\ Len(t) = Len(h) + 2 + Len(s) /\ t[1] = "[" /\ t[Len(h) + 2] = "]"
    /\ \A i \in 1 .. Len(h) : t[i + 1] = h[i]
    /\ \A i \in 1 .. Len(s) : t[Len(h) + 2 + i] = s[i]

LEMMA Enclosed ==
    ASSUME NEW h \in Text, NEW s \in Text, NEW t, t = WithBrackets(h, s)
    PROVE  Encloses(t, h, s)
<1>1. <<"[">> \in Text /\ <<"]">> \in Text /\ Len(<<"[">>) = 1 /\ Len(<<"]">>) = 1
  <2>1. "[" \in Pieces /\ "]" \in Pieces
    BY DEF Pieces
  <2> QED
    BY <2>1 DEF Text
<1>2. PICK a : a = <<"[">> \o h
  OBVIOUS
<1>3. PICK b : b = a \o <<"]">>
  OBVIOUS
<1>4. Len(h) \in Nat /\ Len(s) \in Nat
  BY TextFacts
<1>5. /\ a \in Text /\ Len(a) = 1 + Len(h) /\ a[1] = "["
      /\ \A i \in 1 .. Len(h) : a[1 + i] = h[i]
  <2>1. <<"[">>[1] = "[" /\ 1 \in 1 .. 1
    OBVIOUS
  <2> QED
    BY <1>1, <1>2, <2>1, JoinIs
<1>6. /\ b \in Text /\ Len(b) = Len(h) + 2 /\ b[1] = "[" /\ b[Len(h) + 2] = "]"
      /\ \A i \in 1 .. Len(h) : b[i + 1] = h[i]
  <2>1. <<"]">>[1] = "]" /\ 1 \in 1 .. 1
    OBVIOUS
  <2>2. /\ b \in Text /\ Len(b) = Len(a) + 1
        /\ \A i \in 1 .. Len(a) : b[i] = a[i]
        /\ b[Len(a) + 1] = "]"
    BY <1>1, <1>3, <1>5, <2>1, JoinIs
  <2>3. Len(a) + 1 = Len(h) + 2 /\ 1 \in 1 .. Len(a) /\ \A i \in 1 .. Len(h) : i + 1 \in 1 .. Len(a) /\ i + 1 = 1 + i
    BY <1>4, <1>5
  <2> QED
    BY <1>5, <2>2, <2>3
<1>7. t = b \o s
  BY <1>2, <1>3 DEF WithBrackets
<1>8. /\ t \in Text /\ Len(t) = Len(b) + Len(s)
      /\ \A i \in 1 .. Len(b) : t[i] = b[i]
      /\ \A i \in 1 .. Len(s) : t[Len(b) + i] = s[i]
  <2>1. /\ b \o s \in Text /\ Len(b \o s) = Len(b) + Len(s)
        /\ \A i \in 1 .. Len(b) : (b \o s)[i] = b[i]
        /\ \A i \in 1 .. Len(s) : (b \o s)[Len(b) + i] = s[i]
    BY <1>6, JoinIs
  <2> QED
    BY <1>7, <2>1
<1>9. /\ 1 \in 1 .. Len(b) /\ Len(h) + 2 \in 1 .. Len(b)
      /\ \A i \in 1 .. Len(h) : i + 1 \in 1 .. Len(b)
  BY <1>4, <1>6
<1> QED
  BY <1>6, <1>8, <1>9 DEF Encloses

LEMMA EnclosedReads ==
    ASSUME NEW h \in Text, h # << >>, NEW port \in PortValues, NEW default \in Defaults,
           NEW s \in Text, PortsAfter(s, default) = {port},
           NEW t \in Text, Encloses(t, h, s)
    PROVE  /\ ParseAuthority(t, default) \subseteq {Place(h, port)}
           /\ PlainHost(h) => Place(h, port) \in ParseAuthority(t, default)
<1>1. PICK n, m : n = Len(h) /\ m = Len(s)
  OBVIOUS
<1>2. n \in Nat /\ m \in Nat /\ n > 0 /\ DOMAIN h = 1 .. n
  BY <1>1, TextFacts
<1>3. /\ t \in Text /\ Len(t) = n + 2 + m /\ t[1] = "[" /\ t[n + 2] = "]"
      /\ \A i \in 1 .. n : t[i + 1] = h[i]
      /\ \A i \in 1 .. m : t[n + 2 + i] = s[i]
  BY <1>1 DEF Encloses
<1>4. StartsWith(t, "[")
  BY <1>2, <1>3, TextFacts DEF StartsWith
<1>5. PICK close : close = FirstAt(t, "]")
  OBVIOUS
<1>6. /\ close \in 2 .. n + 2 /\ t[close] = "]" /\ \A i \in 1 .. close - 1 : t[i] # "]"
  <2>1. n + 2 \in DOMAIN t /\ DOMAIN t = 1 .. n + 2 + m
    <3>1. DOMAIN t = 1 .. Len(t)
      BY TextFacts
    <3>2. n + 2 \in 1 .. n + 2 + m
      BY <1>2
    <3> QED
      BY <1>3, <3>1, <3>2
  <2>2. close # 0
    BY <1>3, <1>5, <2>1, FirstAtIs
  <2>3. /\ close \in 1 .. n + 2 + m /\ t[close] = "]" /\ \A i \in 1 .. close - 1 : t[i] # "]"
    BY <1>5, <2>1, <2>2, FirstAtIs
  <2>4. close # 1
    BY <1>3, <2>3
  <2>5. ~(n + 2 <= close - 1)
    BY <1>2, <1>3, <2>3
  <2> QED
    BY <1>2, <2>3, <2>4, <2>5
<1>7. PICK host, rest : host = SubSeq(t, 2, close - 1) /\ rest = After(t, close)
  OBVIOUS
<1>8. Bracketed(t, default) = {Place(host, p) : p \in PortsAfter(rest, default)}
  <2>1. close # 0
    BY <1>6
  <2> QED
    BY <1>5, <1>7, <2>1 DEF Bracketed
<1>9. ParseAuthority(t, default) = {p \in Bracketed(t, default) : p.host # << >>}
  BY <1>3, <1>4, ParseCases
<1>10. CASE close = n + 2
  <2>1. host = h
    <3>1. \A i \in 1 .. close - 1 - 2 + 1 : h[i] = t[2 + i - 1]
      <4>1. ASSUME NEW i \in 1 .. close - 1 - 2 + 1
            PROVE  h[i] = t[2 + i - 1]
        <5>1. i \in 1 .. n /\ 2 + i - 1 = i + 1
          BY <1>2, <1>10
        <5> QED
          BY <1>3, <5>1
      <4> QED
        BY <4>1
    <3>2. /\ 2 \in Int /\ close - 1 \in Int /\ 1 <= 2 /\ close - 1 <= Len(t)
          /\ Len(h) = IF 2 <= close - 1 THEN close - 1 - 2 + 1 ELSE 0
      BY <1>1, <1>2, <1>3, <1>10
    <3>3. PICK a, b : a = 2 /\ b = close - 1
      OBVIOUS
    <3>4. /\ a \in Int /\ b \in Int /\ 1 <= a /\ b <= Len(t)
          /\ Len(h) = IF a <= b THEN b - a + 1 ELSE 0
          /\ \A i \in 1 .. b - a + 1 : h[i] = t[a + i - 1]
      BY <3>1, <3>2, <3>3
    <3>5. SubSeq(t, a, b) = h
      BY <1>3, <3>4, PartIsText
    <3> QED
      BY <1>7, <3>3, <3>5
  <2>2. rest = s
    <3>1. PICK a, b : a = close + 1 /\ b = Len(t)
      OBVIOUS
    <3>2. a = n + 3 /\ b = n + 2 + m /\ b - a + 1 = m
      BY <1>2, <1>3, <1>10, <3>1
    <3>3. ASSUME NEW i \in 1 .. b - a + 1
          PROVE  s[i] = t[a + i - 1]
      <4>1. i \in 1 .. m /\ a + i - 1 = n + 2 + i
        BY <1>2, <3>2
      <4> QED
        BY <1>3, <4>1
    <3>4. /\ a \in Int /\ b \in Int /\ 1 <= a /\ b <= Len(t)
          /\ Len(s) = IF a <= b THEN b - a + 1 ELSE 0
      BY <1>1, <1>2, <1>3, <3>2
    <3>5. SubSeq(t, a, b) = s
      BY <1>3, <3>3, <3>4, PartIsText
    <3> QED
      BY <1>7, <3>1, <3>5 DEF After
  <2>3. Bracketed(t, default) = {Place(h, port)}
    BY <1>8, <2>1, <2>2
  <2>4. Place(h, port).host # << >>
    BY DEF Place
  <2>5. ParseAuthority(t, default) = {Place(h, port)}
    BY <1>9, <2>3, <2>4
  <2> QED
    BY <1>3, <2>5
<1>11. CASE close # n + 2
  <2>1. PICK k : k = n + 2 - close
    OBVIOUS
  <2>2. k \in Nat /\ k >= 1 /\ close + k = n + 2
    BY <1>2, <1>6, <1>11, <2>1
  <2>3. rest \in Text /\ Len(rest) = k + m /\ rest[k] = "]"
    <3>1. PICK a, b : a = close + 1 /\ b = Len(t)
      OBVIOUS
    <3>2. /\ a \in Int /\ b \in Int /\ 1 <= a /\ b <= Len(t) /\ a <= b
          /\ b - a + 1 = k + m /\ a + k - 1 = n + 2 /\ k \in 1 .. b - a + 1
      BY <1>2, <1>3, <1>6, <2>2, <3>1
    <3>3. /\ SubSeq(t, a, b) \in Text /\ Len(SubSeq(t, a, b)) = b - a + 1
          /\ SubSeq(t, a, b)[k] = t[a + k - 1]
      BY <1>3, <3>2, PartIs
    <3> QED
      BY <1>3, <1>7, <3>1, <3>2, <3>3 DEF After
  <2>4. PortsAfter(rest, default) = {}
    <3>1. rest # << >>
      BY <1>2, <2>2, <2>3, TextFacts
    <3>2. CASE ~StartsWith(rest, ":")
      BY <3>1, <3>2 DEF PortsAfter
    <3>3. CASE StartsWith(rest, ":")
      <4>1. PortsAfter(rest, default) = Ports(After(rest, 1))
        BY <3>1, <3>3 DEF PortsAfter
      <4>2. rest[1] = ":"
        BY <3>3 DEF StartsWith
      <4>3. k # 1
        BY <2>3, <4>2
      <4>4. PICK tail : tail = After(rest, 1)
        OBVIOUS
      <4>5. Len(tail) = k + m - 1 /\ tail[k - 1] = "]"
        <5>1. PICK a, b : a = 2 /\ b = k + m
          OBVIOUS
        <5>2. /\ a \in Int /\ b \in Int /\ 1 <= a /\ b <= Len(rest) /\ a <= b
              /\ b - a + 1 = k + m - 1 /\ k - 1 \in 1 .. b - a + 1 /\ a + (k - 1) - 1 = k
          BY <1>2, <2>2, <2>3, <4>3, <5>1
        <5>3. /\ Len(SubSeq(rest, a, b)) = b - a + 1
              /\ SubSeq(rest, a, b)[k - 1] = rest[a + (k - 1) - 1]
          BY <2>3, <5>2, PartIs
        <5>4. tail = SubSeq(rest, a, b)
          BY <2>3, <4>4, <5>1 DEF After
        <5> QED
          BY <2>3, <5>2, <5>3, <5>4
      <4>6. Ports(tail) = {}
        <5> SUFFICES ASSUME Len(tail) = 1, tail[1] \in Numbers
                     PROVE  FALSE
          BY DEF Ports
        <5>1. k - 1 = 1
          <6>1. \A a, b \in Nat : a >= 1 /\ a # 1 /\ a + b - 1 = 1 => a - 1 = 1
            OBVIOUS
          <6>2. k + m - 1 = 1
            BY <4>5, Zenon
          <6> QED
            BY <1>2, <2>2, <4>3, <6>1, <6>2, Zenon
        <5>2. tail[1] = "]"
          BY <4>5, <5>1
        <5> QED
          BY <5>2, PortNumbers
      <4> QED
        BY <4>1, <4>4, <4>6
    <3> QED
      BY <3>2, <3>3
  <2>5. ParseAuthority(t, default) = {}
    BY <1>8, <1>9, <2>4
  <2>6. ~PlainHost(h)
    <3>1. close - 1 \in DOMAIN h /\ t[(close - 1) + 1] = "]"
      BY <1>2, <1>6, <1>11
    <3>2. h[close - 1] = "]"
      BY <1>2, <1>3, <3>1
    <3> QED
      BY <3>1, <3>2 DEF PlainHost
  <2> QED
    BY <1>3, <2>5, <2>6
<1> QED
  BY <1>10, <1>11

LEMMA UnclosedReads ==
    ASSUME NEW t \in Text, StartsWith(t, "["), \A i \in DOMAIN t : t[i] # "]",
           NEW default \in Defaults
    PROVE  ParseAuthority(t, default) = {}
<1>1. FirstAt(t, "]") = 0
  BY FirstAtIs
<1>2. Bracketed(t, default) = {}
  BY <1>1 DEF Bracketed
<1> QED
  BY <1>2, ParseCases

LEMMA NameReads ==
    ASSUME NEW h \in Text, h # << >>, ~StartsWith(h, "["), \A i \in DOMAIN h : h[i] # ":",
           NEW port \in PortValues, NEW default \in Defaults
    PROVE  ParseAuthority(h \o PortSuffix(port, default), default) = {Place(h, port)}
<1>1. /\ Len(h) \in Nat /\ Len(h) > 0 /\ DOMAIN h = 1 .. Len(h) /\ h[1] # "["
      /\ \A i \in 1 .. Len(h) : h[i] # ":"
  BY TextFacts DEF StartsWith
<1>2. CASE port = default
  <2>1. h \o PortSuffix(port, default) = h
    <3>1. PortSuffix(port, default) = << >>
      BY <1>2, PortSuffixIs
    <3>2. h \o << >> = h
      BY ConcatEmptySeq DEF Text
    <3> QED
      BY <3>1, <3>2
  <2>2. ~(Colons(h) > 1)
    BY ColonsAre
  <2>3. LastAt(h, ":") = 0
    BY LastAtIs
  <2>4. AroundColon(h, default) = {Place(h, default)}
    BY <2>3 DEF AroundColon
  <2>5. ParseAuthority(h, default) = {Place(h, default)}
    BY <2>2, <2>4, ParseCases
  <2> QED
    BY <1>2, <2>1, <2>5
<1>3. CASE port # default
  <2>1. PICK n \in Numbers : PortSuffix(port, default) = <<":", n>> /\ PortNumber[n] = port
    BY <1>3, PortSuffixIs
  <2>2. PICK s, t, l : s = <<":", n>> /\ t = h \o s /\ l = Len(h)
    OBVIOUS
  <2>3. n \in Pieces /\ n # ":" /\ ":" \in Pieces
    BY PortNumbers DEF Pieces
  <2>4. s \in Text /\ Len(s) = 2 /\ s[1] = ":" /\ s[2] = n
    BY <2>2, <2>3 DEF Text
  <2>5. /\ t \in Text /\ Len(t) = l + 2 /\ DOMAIN t = 1 .. l + 2
        /\ \A i \in 1 .. l : t[i] = h[i]
        /\ t[l + 1] = ":" /\ t[l + 2] = n
    <3>1. /\ t \in Text /\ Len(t) = l + Len(s) /\ DOMAIN t = 1 .. l + Len(s)
          /\ \A i \in 1 .. l : t[i] = h[i]
          /\ \A i \in 1 .. Len(s) : t[l + i] = s[i]
      <4>1. /\ h \o s \in Text /\ Len(h \o s) = Len(h) + Len(s)
            /\ DOMAIN (h \o s) = 1 .. Len(h) + Len(s)
            /\ \A i \in 1 .. Len(h) : (h \o s)[i] = h[i]
            /\ \A i \in 1 .. Len(s) : (h \o s)[Len(h) + i] = s[i]
        BY <2>4, JoinIs
      <4> QED
        BY <2>2, <4>1, Zenon
    <3>2. 1 \in 1 .. Len(s) /\ 2 \in 1 .. Len(s)
      BY <2>4
    <3> QED
      BY <2>4, <3>1, <3>2
  <2>6. l \in Nat /\ l > 0
    BY <1>1, <2>2
  <2>7. \A i \in DOMAIN t : t[i] = ":" <=> i = l + 1
    <3> SUFFICES ASSUME NEW i \in 1 .. l + 2
                 PROVE  t[i] = ":" <=> i = l + 1
      BY <2>5
    <3>1. i \in 1 .. l \/ i = l + 1 \/ i = l + 2
      BY <2>6
    <3>2. CASE i \in 1 .. l
      BY <1>1, <2>2, <2>5, <2>6, <3>2
    <3> QED
      BY <2>3, <2>5, <2>6, <3>1, <3>2
  <2>8. ~(Colons(t) > 1)
    BY <2>5, <2>7, ColonsAre
  <2>9. LastAt(t, ":") = l + 1
    <3>1. l + 1 \in DOMAIN t
      BY <2>5, <2>6
    <3>2. LastAt(t, ":") # 0
      BY <2>5, <3>1, LastAtIs
    <3> QED
      BY <2>5, <2>7, <3>2, LastAtIs
  <2>10. t # << >> /\ ~StartsWith(t, "[")
    <3>1. Len(t) > 0
      BY <2>5, <2>6
    <3>2. t[1] = h[1]
      BY <2>5, <2>6
    <3> QED
      BY <1>1, <2>5, <3>1, <3>2, TextFacts DEF StartsWith
  <2>11. SubSeq(t, 1, l) = h
    <3>1. PICK a : a = 1
      OBVIOUS
    <3>2. /\ a \in Int /\ l \in Int /\ 1 <= a /\ l <= Len(t)
          /\ Len(h) = IF a <= l THEN l - a + 1 ELSE 0
          /\ \A i \in 1 .. l - a + 1 : i \in 1 .. l /\ a + i - 1 = i
      BY <2>2, <2>5, <2>6, <3>1
    <3>3. \A i \in 1 .. l - a + 1 : h[i] = t[a + i - 1]
      BY <2>5, <3>2
    <3>4. /\ a \in Int /\ l \in Int /\ 1 <= a /\ l <= Len(t)
          /\ Len(h) = IF a <= l THEN l - a + 1 ELSE 0
          /\ t \in Text
      BY <2>5, <3>2
    <3>5. SubSeq(t, a, l) = h
      BY <3>3, <3>4, PartIsText
    <3> QED
      BY <3>1, <3>5
  <2>12. After(t, l + 1) = <<n>>
    <3>1. PICK a, b, r : a = l + 2 /\ b = l + 2 /\ r = <<n>>
      OBVIOUS
    <3>2. r \in Text /\ Len(r) = 1 /\ r[1] = n
      BY <2>3, <3>1 DEF Text
    <3>3. /\ a \in Int /\ b \in Int /\ 1 <= a /\ b <= Len(t)
          /\ Len(r) = IF a <= b THEN b - a + 1 ELSE 0
          /\ \A i \in 1 .. b - a + 1 : i = 1 /\ a + i - 1 = l + 2
      BY <2>5, <2>6, <3>1, <3>2
    <3>4. \A i \in 1 .. b - a + 1 : r[i] = t[a + i - 1]
      BY <2>5, <3>2, <3>3
    <3>5. SubSeq(t, a, b) = r
      BY <2>5, <3>2, <3>3, <3>4, PartIsText
    <3>6. l + 1 + 1 = a /\ Len(t) = b
      BY <2>5, <2>6, <3>1
    <3> QED
      BY <3>1, <3>5, <3>6 DEF After
  <2>13. Ports(<<n>>) = {port}
    <3>1. Len(<<n>>) = 1 /\ <<n>>[1] = n
      OBVIOUS
    <3> QED
      BY <2>1, <3>1 DEF Ports
  <2>14. AroundColon(t, default) = {Place(h, port)}
    <3>1. PICK colon : colon = LastAt(t, ":")
      OBVIOUS
    <3>2. colon # 1 /\ colon > 1 /\ colon - 1 = l /\ colon = l + 1
      BY <2>6, <2>9, <3>1
    <3>3. AroundColon(t, default) =
              {Place(SubSeq(t, 1, colon - 1), p) : p \in Ports(After(t, colon))}
      BY <3>1, <3>2 DEF AroundColon
    <3>4. SubSeq(t, 1, colon - 1) = h /\ Ports(After(t, colon)) = {port}
      BY <2>11, <2>12, <2>13, <3>2
    <3>5. AroundColon(t, default) = {Place(h, p) : p \in {port}}
      BY <3>3, <3>4, Zenon
    <3> QED
      BY <3>5
  <2>15. ParseAuthority(t, default) = {Place(h, port)}
    BY <2>5, <2>8, <2>10, <2>14, ParseCases
  <2> QED
    BY <2>1, <2>2, <2>15
<1> QED
  BY <1>2, <1>3

(* What a replay writes in the Host header, a replay of it reads: the same *)
(* place, or nothing if the host has brackets inside.                      *)
LEMMA RoundTrip ==
    ASSUME NEW h, Sendable(h), NEW port \in PortValues, NEW default \in Defaults
    PROVE  /\ ReplayAuthority(h, port, default) \in Text
           /\ ReplayAuthority(h, port, default) # << >>
           /\ ParseAuthority(ReplayAuthority(h, port, default), default) \subseteq {Place(h, port)}
           /\ PlainHost(h) =>
                 Place(h, port) \in ParseAuthority(ReplayAuthority(h, port, default), default)
<1>1. PICK s, t : s = PortSuffix(port, default) /\ t = ReplayAuthority(h, port, default)
  OBVIOUS
<1>2. /\ s \in Text /\ h \in Text /\ h # << >>
      /\ PortsAfter(s, default) = {port} /\ \A i \in DOMAIN s : s[i] # "]"
  BY <1>1, PortSuffixIs, SuffixFacts DEF Sendable
<1>3. Len(h) \in Nat /\ Len(h) > 0 /\ Len(s) \in Nat /\ DOMAIN h = 1 .. Len(h)
      /\ DOMAIN s = 1 .. Len(s)
  BY <1>2, TextFacts
<1>4. CASE Colons(h) > 0 /\ ~StartsWith(h, "[")
  <2>1. t = WithBrackets(h, s)
    BY <1>1, <1>4 DEF ReplayAuthority, WithBrackets
  <2>2. Encloses(t, h, s)
    BY <1>2, <2>1, Enclosed
  <2>3. t \in Text /\ Len(t) = Len(h) + 2 + Len(s)
    BY <2>2 DEF Encloses
  <2>4. /\ ParseAuthority(t, default) \subseteq {Place(h, port)}
        /\ PlainHost(h) => Place(h, port) \in ParseAuthority(t, default)
    BY <1>2, <2>2, <2>3, EnclosedReads
  <2>5. t # << >>
    <3>1. Len(t) > 0
      BY <1>3, <2>3
    <3> QED
      BY <2>3, <3>1, TextFacts
  <2> QED
    BY <1>1, <2>3, <2>4, <2>5
<1>5. CASE ~(Colons(h) > 0 /\ ~StartsWith(h, "["))
  <2>1. t = h \o s
    BY <1>1, <1>5 DEF ReplayAuthority
  <2>2. /\ t \in Text /\ Len(t) = Len(h) + Len(s)
        /\ DOMAIN t = 1 .. Len(h) + Len(s)
        /\ \A i \in 1 .. Len(h) : t[i] = h[i]
        /\ \A i \in 1 .. Len(s) : t[Len(h) + i] = s[i]
    BY <1>2, <2>1, JoinIs
  <2>3. t # << >> /\ t[1] = h[1]
    <3>1. Len(t) > 0 /\ 1 \in 1 .. Len(h)
      BY <1>3, <2>2
    <3> QED
      BY <2>2, <3>1, TextFacts
  <2>4. CASE StartsWith(h, "[")
    <3>1. StartsWith(t, "[")
      BY <2>3, <2>4 DEF StartsWith
    <3>2. \A i \in DOMAIN h : h[i] # "]"
      BY <2>4 DEF Sendable
    <3>3. ASSUME NEW i \in DOMAIN t
          PROVE  t[i] # "]"
      <4>1. CASE i \in 1 .. Len(h)
        BY <1>3, <2>2, <3>2, <4>1
      <4>2. CASE i \notin 1 .. Len(h)
        <5>1. PICK k : k = i - Len(h)
          OBVIOUS
        <5>2. k \in 1 .. Len(s) /\ i = Len(h) + k
          BY <1>3, <2>2, <4>2, <5>1
        <5>3. t[i] = s[k]
          BY <2>2, <5>2
        <5> QED
          BY <1>2, <1>3, <5>2, <5>3
      <4> QED
        BY <4>1, <4>2
    <3>4. ParseAuthority(t, default) = {}
      BY <2>2, <3>1, <3>3, UnclosedReads
    <3>5. ~PlainHost(h)
      BY <1>3, <2>4 DEF PlainHost, StartsWith
    <3> QED
      BY <1>1, <2>2, <2>3, <3>4, <3>5
  <2>5. CASE ~StartsWith(h, "[")
    <3>1. ~(Colons(h) > 0)
      BY <1>5, <2>5
    <3>2. \A i \in DOMAIN h : h[i] # ":"
      BY <1>2, <3>1, ColonsAre
    <3>3. ParseAuthority(t, default) = {Place(h, port)}
      BY <1>1, <1>2, <2>1, <2>5, <3>2, NameReads
    <3> QED
      BY <1>1, <2>2, <2>3, <3>3
  <2> QED
    BY <2>4, <2>5
<1> QED
  BY <1>4, <1>5

-----------------------------------------------------------------------------
(* Bodies.                                                                 *)

LEMMA BytesAre ==
    ASSUME NEW n \in Nat
    PROVE  Bytes(1, n) \in Seq(Nat) /\ Len(Bytes(1, n)) = n
<1>1. PICK b : b = Bytes(1, n)
  OBVIOUS
<1>2. b \in [1 .. n -> Nat]
  <2>1. n - 1 + 1 = n /\ \A i \in 1 .. n : 1 + i - 1 \in Nat
    OBVIOUS
  <2>2. b = [i \in 1 .. n |-> 1 + i - 1]
    BY <1>1, <2>1, Zenon DEF Bytes
  <2> QED
    BY <2>1, <2>2
<1>3. b \in Seq(Nat)
  BY <1>2, SeqDef
<1>4. Len(b) = n
  BY <1>2, <1>3, LenProperties
<1> QED
  BY <1>1, <1>3, <1>4

LEMMA CaptureIs ==
    ASSUME NEW n \in Nat, NEW capture, capture = Ingest(NewCapture, Bytes(1, n))
    PROVE  /\ capture.total_bytes = n
           /\ Len(capture.captured) = IF n < PreviewLimit THEN n ELSE PreviewLimit
<1>1. PICK b : b = Bytes(1, n)
  OBVIOUS
<1>2. b \in Seq(Nat) /\ Len(b) = n
  BY <1>1, BytesAre
<1>3. PICK l : l = IF n < PreviewLimit THEN n ELSE PreviewLimit
  OBVIOUS
<1>4. l \in Nat /\ l <= n
  BY <1>3, PreviewLimitAssumption
<1>5. PICK part : part = SubSeq(b, 1, l)
  OBVIOUS
<1>6. part \in Seq(Nat) /\ Len(part) = l
  <2>1. PICK a : a = 1
    OBVIOUS
  <2>2. a \in Int /\ l \in Int /\ \A i \in a .. l : i \in 1 .. Len(b)
    BY <1>2, <1>4, <2>1
  <2>3. \A i \in a .. l : b[i] \in Nat
    BY <1>2, <2>2, ElementOfSeq
  <2>4. /\ SubSeq(b, a, l) \in Seq(Nat)
        /\ Len(SubSeq(b, a, l)) = IF a <= l THEN l - a + 1 ELSE 0
    BY <1>2, <2>2, <2>3, SubSeqProperties
  <2>5. (IF a <= l THEN l - a + 1 ELSE 0) = l
    BY <1>4, <2>1
  <2> QED
    BY <1>5, <2>1, <2>4, <2>5
<1>7. NewCapture.captured = << >> /\ NewCapture.total_bytes = 0
  BY DEF NewCapture
<1>8. capture = [captured |-> << >> \o part, total_bytes |-> 0 + Len(b)]
  <2>1. PreviewLimit - Len(NewCapture.captured) = PreviewLimit
    BY <1>7, PreviewLimitAssumption
  <2>2. (IF Len(b) < PreviewLimit THEN Len(b) ELSE PreviewLimit) = l
    BY <1>2, <1>3
  <2>3. capture =
          [captured |-> NewCapture.captured \o
              SubSeq(b, 1, IF Len(b) < PreviewLimit THEN Len(b) ELSE PreviewLimit),
           total_bytes |-> NewCapture.total_bytes + Len(b)]
    BY <1>1, <2>1, Zenon DEF Ingest
  <2> QED
    BY <1>5, <1>7, <2>2, <2>3, Zenon
<1>9. << >> \o part = part
  BY <1>6, ConcatEmptySeq
<1>10. capture.total_bytes = 0 + Len(b) /\ capture.captured = part
  <2>1. capture = [captured |-> part, total_bytes |-> 0 + Len(b)]
    BY <1>8, <1>9, Zenon
  <2> QED
    BY <2>1
<1> QED
  BY <1>2, <1>3, <1>6, <1>10

-----------------------------------------------------------------------------
(* The invariant.                                                          *)

Default == DefaultPort(source.scheme)
Latest == went[Len(went)]

Types ==
    /\ source \in Sources
    /\ went \in Seq([host : Text, port : PortValues])
    /\ bodies \in Seq({source.body})
    /\ Len(bodies) = Len(went) /\ Len(went) <= MaxReplays + 1
    /\ refused \in BOOLEAN

RecordIsOfSource ==
    /\ record.scheme = source.scheme /\ record.text = source.text
    /\ record.preview = Ingest(NewCapture, Bytes(1, source.body))
    /\ record.host \in Text /\ record.header \in Text

(* What was captured first has the header of the client or the composer's. *)
OriginalIsRecorded ==
    Len(went) = 1 =>
        IF source.kind = "composed"
        THEN /\ record.header = ComposedAuthority(Latest.host, Latest.port, Default)
             /\ record.target = "origin" /\ Latest.host # << >>
        ELSE record.header = source.host

(* A replay is recorded with the header that leads back to it.             *)
ReplayIsRecorded ==
    Len(went) > 1 =>
        /\ record.header = ReplayAuthority(Latest.host, Latest.port, Default)
        /\ record.target = "origin" /\ IsPlace(Latest) /\ ReplayBody # {}

RefusedForAReason == refused /\ went # << >> => ReplayPlaces = {} \/ ReplayBody = {}

RecordInv == RecordIsOfSource /\ OriginalIsRecorded /\ ReplayIsRecorded

PlacesAgree == \A i, j \in 2 .. Len(went) : went[i] = went[j]

IInv == Types /\ RecordInv /\ RefusedForAReason /\ PlacesAgree /\ ReplayFindsOriginal

(* What a replay sends of a body, and when it sends nothing.               *)
LEMMA ReplayBodyIs ==
    ASSUME NEW n \in Nat, record.preview = Ingest(NewCapture, Bytes(1, n)),
           record.text \in BOOLEAN
    PROVE  /\ ReplayBody \subseteq {n}
           /\ ReplayBody = {} <=> n > PreviewLimit \/ (n > 0 /\ ~record.text)
<1>1. PICK kept : kept = Len(record.preview.captured)
  OBVIOUS
<1>2. /\ record.preview.total_bytes = n
      /\ kept = IF n < PreviewLimit THEN n ELSE PreviewLimit
  BY <1>1, CaptureIs, Zenon
<1>3. ReplayBody = IF n = 0 THEN {0} ELSE IF n > kept \/ ~record.text THEN {} ELSE {kept}
  BY <1>1, <1>2, Zenon DEF ReplayBody, Truncated
<1>4. n > kept <=> n > PreviewLimit
  BY <1>2, PreviewLimitAssumption
<1>5. n = 0 => ~(n > PreviewLimit)
  BY PreviewLimitAssumption
<1>6. ~(n > PreviewLimit) => kept = n
  BY <1>2, PreviewLimitAssumption
<1>7. CASE n = 0
  BY <1>3, <1>5, <1>7
<1>8. CASE n # 0
  <2>1. n > 0
    BY <1>8
  <2> QED
    BY <1>3, <1>4, <1>6, <1>8, <2>1
<1> QED
  BY <1>7, <1>8

LEMMA SourceFacts ==
    ASSUME NEW s \in Sources
    PROVE  /\ s.body \in Nat /\ s.text \in BOOLEAN /\ s.scheme \in {"http", "https"}
           /\ s.kind \in {"http", "https", "composed"}
           /\ s.authority \in Text /\ s.host \in Text /\ s.port \in {0} \cup PortValues
           /\ DefaultPort(s.scheme) \in Defaults
<1>1. s \in Source
  BY DestinationsAssumption
<1> QED
  BY <1>1 DEF Source, Text, PortValues, DefaultPort, Defaults

(* A replay goes back to the place of the latest one, if anywhere.         *)
LEMMA ReplayGoesBack ==
    ASSUME Types, RecordInv, Len(went) > 1
    PROVE  /\ ReplayPlaces \subseteq {Latest}
           /\ PlainHost(Latest.host) => ReplayPlaces # {}
<1>1. Default \in Defaults /\ record.scheme = source.scheme
  BY SourceFacts DEF Default, Types, RecordInv, RecordIsOfSource
<1>2. /\ record.header = ReplayAuthority(Latest.host, Latest.port, Default)
      /\ record.target = "origin" /\ IsPlace(Latest)
  BY DEF RecordInv, ReplayIsRecorded
<1>3. PICK h, p : h = Latest.host /\ p = Latest.port
  OBVIOUS
<1>4. Sendable(h) /\ p \in PortValues /\ Latest = Place(h, p)
  BY <1>2, <1>3 DEF IsPlace
<1>5. /\ ReplayAuthority(h, p, Default) # << >>
      /\ ParseAuthority(ReplayAuthority(h, p, Default), Default) \subseteq {Place(h, p)}
      /\ PlainHost(h) => Place(h, p) \in ParseAuthority(ReplayAuthority(h, p, Default), Default)
  BY <1>1, <1>4, RoundTrip
<1>6. ReplayPlaces = ParseAuthority(ReplayAuthority(h, p, Default), Default)
  BY <1>1, <1>2, <1>3, <1>5 DEF ReplayPlaces, Absent, Default
<1> QED
  BY <1>3, <1>4, <1>5, <1>6

(* The composer writes a name as a replay does.                            *)
LEMMA ComposedIsReplay ==
    ASSUME NEW h, ~StartsWith(h, "["), NEW p, NEW default
    PROVE  ComposedAuthority(h, p, default) = ReplayAuthority(h, p, default)
BY DEF ComposedAuthority, ReplayAuthority

LEMMA ComposedGoesBack ==
    ASSUME Types, RecordInv, Len(went) = 1, source.kind = "composed",
           ~StartsWith(went[1].host, "[")
    PROVE  /\ ReplayPlaces \subseteq {went[1]}
           /\ PlainHost(went[1].host) => ReplayPlaces # {}
<1>1. Default \in Defaults /\ record.scheme = source.scheme
  BY SourceFacts DEF Default, Types, RecordInv, RecordIsOfSource
<1>2. PICK h, p : h = went[1].host /\ p = went[1].port
  OBVIOUS
<1>3. h \in Text /\ p \in PortValues /\ went[1] = Place(h, p)
  <2>1. went[1] \in [host : Text, port : PortValues]
    <3>1. went \in Seq([host : Text, port : PortValues]) /\ 1 \in 1 .. Len(went)
      BY DEF Types
    <3> HIDE DEF Text
    <3> QED
      BY <3>1, ElementOfSeq
  <2> QED
    BY <1>2, <2>1 DEF Place
<1>4. h # << >> /\ record.header = ComposedAuthority(h, p, Default) /\ record.target = "origin"
  BY <1>2 DEF RecordInv, OriginalIsRecorded, Latest
<1>5. Sendable(h)
  BY <1>2, <1>3, <1>4 DEF Sendable
<1>6. /\ ReplayAuthority(h, p, Default) # << >>
      /\ ParseAuthority(ReplayAuthority(h, p, Default), Default) \subseteq {Place(h, p)}
      /\ PlainHost(h) => Place(h, p) \in ParseAuthority(ReplayAuthority(h, p, Default), Default)
  BY <1>1, <1>3, <1>5, RoundTrip
<1>7. record.header = ReplayAuthority(h, p, Default)
  BY <1>2, <1>4, ComposedIsReplay
<1>8. ReplayPlaces = ParseAuthority(ReplayAuthority(h, p, Default), Default)
  BY <1>1, <1>4, <1>6, <1>7 DEF ReplayPlaces, Absent, Default
<1> QED
  BY <1>2, <1>3, <1>6, <1>8

(* A first replay goes where the Host header says the request went.        *)
LEMMA FirstReplayGoesBack ==
    ASSUME Types, RecordInv, Len(went) = 1, HostAgrees
    PROVE  ReplayPlaces \subseteq {went[1]}
<1>1. CASE source.kind = "composed"
  BY <1>1, ComposedGoesBack DEF HostAgrees
<1>2. CASE source.kind # "composed"
  <2>1. /\ went[1] \in SplitAuthority(source.host, Default)
        /\ source.host \in Text /\ Default \in Defaults
        /\ record.scheme = source.scheme /\ record.header = source.host
    BY <1>2, SourceFacts
       DEF HostAgrees, Default, Types, RecordInv, RecordIsOfSource, OriginalIsRecorded
  <2>2. source.host # << >>
    BY <2>1, SplitCases
  <2>3. ReplayPlaces \subseteq ParseAuthority(source.host, Default)
    BY <2>1, <2>2 DEF ReplayPlaces, Absent, Default
  <2> QED
    BY <2>1, <2>3, SplitAgrees
<1> QED
  BY <1>1, <1>2

-----------------------------------------------------------------------------
(* The invariant holds in every state.                                     *)

LEMMA InitHolds == Init => IInv
<1> SUFFICES ASSUME Init PROVE IInv
  OBVIOUS
<1>1. source \in Sources /\ went = << >> /\ bodies = << >> /\ refused = FALSE
  BY DEF Init
<1>2. Types
  <2>1. 0 <= MaxReplays + 1
    BY DestinationsAssumption
  <2>2. \A S : << >> \in Seq(S)
    OBVIOUS
  <2>3. Len(went) = 0 /\ Len(bodies) = 0
    BY <1>1
  <2>4. Len(bodies) = Len(went) /\ Len(went) <= MaxReplays + 1 /\ refused \in BOOLEAN
    BY <1>1, <2>1, <2>3
  <2> QED
    BY <1>1, <2>2, <2>4, Zenon DEF Types
<1>3. record = Record(source, source.scheme, << >>, Absent, "other")
  BY DEF Init
<1>4. RecordIsOfSource
  BY <1>3 DEF RecordIsOfSource, Record, Absent, Text
<1> QED
  BY <1>1, <1>2, <1>4
     DEF IInv, RecordInv, OriginalIsRecorded, ReplayIsRecorded, RefusedForAReason, PlacesAgree,
         ReplayFindsOriginal

Places == [host : Text, port : PortValues]

(* A first capture, whoever makes it.                                      *)
LEMMA CapturedHolds ==
    ASSUME IInv, went = << >>, ~refused,
           NEW place \in Places, NEW host \in Text, NEW header \in Text, NEW target,
           Captured(place, Record(source, source.scheme, host, header, target)),
           source.kind = "composed" =>
               /\ header = ComposedAuthority(place.host, place.port, Default)
               /\ target = "origin" /\ place.host # << >>,
           source.kind # "composed" => header = source.host
    PROVE  IInv'
<1>1. /\ went' = <<place>> /\ bodies' = <<source.body>>
      /\ record' = Record(source, source.scheme, host, header, target)
      /\ source' = source /\ refused' = refused
  BY DEF Captured
<1>2. Len(went') = 1 /\ went'[1] = place /\ Len(bodies') = 1
  BY <1>1
<1>3. Types'
  <2>1. source \in Sources /\ refused \in BOOLEAN
    BY DEF IInv, Types
  <2>2. went' \in Seq(Places)
    BY <1>1
  <2>3. 1 <= MaxReplays + 1
    BY DestinationsAssumption
  <2>4. bodies' \in Seq({source'.body})
    BY <1>1
  <2> HIDE DEF Places
  <2>5. /\ source' \in Sources /\ refused' \in BOOLEAN
        /\ Len(bodies') = Len(went') /\ Len(went') <= MaxReplays + 1
    BY <1>1, <1>2, <2>1, <2>3
  <2> QED
    BY <2>2, <2>4, <2>5, Zenon DEF Types, Places
<1>4. /\ record'.scheme = source'.scheme /\ record'.text = source'.text
      /\ record'.preview = Ingest(NewCapture, Bytes(1, source'.body))
      /\ record'.host = host /\ record'.header = header /\ record'.target = target
  BY <1>1 DEF Record
<1>5. RecordIsOfSource'
  BY <1>4 DEF RecordIsOfSource
<1>6. OriginalIsRecorded'
  <2>1. Latest' = place
    BY <1>2 DEF Latest
  <2>2. Default' = Default
    BY <1>1 DEF Default
  <2> QED
    BY <1>1, <1>4, <2>1, <2>2 DEF OriginalIsRecorded
<1>7. ReplayIsRecorded' /\ PlacesAgree' /\ ReplayFindsOriginal' /\ RefusedForAReason'
  BY <1>1, <1>2 DEF ReplayIsRecorded, PlacesAgree, ReplayFindsOriginal, RefusedForAReason
<1> QED
  BY <1>3, <1>5, <1>6, <1>7 DEF IInv, RecordInv

(* What the proxy reads in an authority is a host and a port.              *)
LEMMA SplitIs ==
    ASSUME NEW text \in Text, NEW default \in Defaults,
           NEW place \in SplitAuthority(text, default)
    PROVE  place \in Places
<1>1. CASE text = << >>
  BY <1>1, SplitCases
<1>2. CASE StartsWith(text, "[")
  <2>1. place \in Bracketed(text, default)
    BY <1>2, SplitCases
  <2>2. \E host, port : place = Place(host, port)
    BY <2>1 DEF Bracketed
  <2>3. place.host \in Text /\ place.port \in PortValues
    BY <1>2, <2>1, BracketedIs
  <2> QED
    BY <2>2, <2>3 DEF Place, Places
<1>3. CASE text # << >> /\ ~StartsWith(text, "[")
  <2>1. place = Place(text, default) \/ place \in AroundColon(text, default)
    BY <1>3, SplitCases
  <2>2. place = Place(text, default) => place \in Places
    BY DEF Place, Places, Defaults, PortValues
  <2>3. place \in AroundColon(text, default) => IsPlace(place)
    BY <1>3, AroundColonIs
  <2>4. IsPlace(place) => place \in Places
    BY DEF IsPlace, Sendable, Place, Places
  <2> QED
    BY <2>1, <2>2, <2>3, <2>4
<1> QED
  BY <1>1, <1>2, <1>3

LEMMA ResolveIs ==
    ASSUME NEW s \in Sources, NEW place \in Resolve(s)
    PROVE  place \in Places
<1>1. PICK text : text = IF s.target = "absolute" THEN s.authority ELSE s.host
  OBVIOUS
<1>2. text \in Text /\ 80 \in Defaults
  BY <1>1, SourceFacts DEF Defaults
<1>3. place \in SplitAuthority(text, 80)
  BY <1>1 DEF Resolve
<1> QED
  BY <1>2, <1>3, SplitIs

LEMMA ComposedAre ==
    ASSUME source \in Sources, NEW place \in ComposedPlaces
    PROVE  place \in Places /\ place.host # << >>
<1> DEFINE port == IF source.port = 0 THEN DefaultPort(source.scheme) ELSE source.port
<1>1. PICK host \in NormalizeHost(source.host) : place = Place(host, port)
  BY DEF ComposedPlaces
<1>2. port \in PortValues
  BY SourceFacts DEF Defaults, PortValues
<1> HIDE DEF port
<1>3. PICK text : text = source.host
  OBVIOUS
<1>4. text \in Text
  BY <1>3, SourceFacts
<1>5. host \in Text /\ host # << >>
  <2>1. host \in NormalizeHost(text)
    BY <1>1, <1>3
  <2>2. CASE text = << >>
    <3>1. ~StartsWith(text, "[") /\ ~EndsWith(text, "]")
      BY <2>2 DEF StartsWith, EndsWith
    <3>2. NormalizeHost(text) = {}
      BY <2>2, <3>1 DEF NormalizeHost
    <3> QED
      BY <2>1, <3>2
  <2>3. CASE text # << >> /\ StartsWith(text, "[")
    <3>1. host = SubSeq(text, 2, Len(text) - 1) /\ Len(text) > 2
      BY <2>1, <2>3 DEF NormalizeHost
    <3>2. PICK a, b : a = 2 /\ b = Len(text) - 1
      OBVIOUS
    <3>3. /\ a \in Int /\ b \in Int /\ 1 <= a /\ b <= Len(text) /\ a <= b /\ b - a + 1 > 0
      BY <1>4, <3>1, <3>2, TextFacts
    <3>4. SubSeq(text, a, b) \in Text /\ Len(SubSeq(text, a, b)) = b - a + 1
      BY <1>4, <3>3, PartIs
    <3>5. host \in Text /\ Len(host) > 0
      BY <3>1, <3>2, <3>3, <3>4
    <3> QED
      BY <3>5, TextFacts
  <2>4. CASE text # << >> /\ ~StartsWith(text, "[")
    BY <1>4, <2>1, <2>4 DEF NormalizeHost
  <2> QED
    BY <2>2, <2>3, <2>4
<1> QED
  BY <1>1, <1>2, <1>5 DEF Place, Places

LEMMA ReplayHolds == IInv /\ Replay => IInv'
<1> SUFFICES ASSUME IInv, Replay PROVE IInv'
  OBVIOUS
<1>1. PICK place \in ReplayPlaces, length \in ReplayBody :
          /\ went' = Append(went, place) /\ bodies' = Append(bodies, length)
          /\ record' = Record([source EXCEPT !.body = length], record.scheme, place.host,
                ReplayAuthority(place.host, place.port, DefaultPort(record.scheme)), "origin")
  BY DEF Replay
<1>2. source' = source /\ refused' = refused /\ ~refused /\ went # << >> /\ Len(went) <= MaxReplays
  BY DEF Replay, Again
<1>3. Types /\ RecordInv /\ PlacesAgree /\ ReplayFindsOriginal
  BY DEF IInv
<1>4. /\ source \in Sources /\ source.body \in Nat /\ Default \in Defaults
      /\ record.scheme = source.scheme /\ record.text = source.text /\ source.text \in BOOLEAN
      /\ record.preview = Ingest(NewCapture, Bytes(1, source.body))
      /\ record.host \in Text /\ record.header \in Text
  BY <1>3, SourceFacts DEF Types, RecordInv, RecordIsOfSource, Default
<1>5. length = source.body
  BY <1>4, ReplayBodyIs
<1>6. IsPlace(place)
  <2>1. PICK text : text = IF record.header = Absent THEN record.host ELSE record.header
    OBVIOUS
  <2>2. text \in Text /\ place \in ParseAuthority(text, Default)
    BY <1>4, <2>1 DEF ReplayPlaces, Default
  <2> QED
    BY <1>4, <2>2, ParsedIs
<1>7. place \in Places /\ place.host \in Text /\ place.port \in PortValues
  BY <1>6 DEF IsPlace, Sendable, Place, Places
<1>8. /\ went \in Seq(Places) /\ bodies \in Seq({source.body})
      /\ Len(bodies) = Len(went) /\ Len(went) \in Nat /\ Len(went) >= 1
  <2>1. went \in Seq(Places) /\ bodies \in Seq({source.body}) /\ Len(bodies) = Len(went)
    BY <1>3 DEF Types, Places
  <2> HIDE DEF Places
  <2> QED
    BY <1>2, <2>1, EmptySeq
<1> HIDE DEF Places
<1>9. /\ went' \in Seq(Places) /\ Len(went') = Len(went) + 1
      /\ went'[Len(went) + 1] = place /\ \A i \in 1 .. Len(went) : went'[i] = went[i]
  BY <1>1, <1>7, <1>8, AppendProperties
<1>10. bodies' \in Seq({source.body}) /\ Len(bodies') = Len(went')
  <2>1. bodies' = Append(bodies, source.body)
    BY <1>1, <1>5
  <2> QED
    BY <1>8, <1>9, <2>1, AppendProperties
<1>11. Types'
  <2>1. Len(went') <= MaxReplays + 1
    BY <1>2, <1>8, <1>9, DestinationsAssumption
  <2>2. refused' \in BOOLEAN /\ source' \in Sources /\ bodies' \in Seq({source'.body})
    <3>1. refused \in BOOLEAN
      BY <1>3, Zenon DEF Types
    <3> QED
      BY <1>2, <1>4, <1>10, <3>1, Zenon
  <2> QED
    BY <1>9, <1>10, <2>1, <2>2, Zenon DEF Types, Places
<1>12. record' = Record([source EXCEPT !.body = source.body], source.scheme, place.host,
            ReplayAuthority(place.host, place.port, Default), "origin")
  BY <1>1, <1>4, <1>5 DEF Default
<1>13. [source EXCEPT !.body = source.body].body = source.body
       /\ [source EXCEPT !.body = source.body].text = source.text
  <2>1. source \in Source
    BY <1>4, DestinationsAssumption
  <2> QED
    BY <2>1 DEF Source
<1>14. /\ record'.scheme = source'.scheme /\ record'.text = source'.text
       /\ record'.preview = Ingest(NewCapture, Bytes(1, source'.body))
       /\ record'.host = place.host /\ record'.target = "origin"
       /\ record'.header = ReplayAuthority(place.host, place.port, Default)
  BY <1>2, <1>12, <1>13 DEF Record
<1>15. RecordIsOfSource'
  <2>1. ReplayAuthority(place.host, place.port, Default) \in Text
    BY <1>4, <1>6, RoundTrip DEF IsPlace
  <2> QED
    BY <1>7, <1>14, <2>1 DEF RecordIsOfSource
<1>16. Latest' = place /\ Default' = Default
  BY <1>2, <1>9 DEF Latest, Default
<1>17. ReplayIsRecorded'
  <2>1. record'.preview = record.preview /\ record'.text = record.text
    BY <1>2, <1>4, <1>14
  <2>2. ReplayBody' = ReplayBody
    BY <2>1, Zenon DEF ReplayBody, Truncated
  <2>3. ReplayBody' # {}
    BY <2>2
  <2> QED
    BY <1>6, <1>14, <1>16, <2>3 DEF ReplayIsRecorded
<1>18. OriginalIsRecorded' /\ RefusedForAReason'
  BY <1>2, <1>8, <1>9 DEF OriginalIsRecorded, RefusedForAReason
<1>19. Len(went) > 1 => place = went[Len(went)]
  BY <1>3, ReplayGoesBack DEF Latest
<1>20. PlacesAgree'
  <2>1. ASSUME NEW i \in 2 .. Len(went')
        PROVE  went'[i] = place
    <3>1. CASE i = Len(went) + 1
      BY <1>9, <3>1
    <3>2. CASE i # Len(went) + 1
      <4>1. i \in 2 .. Len(went) /\ Len(went) > 1 /\ Len(went) \in 2 .. Len(went)
        BY <1>8, <1>9, <3>2
      <4>2. went[i] = went[Len(went)]
        BY <1>3, <4>1 DEF PlacesAgree
      <4>3. went'[i] = went[i]
        BY <1>9, <4>1
      <4> QED
        BY <1>19, <4>1, <4>2, <4>3
    <3> QED
      BY <3>1, <3>2
  <2> QED
    BY <2>1 DEF PlacesAgree
<1>21. ReplayFindsOriginal'
  <2>1. went'[1] = went[1]
    BY <1>8, <1>9
  <2>2. HostAgrees' <=> HostAgrees
    BY <1>2, <2>1, Zenon DEF HostAgrees
  <2> SUFFICES ASSUME HostAgrees
               PROVE  went'[2] = went[1]
    BY <2>1, <2>2 DEF ReplayFindsOriginal
  <2>3. CASE Len(went) = 1
    <3>1. place = went[1]
      BY <1>3, <2>3, FirstReplayGoesBack
    <3>2. Len(went) + 1 = 2
      BY <2>3
    <3> QED
      BY <1>9, <3>1, <3>2
  <2>4. CASE Len(went) # 1
    <3>1. 2 \in 1 .. Len(went) /\ Len(went) > 1
      BY <1>8, <2>4
    <3>2. went[2] = went[1]
      BY <1>3, <3>1 DEF ReplayFindsOriginal
    <3> QED
      BY <1>9, <3>1, <3>2
  <2> QED
    BY <2>3, <2>4
<1> QED
  BY <1>11, <1>15, <1>17, <1>18, <1>20, <1>21 DEF IInv, RecordInv

LEMMA NextHolds == IInv /\ [Next]_vars => IInv'
<1> SUFFICES ASSUME IInv, [Next]_vars PROVE IInv'
  OBVIOUS
<1>1. source \in Sources /\ Default = DefaultPort(source.scheme)
  BY DEF IInv, Types, Default
<1>2. CASE Proxy
  <2> DEFINE target == IF source.target = "other" THEN "other" ELSE "origin"
  <2>1. PICK place \in Resolve(source) :
            Captured(place, Record(source, "http", place.host, source.host, target))
    BY <1>2 DEF Proxy
  <2> HIDE DEF target
  <2>2. went = << >> /\ ~refused /\ source.kind = "http"
    BY <1>2 DEF Proxy, First
  <2>3. source.scheme = "http"
    BY <1>1, <2>2, DestinationsAssumption
  <2>4. place \in Places /\ place.host \in Text /\ source.host \in Text
    BY <1>1, ResolveIs, SourceFacts DEF Places
  <2>5. Captured(place, Record(source, source.scheme, place.host, source.host, target))
    BY <2>1, <2>3
  <2> QED
    BY <2>2, <2>4, <2>5, CapturedHolds
<1>3. CASE Intercept
  <2>1. PICK place \in SplitAuthority(source.authority, 443), inner \in Resolve(source) :
            Captured(place, Record(source, "https", inner.host, source.host, source.target))
    BY <1>3 DEF Intercept
  <2>2. went = << >> /\ ~refused /\ source.kind = "https"
    BY <1>3 DEF Intercept, First
  <2>3. source.scheme = "https"
    BY <1>1, <2>2, DestinationsAssumption
  <2>4. inner \in Places /\ inner.host \in Text /\ source.host \in Text
    BY <1>1, ResolveIs, SourceFacts DEF Places
  <2>5. place \in Places
    <3>1. source.authority \in Text /\ 443 \in Defaults
      BY <1>1, SourceFacts DEF Defaults
    <3> QED
      BY <2>1, <3>1, SplitIs
  <2>6. Captured(place, Record(source, source.scheme, inner.host, source.host, source.target))
    BY <2>1, <2>3
  <2> QED
    BY <2>2, <2>4, <2>5, <2>6, CapturedHolds
<1>4. CASE Execute
  <2>1. PICK place \in ComposedPlaces :
            Captured(place, Record(source, source.scheme, place.host,
                ComposedAuthority(place.host, place.port, Default), "origin"))
    BY <1>1, <1>4 DEF Execute
  <2>2. went = << >> /\ ~refused /\ source.kind = "composed"
    BY <1>4 DEF Execute, First
  <2>3. place \in Places /\ place.host # << >> /\ place.host \in Text /\ place.port \in PortValues
    BY <1>1, ComposedAre DEF Places
  <2>4. ComposedAuthority(place.host, place.port, Default) \in Text
    <3>1. PICK h, s : h = place.host /\ s = PortSuffix(place.port, Default)
      OBVIOUS
    <3>2. Default \in Defaults
      BY <1>1, SourceFacts
    <3>3. h \in Text /\ s \in Text
      BY <2>3, <3>1, <3>2, PortSuffixIs
    <3>4. h \o s \in Text
      BY <3>3, JoinIs
    <3>5. WithBrackets(h, s) \in Text
      BY <3>3, Enclosed DEF Encloses
    <3> QED
      BY <3>1, <3>4, <3>5 DEF ComposedAuthority, WithBrackets
  <2> QED
    BY <2>1, <2>2, <2>3, <2>4, CapturedHolds
<1>5. CASE Replay
  BY <1>5, ReplayHolds
<1>6. CASE Refuse
  <2>1. went = << >> /\ UNCHANGED <<source, record, went, bodies>> /\ refused' = TRUE
    BY <1>6 DEF Refuse
  <2>2. Types' /\ RecordInv' /\ PlacesAgree' /\ ReplayFindsOriginal'
    BY <2>1 DEF IInv, Types, RecordInv, RecordIsOfSource, OriginalIsRecorded, ReplayIsRecorded,
                PlacesAgree, ReplayFindsOriginal, HostAgrees, Latest, Default, ReplayBody, Truncated
  <2>3. RefusedForAReason'
    BY <2>1 DEF RefusedForAReason
  <2> QED
    BY <2>2, <2>3 DEF IInv
<1>7. CASE ReplayRefused
  <2>1. /\ UNCHANGED <<source, record, went, bodies>> /\ refused' = TRUE
        /\ ReplayPlaces = {} \/ ReplayBody = {}
    BY <1>7 DEF ReplayRefused
  <2>2. Types' /\ RecordInv' /\ PlacesAgree' /\ ReplayFindsOriginal'
    BY <2>1 DEF IInv, Types, RecordInv, RecordIsOfSource, OriginalIsRecorded, ReplayIsRecorded,
                PlacesAgree, ReplayFindsOriginal, HostAgrees, Latest, Default, ReplayBody, Truncated
  <2>3. RefusedForAReason'
    BY <2>1 DEF RefusedForAReason, ReplayPlaces, ReplayBody, Truncated
  <2> QED
    BY <2>2, <2>3 DEF IInv
<1>8. CASE UNCHANGED vars
  BY <1>8 DEF vars, IInv, Types, RecordInv, RecordIsOfSource, OriginalIsRecorded,
              ReplayIsRecorded, RefusedForAReason, PlacesAgree, ReplayFindsOriginal, HostAgrees,
              Latest, Default, ReplayPlaces, ReplayBody, Truncated
<1> QED
  BY <1>2, <1>3, <1>4, <1>5, <1>6, <1>7, <1>8 DEF Next, Done

LEMMA AlwaysHolds == Spec => []IInv
<1> QED
  BY InitHolds, NextHolds, PTL DEF Spec

-----------------------------------------------------------------------------
(* What follows.                                                           *)

(* A replay goes where the request went, if its Host header says so: what  *)
(* the proxy reads with split_authority() a replay reads with              *)
(* parse_authority(), and what format_authority() writes for any host and  *)
(* port it reads back (http.rs:258-297, replay.rs:184-247,                 *)
(* composer.rs:158-193).                                                   *)
THEOREM ReplaysFindOriginals == Spec => []ReplayFindsOriginal
<1>1. IInv => ReplayFindsOriginal
  BY DEF IInv
<1> QED
  BY <1>1, AlwaysHolds, PTL

(* Every replay of a replay goes to the same place with the whole body,    *)
(* and the preview keeps to its limit, for bodies and previews of any      *)
(* length (replay.rs:158-182, body.rs:27-52).                              *)
THEOREM ReplaysStayAlike == Spec => []ReplaysAreAlike
<1>1. ASSUME IInv PROVE ReplaysAreAlike
  <2>1. /\ source \in Sources /\ source \in Source /\ source.body \in Nat
        /\ went \in Seq(Places) /\ bodies \in Seq({source.body})
        /\ Len(bodies) = Len(went) /\ Len(went) <= MaxReplays + 1
        /\ record.scheme = source.scheme
        /\ record.preview = Ingest(NewCapture, Bytes(1, source.body))
    BY <1>1, SourceFacts, DestinationsAssumption
       DEF IInv, Types, RecordInv, RecordIsOfSource, Places
  <2>2. refused \in BOOLEAN
    BY <1>1, Zenon DEF IInv, Types
  <2>3. Len(record.preview.captured) <= PreviewLimit
    <3>1. Len(record.preview.captured) =
              IF source.body < PreviewLimit THEN source.body ELSE PreviewLimit
      BY <2>1, CaptureIs
    <3> QED
      BY <2>1, <3>1, PreviewLimitAssumption
  <2>4. \A i \in DOMAIN went : went[i] \in Places
    <3> HIDE DEF Places
    <3> QED
      BY <2>1, ElementOfSeq
  <2>5. \A i \in DOMAIN went : went[i].host \in Seq(Pieces) /\ went[i].port \in {80, 443, 8080}
    BY <2>4 DEF Places, Text, PortValues
  <2>6. TypeOK
    <3>1. /\ source \in Source /\ Len(bodies) = Len(went) /\ Len(went) <= MaxReplays + 1
          /\ record.scheme = source.scheme
      BY <2>1
    <3> QED
      BY <2>2, <2>3, <2>5, <3>1 DEF TypeOK
  <2>7. \A i \in DOMAIN bodies : bodies[i] = source.body
    BY <2>1, ElementOfSeq
  <2>8. ReplaysAgree
    BY <1>1, <2>7 DEF IInv, PlacesAgree, ReplaysAgree
  <2> QED
    BY <2>6, <2>8 DEF ReplaysAreAlike
<1> QED
  BY <1>1, AlwaysHolds, PTL

(* What was replayed can be replayed again, however often, and what was    *)
(* composed can be replayed, unless its host has brackets inside or its    *)
(* body is too long or no text (replay.rs:38-69, 158-182,                  *)
(* composer.rs:158-193).                                                   *)
THEOREM ReplaysCanBeRepeated == Spec => []ReplayableAgain
<1>1. ASSUME IInv PROVE ReplayableAgain
  <2> SUFFICES ASSUME refused, went # << >>,
                      PlainHost(went[1].host), PlainHost(went[Len(went)].host)
               PROVE  /\ Len(went) = 1
                      /\ source.kind = "composed" => source.body > PreviewLimit \/ ~source.text
    BY DEF ReplayableAgain
  <2>1. /\ Types /\ RecordInv /\ RefusedForAReason
        /\ went \in Seq(Places) /\ Len(went) \in Nat
    BY <1>1 DEF IInv, Types, Places
  <2>2. Len(went) > 0
    <3> HIDE DEF Places
    <3> QED
      BY <2>1, EmptySeq
  <2>3. ReplayPlaces = {} \/ ReplayBody = {}
    BY <2>1 DEF RefusedForAReason
  <2>4. ~(Len(went) > 1)
    <3> SUFFICES ASSUME Len(went) > 1 PROVE FALSE
      OBVIOUS
    <3>1. ReplayPlaces # {}
      BY <2>1, ReplayGoesBack DEF Latest
    <3>2. ReplayBody # {}
      BY <2>1 DEF RecordInv, ReplayIsRecorded
    <3> QED
      BY <2>3, <3>1, <3>2
  <2>5. Len(went) = 1
    <3>1. \A n \in Nat : n > 0 /\ ~(n > 1) => n = 1
      OBVIOUS
    <3> QED
      BY <2>1, <2>2, <2>4, <3>1, Zenon
  <2>6. ASSUME source.kind = "composed"
        PROVE  source.body > PreviewLimit \/ ~source.text
    <3>1. ~StartsWith(went[1].host, "[")
      <4>1. went[1].host \in Text /\ went[1].host # << >>
        <5>1. went[1] \in Places
          <6> HIDE DEF Places
          <6> QED
            BY <2>1, <2>5, ElementOfSeq
        <5> QED
          BY <2>1, <2>5, <2>6, <5>1 DEF Places, RecordInv, OriginalIsRecorded, Latest
      <4>2. 1 \in DOMAIN went[1].host
        BY <4>1, TextFacts
      <4> QED
        BY <4>2 DEF PlainHost, StartsWith
    <3>2. ReplayPlaces # {}
      BY <2>1, <2>5, <2>6, <3>1, ComposedGoesBack
    <3>3. ReplayBody = {}
      BY <2>3, <3>2
    <3>4. /\ source.body \in Nat /\ source.text \in BOOLEAN /\ record.text = source.text
          /\ record.preview = Ingest(NewCapture, Bytes(1, source.body))
      BY <2>1, SourceFacts DEF Types, RecordInv, RecordIsOfSource
    <3> QED
      BY <3>3, <3>4, ReplayBodyIs
  <2> QED
    BY <2>5, <2>6
<1> QED
  BY <1>1, AlwaysHolds, PTL

=============================================================================
