--------------------------- MODULE HttpServer_proofs ---------------------------
(***************************************************************************)
(* Proofs about HttpServer, for any requests, limits and segments.         *)
(***************************************************************************)
EXTENDS HttpServer, SequenceTheorems, WellFoundedInduction, TLAPS

-----------------------------------------------------------------------------
(* url_unquote                                                             *)

\* Induction over a set: what some number violates, a least one violates.
LEMMA LeastViolation ==
  ASSUME NEW T \in SUBSET Nat, T # {}
  PROVE  \E n \in T : \A m \in T : n <= m
  <1> DEFINE R == {mn \in Nat \X Nat : mn[1] < mn[2]}
  <1>1. IsWellFoundedOn(R, Nat)
    BY NatLessThanWellFounded, Zenon DEF OpToRel
  <1>2. \A m, n \in Nat : m < n => <<m, n>> \in R
    OBVIOUS
  <1> HIDE DEF R
  <1>3. PICK n \in T : \A m \in T : ~ (<<m, n>> \in R)
    BY <1>1, WFMin, Zenon
  <1>4. \A m \in T : m \in Nat /\ n \in Nat /\ ~ (m < n)
    BY <1>2, <1>3
  <1> QED
    BY <1>4

\* One step of the loop of url_unquote, given what follows it.
Step(v, f, i) ==
  IF i > Len(v) THEN <<>>
  ELSE IF /\ v[i] = "%" /\ i + 2 <= Len(v)
          /\ SubSeq(v, i + 1, i + 2) \in DOMAIN Chr
  THEN <<Chr[SubSeq(v, i + 1, i + 2)]>> \o f[i + 3]
  ELSE <<IF v[i] = "+" THEN " " ELSE v[i]>> \o f[i + 1]

LEMMA UnquoteIsLoop ==
  ASSUME NEW v
  PROVE  url_unquote(v) = (CHOOSE f : f = [i \in 1 .. Len(v) + 1 |-> Step(v, f, i)])[1]
  BY DEF url_unquote, Step

LEMMA Prefixed ==
  ASSUME NEW S, NEW x \in S, NEW t \in Seq(S)
  PROVE  <<x>> \o t \in Seq(S)
  OBVIOUS

LEMMA StepTyped ==
  ASSUME NEW v \in Text, NEW i \in 1 .. Len(v) + 1, NEW f,
         \A j \in i + 1 .. Len(v) + 1 : f[j] \in Text
  PROVE  Step(v, f, i) \in Text
  <1>0. Len(v) \in Nat /\ \A j \in 1 .. Len(v) : v[j] \in Symbol
    BY DEF Text
  <1>1. CASE i > Len(v)
    BY <1>1, EmptySeq DEF Step, Text
  <1>2. CASE i <= Len(v)
    <2>1. \A x \in Symbol, t \in Text : <<x>> \o t \in Text
      BY Prefixed DEF Text
    <2>2. (IF v[i] = "+" THEN " " ELSE v[i]) \in Symbol
      <3>1. v[i] \in Symbol
        BY <1>0, <1>2
      <3>2. " " \in Symbol
        BY FormsAssumption DEF FormsAssumption
      <3> QED
        BY <3>1, <3>2, Zenon
    <2>3. \A xy \in DOMAIN Chr : Chr[xy] \in Symbol
      BY FormsAssumption DEF FormsAssumption
    <2>4. f[i + 1] \in Text /\ (i + 2 <= Len(v) => f[i + 3] \in Text)
      BY <1>0, <1>2
    <2>5. <<IF v[i] = "+" THEN " " ELSE v[i]>> \o f[i + 1] \in Text
      BY <2>1, <2>2, <2>4
    <2>6. ASSUME i + 2 <= Len(v), SubSeq(v, i + 1, i + 2) \in DOMAIN Chr
          PROVE  <<Chr[SubSeq(v, i + 1, i + 2)]>> \o f[i + 3] \in Text
      BY <2>1, <2>3, <2>4, <2>6
    <2>7. ~ (i > Len(v))
      BY <1>0, <1>2
    <2> QED
      BY <2>5, <2>6, <2>7, Zenon DEF Step
  <1> QED
    BY <1>0, <1>1, <1>2

\* The loop is defined for every text, by induction on what is left of it.
LEMMA LoopExists ==
  ASSUME NEW v \in Text
  PROVE  \E f : f = [i \in 1 .. Len(v) + 1 |-> Step(v, f, i)]
  <1> DEFINE N == Len(v) + 1
             Upto(d, f) == f = [i \in N - d .. N |-> Step(v, f, i)]
             Bad == {d \in 0 .. Len(v) : ~ \E f : Upto(d, f)}
  <1>0. Len(v) \in Nat
    BY DEF Text
  <1>1. SUFFICES ASSUME Bad # {} PROVE FALSE
    <2>1. Len(v) \notin Bad => \E f : Upto(Len(v), f)
      BY <1>0
    <2>2. N - Len(v) = 1
      BY <1>0
    <2> QED
      BY <2>1, <2>2
  <1>2. PICK d \in Bad : \A e \in Bad : d <= e
    <2>1. Bad \in SUBSET Nat
      BY <1>0
    <2> HIDE DEF Bad
    <2> QED
      BY <2>1, <1>1, LeastViolation
  <1>3. d \in 0 .. Len(v)
    BY <1>2
  <1>4. CASE d = 0
    <2> DEFINE g == [i \in N .. N |-> <<>>]
    <2>1. \A i \in N .. N : Step(v, g, i) = <<>>
      <3> SUFFICES ASSUME NEW i \in N .. N PROVE Step(v, g, i) = <<>>
        OBVIOUS
      <3>1. i > Len(v)
        BY <1>0
      <3> HIDE DEF g
      <3> QED
        BY <3>1, Zenon DEF Step
    <2>2. Upto(0, g)
      BY <1>0, <2>1
    <2> QED
      BY <1>2, <1>4, <2>2
  <1>5. CASE d # 0
    <2>1. d - 1 \in 0 .. Len(v) /\ ~ (d <= d - 1)
      BY <1>0, <1>3, <1>5
    <2>2. PICK f : Upto(d - 1, f)
      BY <2>1, <1>2
    <2> DEFINE g == [i \in N - d .. N |-> IF i = N - d THEN Step(v, f, N - d) ELSE f[i]]
    <2>3. \A i \in N - d + 1 .. N : g[i] = f[i]
      BY <1>0, <1>3
    <2>4. \A i \in N - d .. N : Step(v, g, i) = Step(v, f, i)
      <3> SUFFICES ASSUME NEW i \in N - d .. N PROVE Step(v, g, i) = Step(v, f, i)
        OBVIOUS
      <3>1. i + 1 <= N => g[i + 1] = f[i + 1]
        BY <2>3, <1>0, <1>3
      <3>2. i + 3 <= N => g[i + 3] = f[i + 3]
        BY <2>3, <1>0, <1>3
      <3>3. i > Len(v) \/ i + 1 <= N
        BY <1>0, <1>3
      <3>4. i + 2 <= Len(v) => i + 3 <= N
        BY <1>0, <1>3
      <3> HIDE DEF g
      <3> QED
        BY <3>1, <3>2, <3>3, <3>4, Zenon DEF Step
    <2>5. \A i \in N - (d - 1) .. N : f[i] = Step(v, f, i)
      BY <2>2
    <2>6. \A i \in N - d .. N : g[i] = Step(v, f, i)
      BY <2>5, <1>0, <1>3
    <2>7. Upto(d, g)
      BY <2>4, <2>6
    <2> QED
      BY <1>2, <2>7
  <1> QED
    BY <1>4, <1>5

(* Decoding a text yields a text, for every text and every set of escapes.  *)
LEMMA UnquoteTyped ==
  ASSUME NEW v \in Text
  PROVE  url_unquote(v) \in Text
  <1> DEFINE N == Len(v) + 1
             f == CHOOSE g : g = [i \in 1 .. N |-> Step(v, g, i)]
             Bad == {d \in 0 .. Len(v) : f[N - d] \notin Text}
  <1>0. Len(v) \in Nat
    BY DEF Text
  <1>1. f = [i \in 1 .. N |-> Step(v, f, i)]
    BY LoopExists
  <1>2. url_unquote(v) = f[1]
    BY UnquoteIsLoop
  <1> HIDE DEF f
  <1>3. ASSUME Bad # {} PROVE FALSE
    <2>1. PICK d \in Bad : \A e \in Bad : d <= e
      <3>1. Bad \in SUBSET Nat
        BY <1>0
      <3> HIDE DEF Bad
      <3> QED
        BY <3>1, <1>3, LeastViolation
    <2>2. d \in 0 .. Len(v) /\ f[N - d] \notin Text
      BY <2>1
    <2>3. ASSUME NEW j \in N - d + 1 .. N PROVE f[j] \in Text
      <3>1. N - j \in 0 .. Len(v) /\ ~ (d <= N - j) /\ N - (N - j) = j
        BY <1>0, <2>2
      <3> QED
        BY <3>1, <2>1
    <2>4. N - d \in 1 .. N /\ f[N - d] = Step(v, f, N - d)
      BY <1>0, <1>1, <2>2
    <2> QED
      BY <2>2, <2>3, <2>4, StepTyped
  <1>4. Len(v) \in 0 .. Len(v) /\ N - Len(v) = 1
    BY <1>0
  <1> QED
    BY <1>2, <1>3, <1>4

-----------------------------------------------------------------------------
(* Texts, their parts and their marks                                      *)

LEMMA PartOf ==
  ASSUME NEW t \in Text, NEW m \in 1 .. Len(t) + 1, NEW n \in m - 1 .. Len(t)
  PROVE  /\ SubSeq(t, m, n) \in Text /\ Len(SubSeq(t, m, n)) = n - m + 1
         /\ \A i \in 1 .. n - m + 1 : SubSeq(t, m, n)[i] = t[m + i - 1]
  BY SubSeqProperties DEF Text

LEMMA EmptyIsText == <<>> \in Text /\ Len(<<>>) = 0
  BY EmptySeq DEF Text

\* The first place of a mark, 0 without one.
Place(t, mark) == SelectInSeq(t, LAMBDA x : x = mark)

LEMMA PlaceIs ==
  ASSUME NEW t \in Text, NEW mark
  PROVE  /\ Place(t, mark) \in 0 .. Len(t)
         /\ Place(t, mark) = 0 <=> \A i \in 1 .. Len(t) : t[i] # mark
         /\ Place(t, mark) # 0 => /\ t[Place(t, mark)] = mark
                                  /\ \A i \in 1 .. Place(t, mark) - 1 : t[i] # mark
  <1> DEFINE I == {i \in 1 .. Len(t) : t[i] = mark}
  <1>0. Len(t) \in Nat
    BY DEF Text
  <1>1. Place(t, mark) = IF I # {} THEN CHOOSE i \in I : \A j \in I : i =< j ELSE 0
    BY DEF Place, SelectInSeq, Min
  <1>2. I # {} => \E i \in I : \A j \in I : i =< j
    <2>1. I \in SUBSET Nat
      BY <1>0
    <2> HIDE DEF I
    <2> QED
      BY <2>1, LeastViolation
  <1> DEFINE place == Place(t, mark)
  <1>3. CASE I = {}
    BY <1>0, <1>1, <1>3
  <1>4. CASE I # {}
    <2>1. place \in I /\ \A j \in I : place =< j
      <3> HIDE DEF I
      <3> QED
        BY <1>1, <1>2, <1>4
    <2> HIDE DEF place
    <2>2. place \in 1 .. Len(t) /\ t[place] = mark
      BY <2>1
    <2>3. \A i \in 1 .. place - 1 : t[i] # mark
      BY <2>1, <2>2, <1>0
    <2> QED
      BY <2>2, <2>3, <1>0 DEF place
  <1> QED
    BY <1>3, <1>4

LEMMA BeforeAfterTyped ==
  ASSUME NEW t \in Text, NEW mark
  PROVE  Before(t, mark) \in Text /\ After(t, mark) \in Text
  <1>0. Len(t) \in Nat
    BY DEF Text
  <1>1. /\ Before(t, mark) = IF Place(t, mark) = 0 THEN t ELSE SubSeq(t, 1, Place(t, mark) - 1)
        /\ After(t, mark) = IF Place(t, mark) = 0 THEN <<>>
                            ELSE SubSeq(t, Place(t, mark) + 1, Len(t))
    BY DEF Before, After, Place
  <1>2. Place(t, mark) \in 0 .. Len(t)
    BY PlaceIs
  <1> HIDE DEF Place
  <1>3. CASE Place(t, mark) = 0
    BY <1>1, <1>3, EmptyIsText
  <1>4. CASE Place(t, mark) # 0
    BY <1>0, <1>1, <1>2, <1>4, PartOf
  <1> QED
    BY <1>3, <1>4

-----------------------------------------------------------------------------
(* Parameters                                                              *)

\* A non-empty set of naturals below a bound has a greatest element.
LEMMA Greatest ==
  ASSUME NEW N \in Nat, NEW T \in SUBSET (1 .. N), T # {}
  PROVE  \E n \in T : \A m \in T : m <= n
  <1> DEFINE U == {N - n : n \in T}
  <1>1. U \in SUBSET Nat /\ U # {}
    <2>1. \A n \in T : N - n \in Nat
      OBVIOUS
    <2>2. U \in SUBSET Nat
      BY <2>1
    <2> QED
      BY <2>2
  <1>2. \A n \in T : N - n \in U
    OBVIOUS
  <1>3. PICK u \in U : \A w \in U : u <= w
    <2> HIDE DEF U
    <2> QED
      BY <1>1, LeastViolation
  <1>4. PICK n \in T : u = N - n
    BY <1>3
  <1>5. \A m \in T : N - n <= N - m
    BY <1>2, <1>3, <1>4
  <1> QED
    BY <1>5

ParamsTyped(params_) == \A k \in DOMAIN params_ : params_[k] \in Text

LEMMA ParseTyped ==
  ASSUME NEW v \in Text
  PROVE  ParamsTyped(parse_kv_pairs(v))
  <1> DEFINE Key(ij) == url_unquote(Before(SubSeq(v, ij[1], ij[2]), "="))
             Of(k)   == {ij \in Items(v) : Key(ij) = k}
             LastOf(k) == CHOOSE ij \in Of(k) : \A other \in Of(k) : other[1] <= ij[1]
  <1>0. Len(v) \in Nat
    BY DEF Text
  <1>1. \A ij \in Items(v) : ij[1] \in 1 .. Len(v) /\ ij[2] \in 1 .. Len(v) /\ ij[1] <= ij[2]
    BY DEF Items
  <1>2. parse_kv_pairs(v) =
          [k \in {Key(ij) : ij \in Items(v)} |->
             url_unquote(After(SubSeq(v, LastOf(k)[1], LastOf(k)[2]), "="))]
    BY DEF parse_kv_pairs
  <1>3. ASSUME NEW k \in {Key(ij) : ij \in Items(v)}
        PROVE  LastOf(k) \in Items(v)
    <2> DEFINE T == {ij[1] : ij \in Of(k)}
    <2>1. T \in SUBSET (1 .. Len(v)) /\ T # {}
      BY <1>1, <1>3
    <2>2. PICK n \in T : \A m \in T : m <= n
      <3> HIDE DEF T
      <3> QED
        BY <1>0, <2>1, Greatest
    <2>3. \E ij \in Of(k) : \A other \in Of(k) : other[1] <= ij[1]
      BY <2>2
    <2>4. LastOf(k) \in Of(k)
      <3> HIDE DEF Of
      <3> QED
        BY <2>3
    <2> HIDE DEF LastOf, Key
    <2> QED
      BY <2>4, Zenon
  <1> HIDE DEF LastOf, Key
  <1>4. ASSUME NEW k \in {Key(ij) : ij \in Items(v)}
        PROVE  url_unquote(After(SubSeq(v, LastOf(k)[1], LastOf(k)[2]), "=")) \in Text
    <2>0. /\ LastOf(k)[1] \in 1 .. Len(v) + 1
          /\ LastOf(k)[2] \in LastOf(k)[1] - 1 .. Len(v)
      <3>1. LastOf(k) \in Items(v)
        BY <1>3
      <3>2. /\ LastOf(k)[1] \in 1 .. Len(v) /\ LastOf(k)[2] \in 1 .. Len(v)
            /\ LastOf(k)[1] <= LastOf(k)[2]
        BY <1>1, <3>1
      <3> QED
        BY <1>0, <3>2
    <2>1. SubSeq(v, LastOf(k)[1], LastOf(k)[2]) \in Text
      BY <2>0, PartOf, Zenon
    <2> QED
      BY <2>1, BeforeAfterTyped, UnquoteTyped
  <1> QED
    BY <1>2, <1>4 DEF ParamsTyped

LEMMA GetTyped ==
  ASSUME NEW q \in Text, NEW b \in Text, NEW key, NEW default \in Text
  PROVE  Get(Updated(parse_kv_pairs(q), parse_kv_pairs(b)), key, default) \in Text
  BY ParseTyped DEF ParamsTyped, Get, Updated

\* Without a query and a body every parameter has its default.
LEMMA NoParams ==
  ASSUME NEW key, NEW default
  PROVE  Get(Updated(parse_kv_pairs(<<>>), parse_kv_pairs(<<>>)), key, default) = default
  <1>1. Items(<<>>) = {}
    BY DEF Items
  <1>2. DOMAIN parse_kv_pairs(<<>>) = {}
    BY <1>1 DEF parse_kv_pairs
  <1> QED
    BY <1>2 DEF Get, Updated

-----------------------------------------------------------------------------
(* Segments and names                                                      *)

LEMMA SegmentIs ==
  ASSUME rest \in Text, NEW most \in Nat, NEW chunk \in Segment(most)
  PROVE  /\ chunk \in Text /\ Remaining(chunk) \in Text
         /\ Len(chunk) \in 1 .. most /\ Len(chunk) <= Len(rest)
         /\ chunk = SubSeq(rest, 1, Len(chunk))
         /\ \A t \in Text : t \o chunk \in Text /\ Len(t \o chunk) = Len(t) + Len(chunk)
  <1>0. Len(rest) \in Nat
    BY DEF Text
  <1>1. PICK n \in 1 .. Least(Len(rest), most) : chunk = SubSeq(rest, 1, n)
    BY DEF Segment
  <1>2. n \in Nat /\ 1 <= n /\ n <= Len(rest) /\ n <= most
    BY <1>0, <1>1 DEF Least
  <1>3. chunk \in Text /\ Len(chunk) = n
    BY <1>0, <1>1, <1>2, PartOf
  <1>4. Remaining(chunk) \in Text
    BY <1>0, <1>2, <1>3, PartOf DEF Remaining
  <1>5. \A t \in Text : t \o chunk \in Text /\ Len(t \o chunk) = Len(t) + Len(chunk)
    BY <1>3, ConcatProperties DEF Text
  <1> QED
    BY <1>1, <1>2, <1>3, <1>4, <1>5

LEMMA CutTyped ==
  ASSUME NEW t \in Text
  PROVE  Cut(t) \in Text /\ Len(Cut(t)) <= NameMax /\ (t # <<>> => Len(Cut(t)) >= 1)
  <1>0. Len(t) \in Nat /\ NameMax \in Nat \ {0} /\ (t # <<>> => Len(t) # 0)
    BY HttpAssumption, EmptySeq DEF HttpAssumption, Text
  <1>1. Least(Len(t), NameMax) \in 0 .. Len(t) /\ Least(Len(t), NameMax) <= NameMax
        /\ (t # <<>> => Least(Len(t), NameMax) >= 1)
    BY <1>0 DEF Least
  <1> HIDE DEF Least
  <1> QED
    BY <1>0, <1>1, PartOf DEF Cut

LEMMA StripTyped ==
  ASSUME NEW t \in Text
  PROVE  Strip(t) \in Text
  <1> DEFINE ink == {i \in 1 .. Len(t) : t[i] # " "}
             first == CHOOSE i \in ink : \A j \in ink : i <= j
             last  == CHOOSE i \in ink : \A j \in ink : i >= j
  <1>0. Len(t) \in Nat
    BY DEF Text
  <1>1. Strip(t) = IF ink = {} THEN <<>> ELSE SubSeq(t, first, last)
    BY DEF Strip
  <1>2. ASSUME ink # {} PROVE first \in 1 .. Len(t) /\ last \in first .. Len(t)
    <2>1. ink \subseteq 1 .. Len(t)
      BY Zenon
    <2>2. \A i \in 1 .. Len(t) : i \in Nat
      BY <1>0
    <2>3. ink \in SUBSET Nat /\ ink \in SUBSET (1 .. Len(t))
      BY <2>1, <2>2, Zenon
    <2> HIDE DEF ink
    <2>4. \E i \in ink : \A j \in ink : i <= j
      BY <2>3, <1>2, LeastViolation
    <2>5. \E i \in ink : \A j \in ink : i >= j
      <3>1. \E i \in ink : \A j \in ink : j <= i
        BY <1>0, <2>3, <1>2, Greatest
      <3> QED
        BY <3>1, <2>3
    <2>6. first \in ink /\ \A j \in ink : first <= j
      BY <2>4
    <2>7. last \in ink
      BY <2>5
    <2> HIDE DEF first, last
    <2> QED
      BY <1>0, <2>3, <2>6, <2>7
  <1> HIDE DEF ink, first, last
  <1>3. CASE ink # {}
    <2>1. first \in 1 .. Len(t) + 1 /\ last \in first - 1 .. Len(t)
      BY <1>0, <1>2, <1>3
    <2> QED
      BY <1>1, <1>3, <2>1, PartOf, Zenon
  <1> QED
    BY <1>1, <1>3, EmptyIsText

LEMMA QueriedTyped ==
  ASSUME conn \in Request, body \in Text, NEW key, NEW default \in Text
  PROVE  Get(params, key, default) \in Text
  <1>1. conn.query \in Text
    BY RequestAssumption DEF RequestAssumption
  <1> QED
    BY <1>1, GetTyped, Zenon DEF params

LEMMA NameTyped ==
  ASSUME conn \in Request, body \in Text
  PROVE  NewName \in Text /\ (NewName # <<>> => Len(NewName) \in 1 .. NameMax)
  <1>1. Get(params, <<"name">>, <<>>) \in Text
    BY QueriedTyped, EmptyIsText
  <1>2. NewName \in Text /\ Len(NewName) <= NameMax
    BY <1>1, StripTyped, CutTyped DEF NewName
  <1>3. NewName # <<>> => Len(NewName) # 0
    BY <1>2, EmptySeq DEF Text
  <1> QED
    BY <1>2, <1>3, HttpAssumption DEF HttpAssumption, Text

-----------------------------------------------------------------------------
(* Type correctness                                                        *)

Named(l) == l \in [PC -> Text] /\ \A p \in PC : Len(l[p]) \in 1 .. NameMax

\* The labels, the UART, and the label that a failing save puts back.
Kept ==
  /\ Named(labels) /\ (file = Torn \/ Named(file)) /\ uart \in BOOLEAN
  /\ late \in Done \cup {Nothing} /\ (late # Nothing => late.id \in PC)
  /\ pc = "save" => /\ did \in Done /\ did.id \in PC
                    /\ Len(did.old) \in 1 .. NameMax
                    /\ labels[did.id] = did.arg

\* The request that is read and answered.  The readers go on only below
\* their limits.
Serving ==
  /\ pc \in {"accept", "head", "parse", "body", "handle", "save", "reply", "error"}
  /\ conn \in Request \cup {NoConn} /\ (conn = NoConn) = (pc = "accept")
  /\ rest \in Text /\ data \in Text /\ body \in Text
  /\ Len(data) <= HTTP_MAX_REQUEST_BYTES + Chunk
  /\ pc \in {"accept", "head"} => Len(data) <= HTTP_MAX_REQUEST_BYTES
  /\ Len(body) <= HTTP_MAX_REQUEST_BYTES
  /\ pc = "body" => conn.length \in 0 .. HTTP_MAX_REQUEST_BYTES /\ Len(body) < conn.length
  /\ code \in {200, 204, 400, 401, 404, 500}
  /\ did \in Done \cup {Nothing}

LEMMA TypeOKHolds ==
  ASSUME Kept, Serving
  PROVE  TypeOK
  BY DEF Kept, Serving, Named, TypeOK

LEMMA CloseServing ==
  ASSUME Close
  PROVE  Serving'
  BY EmptyIsText, HttpAssumption DEF HttpAssumption, Close, Serving

LEMMA AnswerServing ==
  ASSUME Serving, pc # "accept", NEW status \in {200, 204, 400, 401, 404, 500},
         Answer(status), did' \in Done \cup {Nothing}
  PROVE  Serving'
  BY DEF Answer, stream, Serving

LEMMA RaiseServing ==
  ASSUME Serving, pc # "accept", Raise
  PROVE  Serving'
  <1>1. CASE Close
    BY <1>1, CloseServing
  <1>2. CASE Fault
    BY <1>2 DEF Fault, stream, Serving
  <1> QED
    BY <1>1, <1>2 DEF Raise

LEMMA StillKept ==
  ASSUME Kept, UNCHANGED state, pc' # "save"
  PROVE  Kept'
  BY DEF Kept, state, Named

LEMMA JobTyped ==
  ASSUME NEW op \in {"action", "kvm", "label"}, NEW id \in PC,
         NEW arg \in Text, NEW old \in Text
  PROVE  Job(op, id, arg, old) \in Done
  BY HttpAssumption DEF HttpAssumption, Job, Done

LEMMA InitTyped ==
  ASSUME Init
  PROVE  Kept /\ Serving
  <1>1. Kept
    BY HttpAssumption DEF HttpAssumption, Init, make_kvm_uart, Kept, Named
  <1>2. Serving
    BY HttpAssumption, EmptyIsText DEF HttpAssumption, Init, Serving
  <1> QED
    BY <1>1, <1>2

LEMMA ReaderServing ==
  ASSUME Serving,
         \/ \E r \in Request : Accept(r)
         \/ \E chunk \in Segment(Chunk) : RecvHead(chunk) \/ RecvBody(chunk)
         \/ RecvHeadEnd \/ RecvBodyEnd
  PROVE  Serving'
  <1>0. Chunk \in Nat /\ HTTP_MAX_REQUEST_BYTES \in Nat
    BY HttpAssumption DEF HttpAssumption
  <1>1. ASSUME NEW r \in Request, Accept(r) PROVE Serving'
    <2>1. {r.head, r.body} \subseteq Text /\ "end" \in Symbol /\ r # NoConn
      BY RequestAssumption, HttpAssumption DEF RequestAssumption, HttpAssumption
    <2>2. r.head \o <<"end">> \o r.body \in Text
      <3>1. <<"end">> \in Text
        BY <2>1 DEF Text
      <3> QED
        BY <2>1, <3>1, ConcatProperties DEF Text
    <2> HIDE DEF Text
    <2>3. data = data' /\ body = body' /\ code = code' /\ did = did' /\ rest' \in Text
      BY <1>1, <2>2 DEF Accept
    <2> QED
      BY <1>1, <2>1, <2>3 DEF Accept, Serving
  <1>2. ASSUME NEW chunk \in Segment(Chunk), RecvHead(chunk) PROVE Serving'
    <2>1. /\ data' \in Text /\ rest' \in Text /\ Len(data) \in Nat
          /\ Len(data') \in Nat /\ Len(data') <= HTTP_MAX_REQUEST_BYTES + Chunk
      <3>1. Len(data) \in Nat /\ Len(data) <= HTTP_MAX_REQUEST_BYTES
        BY <1>2 DEF RecvHead, Serving, Text
      <3>2. data' \in Text /\ Len(data') = Len(data) + Len(chunk) /\ Len(chunk) \in 1 .. Chunk
        BY <1>0, <1>2, SegmentIs DEF RecvHead, Serving
      <3>3. rest' \in Text
        BY <1>0, <1>2, SegmentIs DEF RecvHead, Serving
      <3> QED
        BY <1>0, <3>1, <3>2, <3>3
    <2> QED
      BY <1>0, <1>2, <2>1 DEF RecvHead, Serving
  <1>3. ASSUME NEW chunk \in Segment(Chunk), RecvBody(chunk) PROVE Serving'
    <2>1. /\ Len(body) \in Nat /\ conn.length \in 0 .. HTTP_MAX_REQUEST_BYTES
          /\ Len(body) < conn.length /\ rest \in Text /\ body \in Text
      BY <1>3 DEF RecvBody, Serving, Text
    <2>2. conn.length - Len(body) \in Nat /\ chunk \in Segment(conn.length - Len(body))
      BY <1>3, <2>1 DEF RecvBody
    <2>3. /\ body' \in Text /\ rest' \in Text
          /\ Len(body') = Len(body) + Len(chunk) /\ Len(chunk) \in 1 .. conn.length - Len(body)
      BY <1>3, <2>1, <2>2, SegmentIs DEF RecvBody
    <2>4. Len(body') <= HTTP_MAX_REQUEST_BYTES /\ Len(body') <= conn.length
      BY <1>0, <2>1, <2>3
    <2>5. pc' \in {"body", "handle"} /\ (pc' = "body" => Len(body') < conn.length)
      <3>1. pc' = IF Len(body') = conn.length THEN "handle" ELSE "body"
        BY <1>3 DEF RecvBody
      <3>2. Len(body') = conn.length \/ Len(body') < conn.length
        BY <1>0, <2>1, <2>3, <2>4
      <3> QED
        BY <3>1, <3>2, Zenon
    <2>6. UNCHANGED <<conn, data, code, did>> /\ pc = "body"
      BY <1>3 DEF RecvBody
    <2> QED
      BY <2>1, <2>3, <2>4, <2>5, <2>6 DEF Serving
  <1>4. CASE RecvHeadEnd
    BY <1>4, EmptyIsText DEF RecvHeadEnd, Serving
  <1>5. CASE RecvBodyEnd
    BY <1>5, AnswerServing DEF RecvBodyEnd, Serving
  <1> QED
    BY <1>1, <1>2, <1>3, <1>4, <1>5

LEMMA ParseServing ==
  ASSUME Serving, Parse
  PROVE  Serving'
  <1> DEFINE head    == ToSet(Before(data, "end"))
             length  == parse_content_length(head)
             initial == After(data, "end")
             taken   == Least(length, Len(initial))
             with    == conn.method \in WithBody
             Refused == (Answer(401) \/ Answer(400)) /\ UNCHANGED did
             Taken   == /\ ~ (with /\ length \notin 0 .. HTTP_MAX_REQUEST_BYTES)
                        /\ body' = IF ~ with THEN <<>> ELSE SubSeq(initial, 1, taken)
                        /\ pc' = IF with /\ Len(body') < length THEN "body" ELSE "handle"
                        /\ UNCHANGED <<conn, rest, data, code, did>>
  <1>0. HTTP_MAX_REQUEST_BYTES \in Nat /\ conn \in Request /\ conn.length \in Int /\ pc = "parse"
    BY HttpAssumption, RequestAssumption DEF HttpAssumption, RequestAssumption, Serving, Parse
  <1>1. initial \in Text /\ Len(initial) \in Nat
    BY BeforeAfterTyped DEF Serving, Text
  <1>2. length \in Int /\ (length # 0 => length = conn.length)
    BY <1>0 DEF parse_content_length
  <1> HIDE DEF head, length, initial
  <1>3. CASE Close \/ Refused \/ Fault
    BY <1>0, <1>3, CloseServing, AnswerServing, RaiseServing DEF Serving, Raise
  <1>4. CASE Taken
    <2>1. body' \in Text /\ Len(body') \in 0 .. HTTP_MAX_REQUEST_BYTES
      <3>1. CASE ~ with
        BY <1>0, <1>4, <3>1, EmptyIsText
      <3>2. CASE with
        <4>1. length \in 0 .. HTTP_MAX_REQUEST_BYTES
          BY <1>4, <3>2
        <4>2. taken \in 0 .. Len(initial) /\ taken \in 0 .. HTTP_MAX_REQUEST_BYTES
          BY <1>0, <1>1, <4>1 DEF Least
        <4> HIDE DEF taken
        <4>3. 1 \in 1 .. Len(initial) + 1 /\ taken \in 1 - 1 .. Len(initial) /\ taken - 1 + 1 = taken
          BY <1>1, <4>2
        <4>4. SubSeq(initial, 1, taken) \in Text /\ Len(SubSeq(initial, 1, taken)) = taken - 1 + 1
          BY <1>1, <4>3, PartOf, Zenon
        <4> QED
          BY <1>4, <3>2, <4>2, <4>3, <4>4
      <3> QED
        BY <3>1, <3>2
    <2>2. pc' \in {"body", "handle"} /\ (pc' = "body" =>
             /\ conn'.length \in 0 .. HTTP_MAX_REQUEST_BYTES
             /\ Len(body') < conn'.length)
      <3>1. CASE with /\ Len(body') < length
        <4>0. length \in 0 .. HTTP_MAX_REQUEST_BYTES
          BY <1>4, <3>1, Zenon
        <4>1. length \in 0 .. HTTP_MAX_REQUEST_BYTES /\ length # 0
          BY <1>0, <2>1, <3>1, <4>0
        <4>2. length = conn.length
          BY <1>2, <4>1, Zenon
        <4>3. pc' = "body" /\ conn' = conn
          BY <1>4, <3>1
        <4> QED
          BY <3>1, <4>1, <4>2, <4>3
      <3>2. CASE ~ (with /\ Len(body') < length)
        BY <1>4, <3>2, Zenon
      <3> QED
        BY <3>1, <3>2
    <2>3. Len(body') <= HTTP_MAX_REQUEST_BYTES
      BY <1>0, <2>1
    <2> QED
      BY <1>0, <1>4, <2>1, <2>2, <2>3 DEF Serving
  <1>5. Close \/ Refused \/ Fault \/ Taken
    BY DEF Parse, head, length, initial
  <1> QED
    BY <1>3, <1>4, <1>5

Doing == PostAction \/ PostKvm \/ PostLabel

\* A parameter names a PC.
Called == \E key : find_pc(Get(params, key, <<"0">>))

LEMMA HandlerDoes ==
  ASSUME Serving, Kept, Doing
  PROVE  \/ Called /\ did' \in Done /\ Answer(200)
         \/ Called /\ did' \in Done /\ pc' = "save" /\ UNCHANGED <<conn, stream, code>>
         \/ Answer(400) /\ UNCHANGED did
         \/ Raise
  <1>0. pc = "handle" /\ conn \in Request /\ body \in Text
    BY HttpAssumption DEF HttpAssumption, Serving, Doing, PostAction, PostKvm, PostLabel, Handle
  <1>1. CASE PostAction
    <2> DEFINE id     == Get(params, <<"pc">>, <<"0">>)
               action == Get(params, <<"action">>, Get(params, <<"type">>, <<>>))
    <2>1. action \in Text /\ (find_pc(id) => Called)
      BY <1>0, QueriedTyped, EmptyIsText DEF Called
    <2> HIDE DEF id, action
    <2>2. CASE find_pc(id) /\ run_action(Numeral[id], action)
      <3>1. Job("action", Numeral[id], action, <<>>) \in Done
        BY <2>1, <2>2, JobTyped, EmptyIsText DEF find_pc
      <3> QED
        BY <2>1, <2>2, <3>1 DEF run_action
    <2>3. CASE Answer(400) /\ UNCHANGED did
      BY <2>3
    <2> QED
      BY <1>1, <2>2, <2>3, Zenon DEF PostAction, id, action
  <1>2. CASE PostKvm
    <2> DEFINE port == Get(params, <<"port">>, <<"0">>)
    <2>1. find_pc(port) => Called
      BY DEF Called
    <2> HIDE DEF port
    <2>2. CASE find_pc(port) /\ kvm_switch(Numeral[port])
      <3>1. Job("kvm", Numeral[port], <<>>, <<>>) \in Done
        BY <2>2, JobTyped, EmptyIsText DEF find_pc
      <3> QED
        BY <2>1, <2>2, <3>1 DEF kvm_switch, Raise
    <2>3. CASE Answer(400) /\ UNCHANGED did
      BY <2>3
    <2> QED
      BY <1>2, <2>2, <2>3, Zenon DEF PostKvm, port
  <1>3. CASE PostLabel
    <2> DEFINE id == Get(params, <<"pc">>, <<"0">>)
    <2>1. find_pc(id) => Called
      BY DEF Called
    <2> HIDE DEF id
    <2>2. CASE /\ find_pc(id) /\ NewName # <<>>
               /\ did' = Job("label", Numeral[id], NewName, labels[Numeral[id]])
               /\ pc' = "save" /\ UNCHANGED <<conn, stream, code>>
      <3>1. labels[Numeral[id]] \in Text /\ Numeral[id] \in PC
        BY <2>2 DEF find_pc, Kept, Named
      <3>2. did' \in Done
        BY <1>0, <2>2, <3>1, NameTyped, JobTyped
      <3> QED
        BY <2>1, <2>2, <3>2
    <2>3. CASE RefuseLabel
      BY <2>3 DEF RefuseLabel
    <2> QED
      BY <1>3, <2>2, <2>3, Zenon DEF PostLabel, id
  <1> QED
    BY <1>1, <1>2, <1>3 DEF Doing

LEMMA HandlerServing ==
  ASSUME Serving, Kept, Handlers
  PROVE  Serving'
  <1>0. pc = "handle" /\ conn \in Request /\ pc # "accept" /\ conn # NoConn
    BY HttpAssumption DEF HttpAssumption, Serving, Handlers, DecodeFails, GetPage, NotFound, PostAction,
       PostKvm, PostLabel, Handle
  <1>1. CASE GetPage
    BY <1>0, <1>1, AnswerServing, RaiseServing DEF GetPage, Serving
  <1>2. CASE NotFound
    BY <1>0, <1>2, AnswerServing DEF NotFound, Serving
  <1>4. CASE DecodeFails
    BY <1>0, <1>4, RaiseServing DEF DecodeFails, Raise
  <1>3. CASE Doing
    <2>1. CASE \/ Answer(200) /\ did' \in Done
               \/ Answer(400) /\ UNCHANGED did
               \/ Raise
      BY <1>0, <2>1, AnswerServing, RaiseServing DEF Serving
    <2>2. CASE did' \in Done /\ pc' = "save" /\ UNCHANGED <<conn, stream, code>>
      BY <1>0, <2>2 DEF stream, Serving
    <2> QED
      BY <1>3, <2>1, <2>2, HandlerDoes
  <1> QED
    BY <1>1, <1>2, <1>3, <1>4 DEF Handlers, Doing

LEMMA StepServing ==
  ASSUME Serving, Kept, Next
  PROVE  Serving'
  <1>1. CASE Handlers
    BY <1>1, HandlerServing
  <1>2. CASE \/ \E r \in Request : Accept(r)
             \/ \E chunk \in Segment(Chunk) : RecvHead(chunk) \/ RecvBody(chunk)
             \/ RecvHeadEnd \/ RecvBodyEnd
    BY <1>2, ReaderServing
  <1>3. CASE Parse
    BY <1>3, ParseServing
  <1>4. CASE RecvTimeout \/ RecvFails \/ SaveLabelsFails
    BY <1>4, RaiseServing DEF RecvTimeout, RecvFails, SaveLabelsFails
  <1>5. CASE SaveLabels
    BY <1>5, AnswerServing DEF SaveLabels, Serving
  <1>6. CASE Reply \/ ReplyError \/ Restart
    BY <1>6, RaiseServing, CloseServing DEF Reply, ReplyError, Restart
  <1> QED
    BY <1>1, <1>2, <1>3, <1>4, <1>5, <1>6 DEF Next, Serve

LEMMA LoadedNamed ==
  ASSUME NEW f, f = Torn \/ Named(f)
  PROVE  Named(load_labels(f)) /\ (f # Torn => load_labels(f) = f)
  <1>1. CASE f = Torn
    BY <1>1, HttpAssumption DEF HttpAssumption, load_labels, Named
  <1>2. CASE f # Torn
    <2>1. ASSUME NEW p \in PC PROVE Cut(f[p]) = f[p] /\ f[p] # <<>>
      <3>1. f[p] \in Text /\ Len(f[p]) \in 1 .. NameMax /\ NameMax \in Nat
        BY <1>2, HttpAssumption DEF HttpAssumption, Named
      <3>2. Least(Len(f[p]), NameMax) = Len(f[p])
        BY <3>1 DEF Least
      <3>3. SubSeq(f[p], 1, Len(f[p])) = f[p]
        BY <3>1 DEF Text
      <3> QED
        BY <3>1, <3>2, <3>3, EmptyIsText DEF Cut
    <2>2. load_labels(f) = [p \in PC |-> f[p]]
      BY <1>2, <2>1 DEF load_labels
    <2>3. f = [p \in PC |-> f[p]]
      BY <1>2 DEF Named
    <2> QED
      BY <1>2, <2>2, <2>3
  <1> QED
    BY <1>1, <1>2

LEMMA StepKept ==
  ASSUME Serving, Kept, Next
  PROVE  Kept'
  <1>1. CASE PostLabel
    <2> DEFINE id == Get(params, <<"pc">>, <<"0">>)
    <2> HIDE DEF id
    <2>0. conn \in Request /\ body \in Text /\ UNCHANGED <<file, late, uart>>
      BY <1>1, HttpAssumption DEF HttpAssumption, PostLabel, Handle, Serving
    <2>1. CASE /\ find_pc(id) /\ NewName # <<>> /\ pc' = "save"
               /\ labels' = [labels EXCEPT ![Numeral[id]] = NewName]
               /\ did' = Job("label", Numeral[id], NewName, labels[Numeral[id]])
      <3>1. /\ Numeral[id] \in PC /\ Numeral[id] \in Nat /\ Named(labels)
            /\ NewName \in Text /\ Len(NewName) \in 1 .. NameMax
        BY <2>0, <2>1, NameTyped, HttpAssumption DEF HttpAssumption, find_pc, Kept
      <3>2. Named(labels')
        BY <2>1, <3>1 DEF Named
      <3>3. did' \in Done /\ did'.id \in PC /\ Len(did'.old) \in 1 .. NameMax
            /\ labels'[did'.id] = did'.arg
        BY <2>1, <3>1 DEF Named, Job, Done
      <3> QED
        BY <2>0, <3>2, <3>3 DEF Kept, Named
    <2>2. CASE RefuseLabel
      BY <2>0, <2>2, StillKept DEF RefuseLabel, Answer, state
    <2> QED
      BY <1>1, <2>1, <2>2, Zenon DEF PostLabel, id
  <1>2. CASE SaveLabels
    BY <1>2 DEF SaveLabels, Answer, Kept, Named
  <1>3. CASE SaveLabelsFails
    <2>1. Named(labels')
      BY <1>3 DEF SaveLabelsFails, Kept, Named, Done
    <2>2. /\ pc' # "save" /\ (file' = Torn \/ Named(file')) /\ uart' \in BOOLEAN
          /\ late' \in Done \cup {Nothing} /\ (late' # Nothing => late'.id \in PC)
      BY <1>3 DEF SaveLabelsFails, Remains, Raise, Fault, Close, Kept, Named
    <2> QED
      BY <2>1, <2>2 DEF Kept, Named
  <1>4. CASE Restart
    <2>1. file' = Torn \/ Named(file')
      BY <1>4 DEF Restart, Kept
    <2>2. Named(labels') /\ uart' \in BOOLEAN /\ pc' # "save" /\ late' = Nothing
      BY <1>4, <2>1, LoadedNamed DEF Restart, Close, make_kvm_uart
    <2> QED
      BY <2>1, <2>2 DEF Kept, Named
  <1>5. CASE ~ (PostLabel \/ SaveLabels \/ SaveLabelsFails \/ Restart)
    <2>1. UNCHANGED state /\ pc' # "save"
      BY <1>5 DEF Next, Serve, Handlers, Parse, RecvTimeout, RecvFails, Reply, ReplyError,
         DecodeFails, GetPage, NotFound, PostAction, PostKvm, Accept, RecvHead, RecvBody,
         RecvHeadEnd, RecvBodyEnd, Raise, Fault, Close, Answer, run_action, kvm_switch, state
    <2> QED
      BY <2>1, StillKept
  <1> QED
    BY <1>1, <1>2, <1>3, <1>4, <1>5

LEMMA Typed == Spec => [](Kept /\ Serving)
  <1>1. Init => Kept /\ Serving
    BY InitTyped
  <1>2. Kept /\ Serving /\ [Next]_vars => (Kept /\ Serving)'
    <2> SUFFICES ASSUME Kept, Serving, [Next]_vars PROVE (Kept /\ Serving)'
      OBVIOUS
    <2>1. CASE Next
      BY <2>1, StepKept, StepServing
    <2>2. CASE UNCHANGED vars
      BY <2>2 DEF vars, Kept, Named, Serving
    <2> QED
      BY <2>1, <2>2
  <1> QED
    BY <1>1, <1>2, PTL DEF Spec

(* For any requests, texts, PCs and limits, in whatever segments a request  *)
(* comes: the state keeps its types, and the server never holds more of a   *)
(* request than HTTP_MAX_REQUEST_BYTES and one chunk.                       *)
THEOREM TypeCorrect == Spec => []TypeOK
  <1>1. Kept /\ Serving => TypeOK
    BY TypeOKHolds
  <1> QED
    BY <1>1, Typed, PTL

-----------------------------------------------------------------------------
(* The labels and their file                                               *)

\* The file holds the labels as save_labels would put them back, but for the
\* one that a save which raised has left.
Changed(l, id, name) == [l EXCEPT ![id] = name]
Undone(l) == IF pc = "save" THEN Changed(l, did.id, did.old) ELSE l
With(l)    == IF late = Nothing THEN l ELSE Changed(l, late.id, late.arg)
SaveInv    == file \in {With(Undone(labels)), Torn}

LEMMA StepSaved ==
  ASSUME Kept, Serving, SaveInv, Next
  PROVE  SaveInv'
  <1>1. CASE PostLabel
    <2> DEFINE id == Get(params, <<"pc">>, <<"0">>)
    <2> HIDE DEF id
    <2>0. pc # "save" /\ file' = file /\ late' = late /\ file \in {With(labels), Torn}
      BY <1>1 DEF PostLabel, Handle, SaveInv, Undone
    <2>1. CASE /\ find_pc(id) /\ pc' = "save"
               /\ labels' = [labels EXCEPT ![Numeral[id]] = NewName]
               /\ did' = Job("label", Numeral[id], NewName, labels[Numeral[id]])
      <3>1. Numeral[id] \in PC /\ labels \in [PC -> Text]
        BY <2>1 DEF find_pc, Kept, Named
      <3>2. did'.id = Numeral[id] /\ did'.old = labels[Numeral[id]]
        BY <2>1 DEF Job
      <3>3. [labels' EXCEPT ![did'.id] = did'.old] = labels
        BY <2>1, <3>1, <3>2
      <3>4. Undone(labels)' = labels
        BY <2>1, <3>3 DEF Undone, Changed
      <3>5. With(Undone(labels))' = With(labels)
        BY <2>0, <3>4 DEF With
      <3> QED
        BY <2>0, <3>5 DEF SaveInv
    <2>2. CASE RefuseLabel
      BY <2>0, <2>2 DEF RefuseLabel, Answer, SaveInv, Undone, With
    <2> QED
      BY <1>1, <2>1, <2>2, Zenon DEF PostLabel, id
  <1>2. CASE SaveLabels
    BY <1>2 DEF SaveLabels, Answer, SaveInv, Undone, With
  <1>3. CASE SaveLabelsFails
    <2>1. /\ labels' = Changed(labels, did.id, did.old) /\ pc = "save" /\ pc' # "save"
          /\ labels \in [PC -> Text] /\ did \in Done /\ did.id \in PC
          /\ labels[did.id] = did.arg
      BY <1>3 DEF SaveLabelsFails, Raise, Fault, Close, Kept, Named, Changed
    <2>2. CASE UNCHANGED <<file, late>>
      BY <2>1, <2>2 DEF SaveInv, Undone, With
    <2>3. CASE file' = Torn
      BY <2>3 DEF SaveInv
    <2>4. CASE file' = labels /\ late' = did
      <3>1. Changed(labels', did.id, did.arg) = labels
        BY <2>1 DEF Changed
      <3>2. did # Nothing
        BY <2>1, DoneAssumption
      <3> QED
        BY <2>1, <2>4, <3>1, <3>2 DEF SaveInv, Undone, With
    <2> QED
      BY <1>3, <2>2, <2>3, <2>4 DEF SaveLabelsFails, Remains
  <1>4. CASE Restart
    <2>1. file' = Torn \/ Named(file')
      BY <1>4 DEF Restart, Kept
    <2>2. file' \in {labels', Torn} /\ pc' # "save" /\ late' = Nothing
      BY <1>4, <2>1, LoadedNamed DEF Restart, Close
    <2> QED
      BY <2>2 DEF SaveInv, Undone, With
  <1>5. CASE ~ (PostLabel \/ SaveLabels \/ SaveLabelsFails \/ Restart)
    <2>1. UNCHANGED <<labels, file, late>> /\ pc' # "save" /\ pc # "save"
      BY <1>5 DEF Next, Serve, Handlers, Parse, RecvTimeout, RecvFails, Reply, ReplyError,
         DecodeFails, GetPage, NotFound, PostAction, PostKvm, Accept, RecvHead, RecvBody,
         RecvHeadEnd, RecvBodyEnd, Raise, Fault, Close, Answer, run_action, kvm_switch, state,
         Handle
    <2> QED
      BY <2>1 DEF SaveInv, Undone, With
  <1> QED
    BY <1>1, <1>2, <1>3, <1>4, <1>5

LEMMA Saved == Spec => [](Kept /\ SaveInv)
  <1>1. Init => SaveInv
    BY DEF Init, SaveInv, Undone, With
  <1>2. Kept /\ Serving /\ SaveInv /\ [Next]_vars => SaveInv'
    <2> SUFFICES ASSUME Kept, Serving, SaveInv, [Next]_vars PROVE SaveInv'
      OBVIOUS
    <2>1. CASE UNCHANGED vars
      BY <2>1 DEF vars, SaveInv, Undone, With
    <2> QED
      BY <2>1, StepSaved
  <1> QED
    BY <1>1, <1>2, Typed, PTL DEF Spec

(* For any PCs and labels: except within save_labels the labels that are    *)
(* served are those in the file, unless the file has been lost; a save that *)
(* raised leaves at most its own label different.                           *)
THEOREM FileIsAlwaysServed == Spec => []FileIsServed
  <1>1. SaveInv => FileIsServed
    BY DEF SaveInv, FileIsServed, InFile, Undone, With, Changed
  <1> QED
    BY <1>1, Saved, PTL

(* For any PCs and labels, a restart outside save_labels changes no label   *)
(* but one whose save has raised.                                           *)
THEOREM RestartAlwaysKeepsLabels == Spec => RestartKeepsLabels
  <1> DEFINE Keeps == Restart /\ pc # "save" /\ file # Torn => labels' = InFile
  <1>1. Kept /\ SaveInv /\ [Next]_vars => [Keeps]_vars
    <2> SUFFICES ASSUME Kept, SaveInv, Restart, pc # "save", file # Torn
                 PROVE  labels' = InFile
      OBVIOUS
    <2>1. file = InFile /\ labels' = load_labels(file)
      BY DEF Restart, SaveInv, InFile, Undone, With, Changed
    <2>2. Named(file)
      BY DEF Kept
    <2> QED
      BY <2>1, <2>2, LoadedNamed
  <1> QED
    BY <1>1, Saved, PTL DEF Spec, RestartKeepsLabels

-----------------------------------------------------------------------------
(* What has been done when the reply is sent                               *)

Waiting == {"accept", "head", "parse", "body", "handle"}

\* Nothing is done before the handler, and save_labels has the label to save.
AnswerInv ==
  /\ pc \in Waiting => did = Nothing
  /\ pc = "save" => did # Nothing
  /\ AnsweredAsDone

LEMMA StepAnswered ==
  ASSUME Kept, Serving, AnswerInv, Next
  PROVE  AnswerInv'
  <1>1. CASE Doing
    <2>1. pc = "handle" /\ did = Nothing
      BY <1>1 DEF Doing, PostAction, PostKvm, PostLabel, Handle, AnswerInv, Waiting
    <2>2. \/ pc' = "reply" /\ code' = 200 /\ did' # Nothing
          \/ pc' = "save" /\ did' # Nothing
          \/ pc' = "reply" /\ code' = 400 /\ did' = Nothing
          \/ pc' = "error"
          \/ pc' = "accept" /\ did' = Nothing
      BY <1>1, <2>1, HandlerDoes, DoneAssumption DEF Answer, Raise, Fault, Close
    <2> QED
      BY <2>2 DEF AnswerInv, AnsweredAsDone, Waiting
  <1>2. CASE GetPage \/ DecodeFails
    BY <1>2 DEF GetPage, DecodeFails, Handle, Answer, Raise, Fault, Close, AnswerInv, AnsweredAsDone, Waiting
  <1>3. CASE SaveLabels \/ SaveLabelsFails
    BY <1>3 DEF SaveLabels, SaveLabelsFails, Answer, Raise, Fault, Close, AnswerInv, AnsweredAsDone,
       Waiting
  <1>4. CASE Reply \/ ReplyError \/ Restart \/ RecvTimeout \/ RecvFails
    BY <1>4 DEF Reply, ReplyError, Restart, RecvTimeout, RecvFails, Raise, Fault, Close, AnswerInv,
       AnsweredAsDone, Waiting
  <1>5. CASE Parse \/ NotFound \/ RecvHeadEnd \/ RecvBodyEnd
    BY <1>5 DEF Parse, NotFound, RecvHeadEnd, RecvBodyEnd, Answer, Fault, Close, AnswerInv,
       AnsweredAsDone, Waiting
  <1>6. CASE \/ \E r \in Request : Accept(r)
             \/ \E chunk \in Segment(Chunk) : RecvHead(chunk) \/ RecvBody(chunk)
    BY <1>6 DEF Accept, RecvHead, RecvBody, AnswerInv, AnsweredAsDone, Waiting
  <1> QED
    BY <1>1, <1>2, <1>3, <1>4, <1>5, <1>6 DEF Next, Serve, Handlers, Doing

LEMMA Answered == Spec => [](Serving /\ AnswerInv)
  <1>1. Init => AnswerInv
    BY DEF Init, AnswerInv, AnsweredAsDone, Waiting
  <1>2. Kept /\ Serving /\ AnswerInv /\ [Next]_vars => AnswerInv'
    <2> SUFFICES ASSUME Kept, Serving, AnswerInv, [Next]_vars PROVE AnswerInv'
      OBVIOUS
    <2>1. CASE UNCHANGED vars
      BY <2>1 DEF vars, AnswerInv, AnsweredAsDone, Waiting
    <2> QED
      BY <2>1, StepAnswered
  <1> QED
    BY <1>1, <1>2, Typed, PTL DEF Spec

(* For any requests: a POST that is answered 200 has been carried out, one  *)
(* that is refused has changed nothing.                                     *)
THEOREM AlwaysAnsweredAsDone == Spec => []AnsweredAsDone
  <1>1. AnswerInv => AnsweredAsDone
    BY DEF AnswerInv
  <1> QED
    BY <1>1, Answered, PTL

-----------------------------------------------------------------------------
(* Requests that come in parts                                             *)

\* got is the first part of the text and left is the rest of it.
Reading(got, left, text) ==
  /\ Len(got) <= Len(text)
  /\ got = SubSeq(text, 1, Len(got)) /\ left = SubSeq(text, Len(got) + 1, Len(text))

LEMMA ReadingIs ==
  ASSUME NEW g \in Text, NEW l \in Text, NEW t \in Text
  PROVE  Reading(g, l, t) <=>
           /\ Len(g) + Len(l) = Len(t)
           /\ \A i \in 1 .. Len(g) : g[i] = t[i]
           /\ \A i \in 1 .. Len(l) : l[i] = t[Len(g) + i]
  <1>0. Len(g) \in Nat /\ Len(l) \in Nat /\ Len(t) \in Nat
    BY DEF Text
  <1>1. ASSUME Len(g) <= Len(t)
        PROVE  /\ SubSeq(t, 1, Len(g)) \in Text /\ Len(SubSeq(t, 1, Len(g))) = Len(g)
               /\ \A i \in 1 .. Len(g) : SubSeq(t, 1, Len(g))[i] = t[i]
               /\ SubSeq(t, Len(g) + 1, Len(t)) \in Text
               /\ Len(SubSeq(t, Len(g) + 1, Len(t))) = Len(t) - Len(g)
               /\ \A i \in 1 .. Len(t) - Len(g) :
                    SubSeq(t, Len(g) + 1, Len(t))[i] = t[Len(g) + i]
    <2>1. /\ 1 \in 1 .. Len(t) + 1 /\ Len(g) \in 1 - 1 .. Len(t)
          /\ Len(g) + 1 \in 1 .. Len(t) + 1 /\ Len(t) \in Len(g) + 1 - 1 .. Len(t)
      BY <1>0, <1>1
    <2>2. /\ SubSeq(t, 1, Len(g)) \in Text /\ Len(SubSeq(t, 1, Len(g))) = Len(g) - 1 + 1
          /\ \A i \in 1 .. Len(g) - 1 + 1 : SubSeq(t, 1, Len(g))[i] = t[1 + i - 1]
      BY <2>1, PartOf
    <2>3. /\ SubSeq(t, Len(g) + 1, Len(t)) \in Text
          /\ Len(SubSeq(t, Len(g) + 1, Len(t))) = Len(t) - (Len(g) + 1) + 1
          /\ \A i \in 1 .. Len(t) - (Len(g) + 1) + 1 :
               SubSeq(t, Len(g) + 1, Len(t))[i] = t[Len(g) + 1 + i - 1]
      BY <2>1, PartOf
    <2> QED
      BY <1>0, <1>1, <2>2, <2>3
  <1>2. \A s, u \in Text :
          Len(s) = Len(u) /\ (\A i \in 1 .. Len(s) : s[i] = u[i]) => s = u
    BY SeqEqual DEF Text
  <1>3. ASSUME Reading(g, l, t)
        PROVE  /\ Len(g) + Len(l) = Len(t)
               /\ \A i \in 1 .. Len(g) : g[i] = t[i]
               /\ \A i \in 1 .. Len(l) : l[i] = t[Len(g) + i]
    BY <1>0, <1>1, <1>3 DEF Reading
  <1>4. ASSUME /\ Len(g) + Len(l) = Len(t)
               /\ \A i \in 1 .. Len(g) : g[i] = t[i]
               /\ \A i \in 1 .. Len(l) : l[i] = t[Len(g) + i]
        PROVE  Reading(g, l, t)
    <2>1. Len(g) <= Len(t) /\ Len(l) = Len(t) - Len(g)
      BY <1>0, <1>4
    <2>2. g = SubSeq(t, 1, Len(g))
      BY <1>1, <1>2, <1>4, <2>1
    <2>3. l = SubSeq(t, Len(g) + 1, Len(t))
      BY <1>1, <1>2, <1>4, <2>1
    <2> QED
      BY <2>1, <2>2, <2>3 DEF Reading
  <1> QED
    BY <1>3, <1>4

LEMMA ReadsOn ==
  ASSUME NEW g \in Text, NEW t \in Text, rest \in Text, Reading(g, rest, t),
         NEW most \in Nat, NEW chunk \in Segment(most)
  PROVE  Reading(g \o chunk, Remaining(chunk), t)
  <1>0. Len(g) \in Nat /\ Len(rest) \in Nat /\ Len(t) \in Nat
    BY DEF Text
  <1>1. /\ chunk \in Text /\ Remaining(chunk) \in Text /\ g \o chunk \in Text
        /\ Len(chunk) \in Nat /\ Len(chunk) <= Len(rest)
        /\ chunk = SubSeq(rest, 1, Len(chunk))
        /\ Len(g \o chunk) = Len(g) + Len(chunk)
    BY SegmentIs
  <1>2. Reading(chunk, Remaining(chunk), rest)
    BY <1>1 DEF Reading, Remaining
  <1>3. /\ Len(chunk) + Len(Remaining(chunk)) = Len(rest)
        /\ \A i \in 1 .. Len(chunk) : chunk[i] = rest[i]
        /\ \A i \in 1 .. Len(Remaining(chunk)) : Remaining(chunk)[i] = rest[Len(chunk) + i]
    BY <1>1, <1>2, ReadingIs
  <1>4. /\ Len(g) + Len(rest) = Len(t)
        /\ \A i \in 1 .. Len(g) : g[i] = t[i]
        /\ \A i \in 1 .. Len(rest) : rest[i] = t[Len(g) + i]
    BY ReadingIs
  <1>5. Len(Remaining(chunk)) \in Nat
    BY <1>1 DEF Text
  <1>6. \A i \in 1 .. Len(g) + Len(chunk) :
          (g \o chunk)[i] = IF i <= Len(g) THEN g[i] ELSE chunk[i - Len(g)]
    BY <1>1, ConcatProperties DEF Text
  <1>7. \A i \in 1 .. Len(g \o chunk) : (g \o chunk)[i] = t[i]
    <2> SUFFICES ASSUME NEW i \in 1 .. Len(g \o chunk) PROVE (g \o chunk)[i] = t[i]
      OBVIOUS
    <2>1. CASE i <= Len(g)
      BY <1>0, <1>1, <1>4, <1>6, <2>1
    <2>2. CASE ~ (i <= Len(g))
      <3>1. /\ i - Len(g) \in 1 .. Len(chunk) /\ i - Len(g) \in 1 .. Len(rest)
            /\ Len(g) + (i - Len(g)) = i
        BY <1>0, <1>1, <2>2
      <3>2. (g \o chunk)[i] = chunk[i - Len(g)]
        BY <1>1, <1>6, <2>2
      <3>3. chunk[i - Len(g)] = rest[i - Len(g)] /\ rest[i - Len(g)] = t[i]
        BY <1>3, <1>4, <3>1
      <3> QED
        BY <3>2, <3>3
    <2> QED
      BY <2>1, <2>2
  <1>8. \A i \in 1 .. Len(Remaining(chunk)) :
          Remaining(chunk)[i] = t[Len(g \o chunk) + i]
    <2> SUFFICES ASSUME NEW i \in 1 .. Len(Remaining(chunk))
                 PROVE  Remaining(chunk)[i] = t[Len(g \o chunk) + i]
      OBVIOUS
    <2>1. Len(chunk) + i \in 1 .. Len(rest) /\ Len(g) + (Len(chunk) + i) = Len(g \o chunk) + i
      BY <1>0, <1>1, <1>3, <1>5
    <2> QED
      BY <1>3, <1>4, <2>1
  <1>9. Len(g \o chunk) + Len(Remaining(chunk)) = Len(t)
    <2>1. /\ Len(g \o chunk) = Len(g) + Len(chunk)
          /\ Len(chunk) + Len(Remaining(chunk)) = Len(rest) /\ Len(g) + Len(rest) = Len(t)
      BY <1>1, <1>3, <1>4, Zenon
    <2>2. /\ Len(g) \in Nat /\ Len(chunk) \in Nat /\ Len(rest) \in Nat /\ Len(t) \in Nat
          /\ Len(Remaining(chunk)) \in Nat
      BY <1>0, <1>1, <1>5, Zenon
    <2> QED
      BY <2>1, <2>2
  <1> QED
    BY <1>1, <1>7, <1>8, <1>9, ReadingIs

LEMMA AfterWithout ==
  ASSUME NEW t \in Text, NEW mark, mark \notin ToSet(t)
  PROVE  After(t, mark) = <<>>
  <1>1. \A i \in 1 .. Len(t) : t[i] # mark
    BY DEF ToSet, Text
  <1>2. Place(t, mark) = 0
    BY <1>1, PlaceIs
  <1> QED
    BY <1>2 DEF After, Place

\* What follows the blank line is the first part of the body.
LEMMA AfterTheHead ==
  ASSUME NEW h \in Text, NEW b \in Text, NEW mark \in Symbol, mark \notin ToSet(h),
         NEW d \in Text, NEW l \in Text, Reading(d, l, h \o <<mark>> \o b),
         mark \in ToSet(d)
  PROVE  Reading(After(d, mark), l, b)
  <1> DEFINE whole == h \o <<mark>> \o b
             place == Place(d, mark)
  <1>0. Len(h) \in Nat /\ Len(b) \in Nat /\ Len(d) \in Nat /\ Len(l) \in Nat
    BY DEF Text
  <1>1. <<mark>> \in Text /\ Len(<<mark>>) = 1 /\ <<mark>>[1] = mark
    BY DEF Text
  <1>2. /\ h \o <<mark>> \in Text /\ Len(h \o <<mark>>) = Len(h) + 1
        /\ \A i \in 1 .. Len(h) : (h \o <<mark>>)[i] = h[i]
        /\ (h \o <<mark>>)[Len(h) + 1] = mark
    <2> HIDE DEF Text
    <2>1. /\ h \o <<mark>> \in Text /\ Len(h \o <<mark>>) = Len(h) + Len(<<mark>>)
          /\ \A i \in 1 .. Len(h) + Len(<<mark>>) : (h \o <<mark>>)[i] =
                     IF i <= Len(h) THEN h[i] ELSE <<mark>>[i - Len(h)]
      BY <1>1, ConcatProperties DEF Text
    <2> QED
      BY <1>0, <1>1, <2>1
  <1>3. /\ whole \in Text /\ Len(whole) = Len(h) + 1 + Len(b)
        /\ \A i \in 1 .. Len(h) : whole[i] = h[i]
        /\ whole[Len(h) + 1] = mark
        /\ \A i \in 1 .. Len(b) : whole[Len(h) + 1 + i] = b[i]
    <2>1. /\ whole \in Text /\ Len(whole) = Len(h \o <<mark>>) + Len(b)
          /\ \A i \in 1 .. Len(h \o <<mark>>) + Len(b) : whole[i] =
                     IF i <= Len(h \o <<mark>>) THEN (h \o <<mark>>)[i]
                     ELSE b[i - Len(h \o <<mark>>)]
      BY <1>2, ConcatProperties DEF Text
    <2> HIDE DEF whole
    <2>2. \A i \in 1 .. Len(b) : Len(h) + 1 + i \in 1 .. Len(h) + 1 + Len(b)
                                 /\ Len(h) + 1 + i - (Len(h) + 1) = i
                                 /\ ~ (Len(h) + 1 + i <= Len(h) + 1)
      BY <1>0
    <2> QED
      BY <1>0, <1>2, <2>1, <2>2
  <1> HIDE DEF whole, place
  <1>4. /\ Len(d) + Len(l) = Len(whole)
        /\ \A i \in 1 .. Len(d) : d[i] = whole[i]
        /\ \A i \in 1 .. Len(l) : l[i] = whole[Len(d) + i]
    BY <1>3, ReadingIs DEF whole
  <1>5. \A i \in 1 .. Len(h) : h[i] # mark
    BY DEF ToSet, Text
  <1>6. PICK k \in 1 .. Len(d) : d[k] = mark
    BY DEF ToSet, Text
  <1>7. Len(h) + 1 \in 1 .. Len(d)
    <2>1. ~ (k \in 1 .. Len(h))
      BY <1>3, <1>4, <1>5, <1>6
    <2> QED
      BY <1>0, <1>6, <2>1
  <1>8. place = Len(h) + 1
    <2>1. /\ place \in 0 .. Len(d)
          /\ place = 0 <=> \A i \in 1 .. Len(d) : d[i] # mark
          /\ place # 0 => /\ d[place] = mark
                          /\ \A i \in 1 .. place - 1 : d[i] # mark
      BY PlaceIs DEF place
    <2>2. place \in 1 .. Len(d) /\ d[place] = mark
      BY <1>0, <1>6, <2>1
    <2>3. ~ (place \in 1 .. Len(h))
      BY <1>3, <1>4, <1>5, <2>2
    <2>4. d[Len(h) + 1] = mark
      BY <1>3, <1>4, <1>7
    <2>5. ~ (Len(h) + 1 \in 1 .. place - 1)
      BY <2>1, <2>2, <2>4
    <2> QED
      BY <1>0, <2>2, <2>3, <2>5
  <1>9. After(d, mark) = SubSeq(d, Len(h) + 2, Len(d))
    <2>1. After(d, mark) = IF place = 0 THEN <<>> ELSE SubSeq(d, place + 1, Len(d))
      BY DEF After, Place, place
    <2>2. place # 0 /\ place + 1 = Len(h) + 2
      BY <1>0, <1>8
    <2> QED
      BY <2>1, <2>2, Zenon
  <1>10. /\ After(d, mark) \in Text /\ Len(After(d, mark)) = Len(d) - Len(h) - 1
         /\ \A i \in 1 .. Len(d) - Len(h) - 1 : After(d, mark)[i] = d[Len(h) + 1 + i]
    <2>1. Len(h) + 2 \in 1 .. Len(d) + 1 /\ Len(d) \in Len(h) + 2 - 1 .. Len(d)
      BY <1>0, <1>7
    <2>2. /\ After(d, mark) \in Text /\ Len(After(d, mark)) = Len(d) - (Len(h) + 2) + 1
          /\ \A i \in 1 .. Len(d) - (Len(h) + 2) + 1 :
               After(d, mark)[i] = d[Len(h) + 2 + i - 1]
      BY <1>9, <2>1, PartOf
    <2> QED
      BY <1>0, <1>7, <2>2
  <1>11. Len(After(d, mark)) + Len(l) = Len(b)
    <2>1. Len(whole) = Len(h) + 1 + Len(b) /\ Len(d) + Len(l) = Len(whole)
          /\ Len(After(d, mark)) = Len(d) - Len(h) - 1
      BY <1>3, <1>4, <1>10
    <2> QED
      BY <1>0, <2>1
  <1>12. \A i \in 1 .. Len(After(d, mark)) : After(d, mark)[i] = b[i]
    <2> SUFFICES ASSUME NEW i \in 1 .. Len(After(d, mark)) PROVE After(d, mark)[i] = b[i]
      OBVIOUS
    <2>1. /\ i \in 1 .. Len(d) - Len(h) - 1 /\ Len(h) + 1 + i \in 1 .. Len(d)
          /\ i \in 1 .. Len(b)
      BY <1>0, <1>7, <1>10, <1>11
    <2> QED
      BY <1>3, <1>4, <1>10, <2>1
  <1>13. \A i \in 1 .. Len(l) : l[i] = b[Len(After(d, mark)) + i]
    <2> SUFFICES ASSUME NEW i \in 1 .. Len(l) PROVE l[i] = b[Len(After(d, mark)) + i]
      OBVIOUS
    <2>1. /\ Len(After(d, mark)) + i \in 1 .. Len(b)
          /\ Len(h) + 1 + (Len(After(d, mark)) + i) = Len(d) + i
      BY <1>0, <1>7, <1>10, <1>11
    <2> QED
      BY <1>3, <1>4, <2>1
  <1> QED
    BY <1>10, <1>11, <1>12, <1>13, ReadingIs

Whole(r) == r.head \o <<"end">> \o r.body

\* The client stopped sending before the body, and nothing more will come.
Stopped == body = <<>> /\ rest = <<>>

\* What the readers hold is a first part of what the client sends.
PartsInv ==
  /\ pc = "accept" => data = <<>>
  /\ pc = "head" => "end" \notin ToSet(data) /\ Reading(data, rest, Whole(conn))
  /\ pc = "parse" => \/ "end" \in ToSet(data) /\ Reading(data, rest, Whole(conn))
                     \/ rest = <<>> /\ "end" \notin ToSet(data)
  /\ pc \in {"body", "handle"} => conn.auth \/ conn.route = "/health"
  /\ pc = "body" => Reading(body, rest, conn.body) \/ Stopped
  /\ pc = "handle" => /\ body = SubSeq(conn.body, 1, Len(body))
                      /\ Len(body) = conn.length \/ body = <<>>
  /\ pc \in {"reply", "save", "error"} => PartsNeverAct

LEMMA FirstPart ==
  ASSUME NEW g \in Text, NEW l \in Text, NEW t \in Text, Reading(g, l, t),
         NEW n \in 0 .. Len(g)
  PROVE  SubSeq(g, 1, n) = SubSeq(t, 1, n)
  <1>0. Len(g) \in Nat /\ Len(t) \in Nat /\ Len(g) <= Len(t)
    BY DEF Text, Reading
  <1>1. /\ 1 \in 1 .. Len(g) + 1 /\ n \in 1 - 1 .. Len(g) /\ n - 1 + 1 = n
        /\ 1 \in 1 .. Len(t) + 1 /\ n \in 1 - 1 .. Len(t)
        /\ \A i \in 1 .. n : 1 + i - 1 = i /\ i \in 1 .. Len(g)
    BY <1>0
  <1>2. /\ SubSeq(g, 1, n) \in Text /\ Len(SubSeq(g, 1, n)) = n - 1 + 1
        /\ \A i \in 1 .. n - 1 + 1 : SubSeq(g, 1, n)[i] = g[1 + i - 1]
    BY <1>1, PartOf
  <1>3. /\ SubSeq(t, 1, n) \in Text /\ Len(SubSeq(t, 1, n)) = n - 1 + 1
        /\ \A i \in 1 .. n - 1 + 1 : SubSeq(t, 1, n)[i] = t[1 + i - 1]
    BY <1>1, PartOf
  <1>4. \A i \in 1 .. Len(g) : g[i] = t[i]
    BY ReadingIs
  <1>5. \A i \in 1 .. n : SubSeq(g, 1, n)[i] = SubSeq(t, 1, n)[i]
    BY <1>1, <1>2, <1>3, <1>4
  <1> QED
    BY <1>1, <1>2, <1>3, <1>5, SeqEqual DEF Text

LEMMA RequestIs ==
  ASSUME NEW r \in Request
  PROVE  /\ r.head \in Text /\ r.body \in Text /\ r.query \in Text /\ r.length \in Int
         /\ "end" \in Symbol /\ "end" \notin ToSet(r.head) /\ Whole(r) \in Text
         /\ \A b \in Text : b = <<>> => b = SubSeq(r.body, 1, Len(b))
  <1>1. /\ r.head \in Text /\ r.body \in Text /\ r.query \in Text /\ r.length \in Int
        /\ "end" \in Symbol /\ "end" \notin ToSet(r.head)
    BY RequestAssumption DEF RequestAssumption
  <1>2. <<"end">> \in Text
    BY <1>1 DEF Text
  <1>3. Whole(r) \in Text
    BY <1>1, <1>2, ConcatProperties DEF Text, Whole
  <1>4. SubSeq(r.body, 1, 0) = <<>>
    BY SubSeqEmpty
  <1> QED
    BY <1>1, <1>3, <1>4, EmptyIsText

\* Nothing has been done before the handler.
LEMMA NothingDone ==
  ASSUME AnswerInv, pc \in Waiting, UNCHANGED did \/ did' = Nothing
  PROVE  PartsNeverAct'
  BY DEF AnswerInv, PartsNeverAct

LEMMA StepParts ==
  ASSUME Kept, Serving, AnswerInv, PartsInv, Next
  PROVE  PartsInv'
  <1>0. Chunk \in Nat /\ rest \in Text /\ data \in Text /\ body \in Text
    BY HttpAssumption DEF HttpAssumption, Serving
  <1>1. ASSUME NEW r \in Request, Accept(r) PROVE PartsInv'
    <2>1. Whole(r) \in Text
      BY RequestIs
    <2>2. data = <<>> /\ rest' = Whole(r) /\ conn' = r /\ pc' = "head" /\ data' = data
      BY <1>1 DEF Accept, PartsInv, Whole
    <2>3. Reading(<<>>, Whole(r), Whole(r))
      <3>1. Len(Whole(r)) \in Nat /\ Len(<<>>) + Len(Whole(r)) = Len(Whole(r))
        BY <2>1, EmptyIsText DEF Text
      <3>2. \A i \in 1 .. Len(Whole(r)) : Whole(r)[i] = Whole(r)[Len(<<>>) + i]
        BY <3>1, EmptyIsText
      <3>3. ~ \E i \in 1 .. Len(<<>>) : TRUE
        BY EmptyIsText
      <3> QED
        BY <2>1, <3>1, <3>2, <3>3, EmptyIsText, ReadingIs, Zenon
    <2>4. "end" \notin ToSet(<<>>)
      BY DEF ToSet
    <2> QED
      BY <2>2, <2>3, <2>4 DEF PartsInv
  <1>2. ASSUME NEW chunk \in Segment(Chunk), RecvHead(chunk) PROVE PartsInv'
    <2>1. conn \in Request /\ Reading(data, rest, Whole(conn))
      BY <1>2 DEF RecvHead, Serving, PartsInv
    <2>2. Reading(data', rest', Whole(conn)) /\ conn' = conn
      BY <1>0, <1>2, <2>1, RequestIs, ReadsOn DEF RecvHead
    <2>3. \/ pc' = "head" /\ "end" \notin ToSet(data')
          \/ pc' = "parse" /\ "end" \in ToSet(data')
          \/ pc' = "error" /\ PartsNeverAct'
      <3>1. PartsNeverAct'
        BY <1>2, NothingDone DEF RecvHead, Waiting
      <3> QED
        BY <1>2, <3>1 DEF RecvHead
    <2> QED
      BY <2>2, <2>3 DEF PartsInv
  <1>3. ASSUME NEW chunk \in Segment(Chunk), RecvBody(chunk) PROVE PartsInv'
    <2>1. /\ conn \in Request /\ Len(body) \in Nat /\ conn.length \in Int /\ conn' = conn
          /\ conn.auth \/ conn.route = "/health"
      BY <1>3 DEF RecvBody, Serving, PartsInv, Text
    <2>2. Reading(body, rest, conn.body)
      <3>1. ~ (rest = <<>>)
        BY <1>0, <1>3, SegmentIs DEF RecvBody
      <3> QED
        BY <1>3, <3>1 DEF RecvBody, PartsInv, Stopped
    <2>3. Reading(body', rest', conn.body)
      BY <1>0, <1>3, <2>1, <2>2, RequestIs, ReadsOn DEF RecvBody
    <2>4. body' = SubSeq(conn.body, 1, Len(body'))
      BY <2>3 DEF Reading
    <2>5. pc' = "body" \/ (pc' = "handle" /\ Len(body') = conn.length)
      BY <1>3 DEF RecvBody
    <2> QED
      BY <2>1, <2>3, <2>4, <2>5 DEF PartsInv
  <1>4. CASE RecvHeadEnd
    BY <1>4 DEF RecvHeadEnd, PartsInv
  <1>5. CASE Parse
    <2> DEFINE head    == ToSet(Before(data, "end"))
               length  == parse_content_length(head)
               initial == After(data, "end")
               taken   == Least(length, Len(initial))
               with    == conn.method \in WithBody
               Refused == (Answer(401) \/ Answer(400)) /\ UNCHANGED did
               Taken   == /\ conn.route = "/health" \/ check_auth(head)
                          /\ ~ (with /\ length \notin 0 .. HTTP_MAX_REQUEST_BYTES)
                          /\ body' = IF ~ with THEN <<>> ELSE SubSeq(initial, 1, taken)
                          /\ pc' = IF with /\ Len(body') < length THEN "body" ELSE "handle"
                          /\ UNCHANGED <<conn, rest, data, code, did>>
    <2>1. Close \/ Refused \/ Fault \/ Taken
      BY <1>5 DEF Parse, head, length, initial
    <2>2. pc = "parse" /\ conn \in Request
      BY <1>5 DEF Parse, Serving
    <2>3. CASE Close
      BY <2>3 DEF Close, PartsInv
    <2>4. CASE Refused \/ Fault
      <3>1. PartsNeverAct'
        BY <2>2, <2>4, NothingDone DEF Fault, Waiting
      <3> QED
        BY <2>4, <3>1 DEF Answer, Fault, PartsInv
    <2>5. CASE Taken
      <3>1. /\ initial \in Text /\ Len(initial) \in Nat /\ HTTP_MAX_REQUEST_BYTES \in Nat
            /\ conn.length \in Int
        BY <1>0, <2>2, BeforeAfterTyped, HttpAssumption, RequestIs DEF HttpAssumption, Text
      <3>2. Reading(initial, rest, conn.body) \/ (initial = <<>> /\ rest = <<>>)
        <4>1. CASE "end" \notin ToSet(data)
          BY <1>0, <2>2, <4>1, AfterWithout DEF PartsInv
        <4>2. CASE "end" \in ToSet(data)
          <5>1. Reading(data, rest, conn.head \o <<"end">> \o conn.body)
            BY <2>2, <4>2 DEF PartsInv, Whole
          <5> QED
            BY <1>0, <2>2, <4>2, <5>1, AfterTheHead, RequestIs
        <4> QED
          BY <4>1, <4>2
      <3>3. length \in Int /\ (length # 0 => length = conn.length)
        BY <3>1 DEF parse_content_length
      <3>4. (conn.auth \/ conn.route = "/health") /\ conn' = conn /\ rest' = rest
        BY <2>5 DEF check_auth
      <3> HIDE DEF head, length, initial
      <3>5. CASE ~ with
        <4>1. body' = <<>> /\ pc' = "handle"
          BY <2>5, <3>5
        <4>2. body' = SubSeq(conn.body, 1, Len(body'))
          BY <2>2, <4>1, RequestIs, EmptyIsText
        <4> QED
          BY <3>4, <4>1, <4>2 DEF PartsInv
      <3>6. CASE with
        <4>1. length \in 0 .. HTTP_MAX_REQUEST_BYTES
          BY <2>5, <3>6
        <4>2. body' = SubSeq(initial, 1, taken)
          BY <2>5, <3>6
        <4>3. taken \in 0 .. Len(initial) /\ (taken = length \/ taken = Len(initial))
              /\ taken <= length
          BY <3>1, <4>1 DEF Least
        <4> HIDE DEF taken
        <4>4. Len(body') = taken
          <5>1. 1 \in 1 .. Len(initial) + 1 /\ taken \in 1 - 1 .. Len(initial)
                /\ taken - 1 + 1 = taken
            BY <3>1, <4>3
          <5>2. Len(SubSeq(initial, 1, taken)) = taken - 1 + 1
            BY <3>1, <5>1, PartOf, Zenon
          <5> QED
            BY <4>2, <5>1, <5>2, Zenon
        <4>5. body' = SubSeq(conn.body, 1, Len(body'))
          <5>1. CASE Reading(initial, rest, conn.body)
            BY <1>0, <2>2, <3>1, <4>2, <4>3, <4>4, <5>1, FirstPart, RequestIs
          <5>2. CASE initial = <<>>
            <6>1. body' = <<>>
              BY <4>2, <4>3, <5>2, SubSeqEmpty, EmptyIsText
            <6> QED
              BY <2>2, <6>1, RequestIs, EmptyIsText
          <5> QED
            BY <3>2, <5>1, <5>2
        <4>6. CASE Len(body') < length
          <5>1. body' = initial
            <6>1. taken = Len(initial)
              BY <3>1, <4>1, <4>3, <4>4, <4>6
            <6> QED
              BY <3>1, <4>2, <6>1 DEF Text
          <5>2. pc' = "body"
            BY <2>5, <3>6, <4>6
          <5> QED
            BY <3>2, <3>4, <5>1, <5>2 DEF PartsInv, Stopped
        <4>7. CASE ~ (Len(body') < length)
          <5>1. pc' = "handle" /\ Len(body') = length
            BY <2>5, <3>1, <3>6, <4>1, <4>3, <4>4, <4>7
          <5>2. Len(body') = conn.length \/ body' = <<>>
            <6>1. length = 0 => body' = <<>>
              BY <4>2, <4>4, <5>1, SubSeqEmpty
            <6> QED
              BY <3>3, <5>1, <6>1
          <5> QED
            BY <3>4, <4>5, <5>1, <5>2 DEF PartsInv
        <4> QED
          BY <4>6, <4>7
      <3> QED
        BY <3>5, <3>6
    <2> QED
      BY <2>1, <2>3, <2>4, <2>5
  <1>6. CASE DecodeFails \/ GetPage \/ NotFound \/ RecvTimeout \/ RecvFails \/ RecvBodyEnd
    <2>1. pc \in Waiting
      BY <1>6 DEF DecodeFails, GetPage, NotFound, RecvTimeout, RecvFails, RecvBodyEnd, Handle,
         Waiting
    <2>2. \/ pc' \in {"reply", "error"} /\ UNCHANGED did
          \/ Close
      BY <1>6 DEF DecodeFails, GetPage, NotFound, RecvTimeout, RecvFails, RecvBodyEnd, Answer,
         Raise, Fault
    <2>3. CASE Close
      BY <2>3 DEF Close, PartsInv
    <2> QED
      BY <2>1, <2>2, <2>3, NothingDone DEF PartsInv
  <1>7. CASE Doing
    <2>1. /\ pc = "handle" /\ conn \in Request /\ conn.auth
          /\ body = SubSeq(conn.body, 1, Len(body))
          /\ Len(body) = conn.length \/ body = <<>>
      BY <1>7 DEF Doing, PostAction, PostKvm, PostLabel, Handle, Labels, Serving, PartsInv
    <2>2. ASSUME Called, body = <<>> PROVE conn.query # <<>>
      <3>1. PICK key : find_pc(Get(params, key, <<"0">>))
        BY <2>2 DEF Called
      <3>2. ASSUME conn.query = <<>> PROVE FALSE
        <4>1. Get(params, key, <<"0">>) = <<"0">>
          BY <2>2, <3>2, NoParams DEF params
        <4> QED
          BY <3>1, <4>1, HttpAssumption DEF HttpAssumption, find_pc
      <3> QED
        BY <3>2
    <2>3. CASE Called /\ UNCHANGED <<conn, body>> /\ pc' \in {"reply", "save"}
      BY <2>1, <2>2, <2>3 DEF PartsInv, PartsNeverAct
    <2>4. CASE Answer(400) /\ UNCHANGED did
      BY <2>1, <2>4, NothingDone DEF Answer, PartsInv, Waiting
    <2>5. CASE Raise
      <3>1. CASE Close
        BY <3>1 DEF Close, PartsInv
      <3> QED
        BY <2>1, <2>5, <3>1, NothingDone DEF Raise, Fault, PartsInv, Waiting
    <2> QED
      BY <1>7, <2>3, <2>4, <2>5, HandlerDoes DEF Answer, stream
  <1>8. CASE SaveLabels \/ SaveLabelsFails \/ Reply \/ ReplyError \/ Restart
    <2>1. \/ /\ pc \in {"reply", "save", "error"} /\ pc' \in {"reply", "error"}
             /\ UNCHANGED <<conn, body, did>>
          \/ Close
      BY <1>8 DEF SaveLabels, SaveLabelsFails, Reply, ReplyError, Restart, Answer, Raise, Fault,
         stream
    <2>2. CASE Close
      BY <2>2 DEF Close, PartsInv
    <2> QED
      BY <2>1, <2>2 DEF PartsInv, PartsNeverAct
  <1> QED
    BY <1>1, <1>2, <1>3, <1>4, <1>5, <1>6, <1>7, <1>8 DEF Next, Serve, Handlers, Doing

LEMMA Parts == Spec => [](PartsInv /\ AnswerInv)
  <1>1. Init => PartsInv
    BY DEF Init, PartsInv
  <1>2. Kept /\ Serving /\ AnswerInv /\ PartsInv /\ [Next]_vars => PartsInv'
    <2> SUFFICES ASSUME Kept, Serving, AnswerInv, PartsInv, [Next]_vars PROVE PartsInv'
      OBVIOUS
    <2>1. CASE UNCHANGED vars
      BY <2>1 DEF vars, PartsInv, PartsNeverAct, Stopped
    <2> QED
      BY <2>1, StepParts
  <1> QED
    BY <1>1, <1>2, Typed, Answered, PTL DEF Spec

(* For any requests, in whatever segments they come and wherever the client *)
(* stops: a request has an effect only with the credentials and with all of *)
(* its body, or with its parameters in the query.                           *)
THEOREM PartsCanNeverAct == Spec => []PartsNeverAct
  <1>1. PartsInv /\ AnswerInv /\ Serving => PartsNeverAct
    BY DEF PartsInv, AnswerInv, Serving, Waiting, PartsNeverAct
  <1> QED
    BY <1>1, Parts, Typed, PTL

-----------------------------------------------------------------------------
(* Texts one after the other: FlattenSeq                                   *)

\* f is FlattenSeq's loop over the first n texts.
Onto(ss, f, n) == [i \in 1 .. n |-> IF i = 1 THEN ss[i] ELSE f[i - 1] \o ss[i]]

LEMMA FlattenIsLoop ==
  ASSUME NEW ss, Len(ss) # 0
  PROVE  FlattenSeq(ss) = (CHOOSE f : f = Onto(ss, f, Len(ss)))[Len(ss)]
  BY DEF FlattenSeq, Onto

LEMMA FlattenExists ==
  ASSUME NEW ss \in Seq(Text)
  PROVE  \E f : f = Onto(ss, f, Len(ss))
  <1> DEFINE N   == Len(ss)
             Bad == {n \in 0 .. N : ~ \E f : f = Onto(ss, f, n)}
  <1>0. N \in Nat
    OBVIOUS
  <1>1. SUFFICES ASSUME Bad # {} PROVE FALSE
    BY <1>0
  <1>2. PICK n \in Bad : \A m \in Bad : n <= m
    <2>1. Bad \in SUBSET Nat
      BY <1>0
    <2> HIDE DEF Bad
    <2> QED
      BY <2>1, <1>1, LeastViolation
  <1>3. n \in 0 .. N /\ ~ \E f : f = Onto(ss, f, n)
    BY <1>2
  <1> HIDE DEF N
  <1>4. CASE n = 0
    <2> DEFINE g == [i \in 1 .. 0 |-> <<>>]
    <2>1. g = Onto(ss, g, 0)
      BY DEF Onto
    <2> QED
      BY <1>3, <1>4, <2>1
  <1>5. CASE n # 0
    <2>1. n - 1 \in 0 .. N /\ ~ (n <= n - 1)
      BY <1>0, <1>3, <1>5
    <2>2. PICK f : f = Onto(ss, f, n - 1)
      BY <2>1, <1>2
    <2> DEFINE g == [i \in 1 .. n |-> IF i < n THEN f[i]
                                      ELSE IF i = 1 THEN ss[i] ELSE f[i - 1] \o ss[i]]
    <2>3. ASSUME NEW i \in 1 .. n
          PROVE  g[i] = IF i = 1 THEN ss[i] ELSE g[i - 1] \o ss[i]
      <3>1. i = 1 \/ g[i - 1] = f[i - 1]
        BY <1>0, <1>3
      <3>2. g[i] = IF i < n THEN f[i] ELSE IF i = 1 THEN ss[i] ELSE f[i - 1] \o ss[i]
        OBVIOUS
      <3>3. i < n => f[i] = IF i = 1 THEN ss[i] ELSE f[i - 1] \o ss[i]
        <4>1. i < n => i \in 1 .. n - 1
          BY <1>0, <1>3
        <4> QED
          BY <2>2, <4>1 DEF Onto
      <3> HIDE DEF g
      <3> QED
        BY <3>1, <3>2, <3>3, Zenon
    <2>4. g = Onto(ss, g, n)
      BY <2>3, Zenon DEF Onto
    <2> QED
      BY <1>3, <2>4
  <1> QED
    BY <1>4, <1>5

\* v is the texts of ss one after the other; P[n] is where the n-th ends.
Laid(ss, v, P) ==
  /\ P[0] = 0 /\ P[Len(ss)] = Len(v)
  /\ \A n \in 1 .. Len(ss) : P[n] = P[n - 1] + Len(ss[n]) /\ P[n] <= Len(v)
  /\ \A n \in 1 .. Len(ss) : \A q \in 1 .. Len(ss[n]) : v[P[n - 1] + q] = ss[n][q]
  /\ \A p \in 1 .. Len(v) : \E n \in 1 .. Len(ss) : p - P[n - 1] \in 1 .. Len(ss[n])

\* The symbols of two texts, one after the other.
LEMMA Joins ==
  ASSUME NEW a \in Text, NEW b \in Text
  PROVE  /\ a \o b \in Text /\ Len(a) \in Nat /\ Len(b) \in Nat
         /\ Len(a \o b) = Len(a) + Len(b)
         /\ \A i \in 1 .. Len(a) : (a \o b)[i] = a[i]
         /\ \A q \in 1 .. Len(b) : (a \o b)[Len(a) + q] = b[q]
  <1> DEFINE L == Len(a)
             M == Len(b)
             c == a \o b
  <1>0. L \in Nat /\ M \in Nat
    BY DEF Text
  <1>a. c \in Text /\ Len(c) = L + M
    BY ConcatProperties DEF Text
  <1>1. \A i \in 1 .. L + M : c[i] = IF i <= L THEN a[i] ELSE b[i - L]
    BY ConcatProperties DEF Text
  <1> HIDE DEF L, M, c
  <1>2. ASSUME NEW i \in 1 .. L PROVE c[i] = a[i]
    <2>1. i \in 1 .. L + M /\ i <= L
      BY <1>0
    <2> QED
      BY <2>1, <1>1
  <1>3. ASSUME NEW q \in 1 .. M PROVE c[L + q] = b[q]
    <2> DEFINE i == L + q
    <2>1. i \in 1 .. L + M /\ ~ (i <= L) /\ i - L = q
      BY <1>0
    <2> HIDE DEF i
    <2>2. c[i] = b[q]
      BY <2>1, <1>1, Zenon
    <2> QED
      BY <2>2 DEF i
  <1> QED
    BY <1>0, <1>a, <1>2, <1>3 DEF L, M, c

\* FlattenSeq loses no symbol and moves none.
LEMMA Flattened ==
  ASSUME NEW ss \in Seq(Text)
  PROVE  /\ FlattenSeq(ss) \in Text
         /\ \E P \in [0 .. Len(ss) -> Nat] : Laid(ss, FlattenSeq(ss), P)
  <1> DEFINE N == Len(ss)
             f == CHOOSE g : g = Onto(ss, g, N)
             F == [n \in 0 .. N |-> IF n = 0 THEN <<>> ELSE f[n]]
  <1>0. N \in Nat /\ \A n \in 1 .. N : ss[n] \in Text
    OBVIOUS
  <1>1. f = Onto(ss, f, N)
    BY FlattenExists
  <1>2. FlattenSeq(ss) = F[N]
    <2>1. CASE N = 0
      <3>1. ss = <<>>
        BY <2>1, EmptySeq
      <3> QED
        BY <2>1, <3>1 DEF FlattenSeq
    <2>2. CASE N # 0
      BY <1>0, <2>2, FlattenIsLoop
    <2> QED
      BY <2>1, <2>2
  <1>3. F[0] = <<>>
    BY <1>0
  <1> HIDE DEF f
  <1>4. ASSUME NEW n \in 1 .. N, F[n - 1] \in Text
        PROVE  F[n] = F[n - 1] \o ss[n]
    <2>1. f[n] = IF n = 1 THEN ss[n] ELSE f[n - 1] \o ss[n]
      BY <1>1 DEF Onto
    <2>2. F[n] = f[n]
      BY <1>0
    <2>3. n # 1 => F[n - 1] = f[n - 1]
      BY <1>0
    <2>4. n = 1 => F[n - 1] = <<>>
      BY <1>3
    <2>5. <<>> \o ss[n] = ss[n]
      BY <1>0, ConcatEmptySeq DEF Text
    <2> HIDE DEF F
    <2> QED
      BY <2>1, <2>2, <2>3, <2>4, <2>5, Zenon
  <1> HIDE DEF F
  <1>5. \A t \in Text : Len(t) \in Nat
    BY DEF Text
  <1> DEFINE Ends(n)   == \A m \in 1 .. n : /\ F[m - 1] \in Text /\ F[m] \in Text
                                           /\ Len(F[m]) = Len(F[m - 1]) + Len(ss[m])
                                           /\ Len(F[m]) <= Len(F[n])
             Holds(n)  == \A m \in 1 .. n : \A q \in 1 .. Len(ss[m]) :
                            F[n][Len(F[m - 1]) + q] = ss[m][q]
             Covers(n) == \A p \in 1 .. Len(F[n]) : \E m \in 1 .. n :
                            p - Len(F[m - 1]) \in 1 .. Len(ss[m])
             S(n)      == F[n] \in Text /\ Ends(n) /\ Holds(n) /\ Covers(n)
  <1>6. ASSUME NEW n \in 1 .. N, S(n - 1)
        PROVE  S(n)
    <2> DEFINE L == Len(F[n - 1])
    <2>a. F[n - 1] \in Text /\ Ends(n - 1) /\ Holds(n - 1) /\ Covers(n - 1)
      BY <1>6
    <2> HIDE DEF Ends, Holds, Covers
    <2>0. F[n - 1] \in Text /\ ss[n] \in Text /\ L \in Nat /\ Len(ss[n]) \in Nat
      BY <1>0, <1>5, <2>a
    <2>b. F[n] = F[n - 1] \o ss[n]
      BY <1>4, <2>0
    <2>1. /\ F[n] \in Text /\ Len(F[n]) = L + Len(ss[n])
          /\ \A i \in 1 .. L : F[n][i] = F[n - 1][i]
          /\ \A q \in 1 .. Len(ss[n]) : F[n][L + q] = ss[n][q]
      <3> DEFINE a == F[n - 1]
                 b == ss[n]
      <3>1. a \in Text /\ b \in Text /\ F[n] = a \o b /\ L = Len(a)
        BY <2>b, <2>0
      <3> HIDE DEF a, b
      <3>2. /\ a \o b \in Text /\ Len(a \o b) = Len(a) + Len(b)
            /\ \A i \in 1 .. Len(a) : (a \o b)[i] = a[i]
            /\ \A q \in 1 .. Len(b) : (a \o b)[Len(a) + q] = b[q]
        BY <3>1, Joins
      <3>3. /\ F[n] \in Text /\ Len(F[n]) = Len(a) + Len(b)
            /\ \A i \in 1 .. Len(a) : F[n][i] = a[i]
            /\ \A q \in 1 .. Len(b) : F[n][Len(a) + q] = b[q]
        BY <3>1, <3>2
      <3> QED
        BY <3>3 DEF a, b
    <2> HIDE DEF L
    <2>c. L <= Len(F[n]) /\ Len(F[n]) \in Nat
      BY <2>0, <2>1
    <2>4. ASSUME NEW m \in 1 .. n
          PROVE  /\ F[m - 1] \in Text /\ F[m] \in Text
                 /\ Len(F[m]) = Len(F[m - 1]) + Len(ss[m])
                 /\ Len(F[m]) <= Len(F[n])
                 /\ \A q \in 1 .. Len(ss[m]) : F[n][Len(F[m - 1]) + q] = ss[m][q]
      <3>1. CASE m = n
        BY <3>1, <2>0, <2>1 DEF L
      <3>2. CASE m # n
        <4>1. m \in 1 .. n - 1
          BY <3>2
        <4>2. /\ F[m - 1] \in Text /\ F[m] \in Text
              /\ Len(F[m]) = Len(F[m - 1]) + Len(ss[m])
              /\ Len(F[m]) <= L
          BY <4>1, <2>a DEF Ends, L
        <4>3. \A q \in 1 .. Len(ss[m]) : F[n - 1][Len(F[m - 1]) + q] = ss[m][q]
          BY <4>1, <2>a DEF Holds
        <4>4. m \in 1 .. N
          BY <1>0
        <4>5. Len(F[m]) \in Nat /\ Len(F[m - 1]) \in Nat /\ Len(ss[m]) \in Nat
          BY <4>2, <4>4, <1>0, <1>5
        <4> DEFINE x == Len(F[m - 1])
                   y == Len(F[m])
                   z == Len(ss[m])
                   w == Len(F[n])
        <4>x. x \in Nat /\ y \in Nat /\ z \in Nat /\ w \in Nat /\ L \in Nat
          BY <4>5, <2>0, <2>c
        <4>y. y = x + z /\ y <= L /\ L <= w
          BY <4>2, <2>c
        <4> HIDE DEF x, y, z, w
        <4>6. y <= w
          BY <4>x, <4>y
        <4>7. ASSUME NEW q \in 1 .. z
              PROVE  F[n][x + q] = ss[m][q]
          <5>1. x + q \in 1 .. L
            BY <4>x, <4>y
          <5> QED
            BY <5>1, <4>3, <2>1 DEF x, z
        <4> QED
          BY <4>2, <4>6, <4>7 DEF x, y, z, w
      <3> QED
        BY <3>1, <3>2
    <2>5. ASSUME NEW p \in 1 .. Len(F[n])
          PROVE  \E m \in 1 .. n : p - Len(F[m - 1]) \in 1 .. Len(ss[m])
      <3>1. CASE p <= L
        <4>1. p \in 1 .. L
          BY <3>1, <2>0
        <4>2. PICK m \in 1 .. n - 1 : p - Len(F[m - 1]) \in 1 .. Len(ss[m])
          BY <4>1, <2>a DEF Covers, L
        <4>3. m \in 1 .. n
          OBVIOUS
        <4> QED
          BY <4>2, <4>3
      <3>2. CASE ~ (p <= L)
        <4>1. p - L \in 1 .. Len(ss[n]) /\ n \in 1 .. n
          BY <3>2, <2>0, <2>1
        <4> QED
          BY <4>1 DEF L
      <3> QED
        BY <3>1, <3>2
    <2>6. Ends(n) /\ Holds(n)
      BY <2>4 DEF Ends, Holds
    <2>7. Covers(n)
      BY <2>5 DEF Covers
    <2> QED
      BY <2>1, <2>6, <2>7
  <1>7. S(N)
    <2> DEFINE Bad == {n \in 0 .. N : ~ S(n)}
    <2>0. S(0)
      BY <1>3, EmptyIsText
    <2> HIDE DEF S
    <2>1. SUFFICES ASSUME Bad # {} PROVE FALSE
      BY <1>0
    <2>2. PICK n \in Bad : \A m \in Bad : n <= m
      <3>1. Bad \in SUBSET Nat
        BY <1>0
      <3> HIDE DEF Bad
      <3> QED
        BY <3>1, <2>1, LeastViolation
    <2>3. n \in 0 .. N /\ ~ S(n)
      BY <2>2
    <2>4. n # 0
      BY <2>3, <2>0
    <2>5. n \in 1 .. N /\ n - 1 \in 0 .. N /\ ~ (n <= n - 1)
      BY <1>0, <2>3, <2>4
    <2>6. S(n - 1)
      BY <2>2, <2>5
    <2> QED
      BY <2>3, <2>5, <2>6, <1>6
  <1> HIDE DEF Ends, Holds, Covers
  <1>8. \A n \in 0 .. N : F[n] \in Text /\ Len(F[n]) \in Nat
    <2> SUFFICES ASSUME NEW n \in 0 .. N PROVE F[n] \in Text
      BY <1>5
    <2>1. CASE n = 0
      BY <2>1, <1>3, EmptyIsText
    <2>2. CASE n # 0
      <3>1. n \in 1 .. N
        BY <1>0, <2>2
      <3> QED
        BY <3>1, <1>7 DEF Ends
    <2> QED
      BY <2>1, <2>2
  <1> DEFINE P == [n \in 0 .. N |-> Len(F[n])]
  <1>9. P \in [0 .. N -> Nat] /\ \A n \in 0 .. N : P[n] = Len(F[n])
    BY <1>8
  <1> HIDE DEF P
  <1>10. Laid(ss, F[N], P)
    <2>1. P[0] = 0 /\ P[N] = Len(F[N])
      BY <1>0, <1>9, <1>3, EmptyIsText
    <2>2. \A n \in 1 .. N : P[n] = Len(F[n]) /\ P[n - 1] = Len(F[n - 1])
      <3> SUFFICES ASSUME NEW n \in 1 .. N
                   PROVE  P[n] = Len(F[n]) /\ P[n - 1] = Len(F[n - 1])
        OBVIOUS
      <3>1. n \in 0 .. N /\ n - 1 \in 0 .. N
        BY <1>0
      <3> QED
        BY <3>1, <1>9
    <2>3. \A n \in 1 .. N : P[n] = P[n - 1] + Len(ss[n]) /\ P[n] <= Len(F[N])
      BY <2>2, <1>7 DEF Ends
    <2>4. \A n \in 1 .. N : \A q \in 1 .. Len(ss[n]) : F[N][P[n - 1] + q] = ss[n][q]
      BY <2>2, <1>7 DEF Holds
    <2>5. \A p \in 1 .. Len(F[N]) : \E n \in 1 .. N : p - P[n - 1] \in 1 .. Len(ss[n])
      BY <2>2, <1>7 DEF Covers
    <2> QED
      BY <2>1, <2>3, <2>4, <2>5 DEF Laid
  <1> QED
    BY <1>2, <1>8, <1>9, <1>10, <1>0

-----------------------------------------------------------------------------
(* One escape, and what the loop makes of it                               *)

\* An escape is "%" and two digits, or one symbol that is no mark.
LEMMA EscapedIs ==
  ASSUME NEW x \in Symbol
  PROVE  /\ Escaped(x) \in Text
         /\ \A i \in 1 .. Len(Escaped(x)) : Escaped(x)[i] \notin {"&", "="}
         /\ \/ \E d \in DOMAIN Chr : /\ Chr[d] = x /\ d \in Text /\ Len(d) = 2
                                     /\ Len(Escaped(x)) = 3 /\ Escaped(x)[1] = "%"
                                     /\ Escaped(x)[2] = d[1] /\ Escaped(x)[3] = d[2]
            \/ /\ x # "%" /\ x # "+" /\ Len(Escaped(x)) = 1
               /\ Escaped(x)[1] = IF x = " " THEN "+" ELSE x
  <1> DEFINE has == \E d \in Escape : Chr[d] = x
             d == CHOOSE xy \in Escape : Chr[xy] = x
  <1>1. has => d \in Escape /\ Chr[d] = x
    OBVIOUS
  <1>2. Escaped(x) = IF has THEN <<"%">> \o d ELSE IF x = " " THEN <<"+">> ELSE <<x>>
    BY DEF Escaped
  <1>3. ~ has => x \notin Mark
    BY FormsAssumption DEF FormsAssumption
  <1>4. Mark \subseteq Symbol /\ Mark = {"%", "+", "&", "="}
    BY FormsAssumption DEF FormsAssumption, Escape, Mark
  <1> HIDE DEF d, has
  <1>5. CASE has
    <2>1. /\ d \in DOMAIN Chr /\ Chr[d] = x
          /\ d \in Text /\ Len(d) = 2 /\ ToSet(d) \cap Mark = {}
      BY <1>1, <1>5, FormsAssumption DEF FormsAssumption, Escape
    <2>2. d[1] \in Symbol /\ d[2] \in Symbol /\ d[1] \notin Mark /\ d[2] \notin Mark
      <3>1. DOMAIN d = 1 .. 2 /\ d[1] \in Symbol /\ d[2] \in Symbol
        <4>1. d \in Seq(Symbol) /\ Len(d) = 2
          BY <2>1 DEF Text
        <4> QED
          BY <4>1
      <3>2. d[1] \in ToSet(d) /\ d[2] \in ToSet(d)
        BY <3>1 DEF ToSet
      <3> QED
        BY <2>1, <3>1, <3>2
    <2>3. Escaped(x) = <<"%">> \o d
      BY <1>2, <1>5
    <2>4. <<"%">> \in Text /\ Len(<<"%">>) = 1 /\ <<"%">>[1] = "%"
      BY <1>4 DEF Text
    <2>5. Escaped(x) \in Text /\ Len(Escaped(x)) = 3 /\ Escaped(x)[1] = "%"
          /\ Escaped(x)[2] = d[1] /\ Escaped(x)[3] = d[2]
      <3> DEFINE a == <<"%">>
      <3>0. a \in Text /\ Len(a) = 1
        BY <2>4
      <3> HIDE DEF a
      <3>1. /\ a \o d \in Text /\ Len(a \o d) = Len(a) + Len(d)
            /\ \A i \in 1 .. Len(a) : (a \o d)[i] = a[i]
            /\ \A q \in 1 .. Len(d) : (a \o d)[Len(a) + q] = d[q]
        BY <2>1, <3>0, Joins
      <3>2. (a \o d)[1] = a[1] /\ (a \o d)[2] = d[1] /\ (a \o d)[3] = d[2]
            /\ a \o d \in Text /\ Len(a \o d) = 3
        BY <2>1, <3>0, <3>1
      <3> QED
        BY <2>3, <2>4, <3>2 DEF a
    <2>6. ASSUME NEW i \in 1 .. Len(Escaped(x))
          PROVE  Escaped(x)[i] \notin {"&", "="}
      <3>1. i = 1 \/ i = 2 \/ i = 3
        BY <2>5
      <3> QED
        BY <3>1, <2>2, <2>5, <1>4
    <2> QED
      BY <2>1, <2>5, <2>6, <1>1, <1>5
  <1>6. CASE ~ has
    <2> DEFINE y == IF x = " " THEN "+" ELSE x
    <2>1. Escaped(x) = <<y>>
      BY <1>2, <1>6
    <2>2. y \in Symbol /\ y \notin {"&", "="}
      BY <1>3, <1>4, <1>6
    <2> HIDE DEF y
    <2>3. Escaped(x) \in Text /\ Len(Escaped(x)) = 1 /\ Escaped(x)[1] = y
      BY <2>1, <2>2 DEF Text
    <2>4. ASSUME NEW i \in 1 .. Len(Escaped(x))
          PROVE  Escaped(x)[i] \notin {"&", "="}
      <3>1. i = 1
        BY <2>3
      <3> QED
        BY <3>1, <2>2, <2>3
    <2>5. x # "%" /\ x # "+"
      BY <1>3, <1>4, <1>6
    <2> QED
      BY <2>3, <2>4, <2>5 DEF y
  <1> QED
    BY <1>5, <1>6

\* The loop undoes one escape.
LEMMA StepEscaped ==
  ASSUME NEW v \in Text, NEW f, NEW p \in Nat \ {0}, NEW x \in Symbol,
         p + Len(Escaped(x)) <= Len(v) + 1,
         \A q \in 1 .. Len(Escaped(x)) : v[p - 1 + q] = Escaped(x)[q]
  PROVE  Step(v, f, p) = <<x>> \o f[p + Len(Escaped(x))]
  <1> DEFINE M == Len(Escaped(x))
  <1>0. Len(v) \in Nat
    BY DEF Text
  <1>1. CASE \E d \in DOMAIN Chr : /\ Chr[d] = x /\ d \in Text /\ Len(d) = 2
                                   /\ M = 3 /\ Escaped(x)[1] = "%"
                                   /\ Escaped(x)[2] = d[1] /\ Escaped(x)[3] = d[2]
    <2>1. PICK d \in DOMAIN Chr : /\ Chr[d] = x /\ d \in Text /\ Len(d) = 2
                                  /\ M = 3 /\ Escaped(x)[1] = "%"
                                  /\ Escaped(x)[2] = d[1] /\ Escaped(x)[3] = d[2]
      BY <1>1
    <2>2. v[p] = "%" /\ v[p + 1] = d[1] /\ v[p + 2] = d[2]
      <3>1. /\ 1 \in 1 .. M /\ 2 \in 1 .. M /\ 3 \in 1 .. M
            /\ p - 1 + 1 = p /\ p - 1 + 2 = p + 1 /\ p - 1 + 3 = p + 2
        BY <2>1
      <3> QED
        BY <2>1, <3>1
    <2>3. ~ (p > Len(v)) /\ p + 2 <= Len(v)
      BY <1>0, <2>1
    <2>4. SubSeq(v, p + 1, p + 2) = d
      <3> DEFINE e == SubSeq(v, p + 1, p + 2)
      <3>1. p + 1 \in 1 .. Len(v) + 1 /\ p + 2 \in p + 1 - 1 .. Len(v) /\ p + 2 - (p + 1) + 1 = 2
        BY <1>0, <2>3
      <3>2. e \in Text /\ Len(e) = 2 /\ \A i \in 1 .. 2 : e[i] = v[p + 1 + i - 1]
        BY <3>1, PartOf
      <3> HIDE DEF e
      <3>3. \A i \in 1 .. 2 : e[i] = d[i]
        <4>1. e[1] = v[p + 1] /\ e[2] = v[p + 2]
          BY <3>2
        <4> QED
          BY <4>1, <2>2
      <3> QED
        BY <2>1, <3>2, <3>3, SeqEqual DEF Text, e
    <2> QED
      BY <2>1, <2>2, <2>3, <2>4, Zenon DEF Step
  <1>2. CASE /\ x # "%" /\ x # "+" /\ M = 1
             /\ Escaped(x)[1] = IF x = " " THEN "+" ELSE x
    <2>0. M = 1 /\ p + M <= Len(v) + 1
      BY <1>2, Zenon
    <2>1. v[p] = IF x = " " THEN "+" ELSE x
      <3>1. 1 \in 1 .. M /\ p - 1 + 1 = p
        BY <2>0
      <3>2. v[p - 1 + 1] = Escaped(x)[1]
        BY <3>1
      <3> QED
        BY <1>2, <3>1, <3>2, Zenon
    <2> HIDE DEF M
    <2>2. ~ (p > Len(v))
      BY <1>0, <2>0
    <2>3. v[p] # "%" /\ (IF v[p] = "+" THEN " " ELSE v[p]) = x
      BY <1>2, <2>1
    <2> QED
      BY <2>0, <2>2, <2>3, Zenon DEF Step, M
  <1> QED
    BY <1>1, <1>2, EscapedIs, Zenon

LEMMA SubSeqFirst ==
  ASSUME NEW t \in Text, NEW n \in 1 .. Len(t)
  PROVE  <<t[n]>> \o SubSeq(t, n + 1, Len(t)) = SubSeq(t, n, Len(t))
  <1> DEFINE N == Len(t)
             a == <<t[n]>>
             b == SubSeq(t, n + 1, N)
             c == SubSeq(t, n, N)
  <1>0. N \in Nat /\ t[n] \in Symbol
    BY DEF Text
  <1>1. a \in Text /\ Len(a) = 1 /\ a[1] = t[n]
    BY <1>0 DEF Text
  <1>N. N \in Nat /\ n \in 1 .. N
    BY <1>0
  <1>2. b \in Text /\ Len(b) = N - n /\ \A i \in 1 .. N - n : b[i] = t[n + i]
    <2> DEFINE k == n + 1
    <2>1. k \in 1 .. N + 1 /\ N \in k - 1 .. N /\ N - k + 1 = N - n
          /\ \A i \in 1 .. N - n : k + i - 1 = n + i
      BY <1>0
    <2> HIDE DEF k
    <2>2. /\ SubSeq(t, k, N) \in Text /\ Len(SubSeq(t, k, N)) = N - k + 1
          /\ \A i \in 1 .. N - k + 1 : SubSeq(t, k, N)[i] = t[k + i - 1]
      BY <2>1, PartOf
    <2> HIDE DEF N
    <2>3. b = SubSeq(t, k, N)
      BY DEF k
    <2> HIDE DEF b
    <2> QED
      BY <2>1, <2>2, <2>3
  <1>3. c \in Text /\ Len(c) = N - n + 1 /\ \A i \in 1 .. N - n + 1 : c[i] = t[n + i - 1]
    <2>1. n \in 1 .. N + 1 /\ N \in n - 1 .. N
      BY <1>0
    <2> QED
      BY <2>1, PartOf
  <1> HIDE DEF N, a, b, c
  <1>4. /\ a \o b \in Text /\ Len(a \o b) = 1 + (N - n) /\ (a \o b)[1] = t[n]
        /\ \A q \in 1 .. N - n : (a \o b)[1 + q] = t[n + q]
    <2>1. /\ a \o b \in Text /\ Len(a \o b) = Len(a) + Len(b)
          /\ \A i \in 1 .. Len(a) : (a \o b)[i] = a[i]
          /\ \A q \in 1 .. Len(b) : (a \o b)[Len(a) + q] = b[q]
      BY <1>1, <1>2, Joins
    <2> QED
      BY <1>1, <1>2, <2>1
  <1>5. ASSUME NEW i \in 1 .. N - n + 1
        PROVE  (a \o b)[i] = c[i]
    <2>1. CASE i = 1
      BY <2>1, <1>0, <1>3, <1>4 DEF N
    <2>2. CASE i # 1
      <3> DEFINE q == i - 1
      <3>1. q \in 1 .. N - n /\ i = 1 + q /\ n + q = n + i - 1
        BY <2>2, <1>0 DEF N
      <3> HIDE DEF q
      <3>2. (a \o b)[1 + q] = t[n + q]
        BY <3>1, <1>4
      <3>3. c[i] = t[n + i - 1]
        BY <1>3
      <3> QED
        BY <3>1, <3>2, <3>3
    <2> QED
      BY <2>1, <2>2
  <1>6. Len(a \o b) = Len(c) /\ Len(c) = N - n + 1
    BY <1>0, <1>3, <1>4 DEF N
  <1>7. a \o b = c
    BY <1>3, <1>4, <1>5, <1>6, SeqEqual DEF Text
  <1> QED
    BY <1>7 DEF a, b, c, N

-----------------------------------------------------------------------------
(* Quoted texts                                                            *)

\* Quoting a text escapes its symbols one by one.
EscapesOf(t) == [i \in 1 .. Len(t) |-> Escaped(t[i])]

LEMMA EscapesTyped ==
  ASSUME NEW t \in Text
  PROVE  /\ Len(t) \in Nat /\ EscapesOf(t) \in Seq(Text) /\ Len(EscapesOf(t)) = Len(t)
         /\ \A n \in 1 .. Len(t) : t[n] \in Symbol /\ EscapesOf(t)[n] = Escaped(t[n])
                                   /\ Escaped(t[n]) \in Text
         /\ Quote(t) = FlattenSeq(EscapesOf(t))
  <1>1. Len(t) \in Nat /\ \A n \in 1 .. Len(t) : t[n] \in Symbol
    BY DEF Text
  <1>2. \A n \in 1 .. Len(t) : Escaped(t[n]) \in Text
    BY <1>1, EscapedIs
  <1>3. Quote(t) = FlattenSeq(EscapesOf(t))
    BY DEF Quote, EscapesOf
  <1>4. EscapesOf(t) \in Seq(Text) /\ Len(EscapesOf(t)) = Len(t)
    BY <1>1, <1>2 DEF EscapesOf
  <1> QED
    BY <1>1, <1>2, <1>3, <1>4 DEF EscapesOf

(* What the page quotes has neither of the marks that divide a form.        *)
LEMMA QuoteTyped ==
  ASSUME NEW t \in Text
  PROVE  Quote(t) \in Text /\ \A p \in 1 .. Len(Quote(t)) : Quote(t)[p] \notin {"&", "="}
  <1> DEFINE v == Quote(t)
             ss == EscapesOf(t)
  <1>1. PICK P \in [0 .. Len(ss) -> Nat] : Laid(ss, v, P)
    BY EscapesTyped, Flattened
  <1>2. v \in Text
    BY EscapesTyped, Flattened
  <1>3. ASSUME NEW p \in 1 .. Len(v) PROVE v[p] \notin {"&", "="}
    <2> HIDE DEF v, ss
    <2>1. PICK n \in 1 .. Len(ss) : p - P[n - 1] \in 1 .. Len(ss[n])
      BY <1>1 DEF Laid
    <2> DEFINE o == P[n - 1]
               q == p - o
    <2>2. o \in Nat /\ Len(v) \in Nat
      <3>1. Len(ss) \in Nat /\ Len(v) \in Nat
        BY <1>2, EscapesTyped DEF ss, Text
      <3>2. n - 1 \in 0 .. Len(ss)
        BY <3>1
      <3> QED
        BY <3>1, <3>2
    <2>3. q \in 1 .. Len(ss[n]) /\ o + q = p
      BY <2>1, <2>2
    <2>4. v[o + q] = ss[n][q]
      BY <2>3, <1>1, Zenon DEF Laid
    <2> HIDE DEF q, o
    <2>5. ss[n] = Escaped(t[n]) /\ t[n] \in Symbol
      BY EscapesTyped DEF ss
    <2>6. ss[n][q] \notin {"&", "="}
      BY <2>3, <2>5, EscapedIs
    <2> QED
      BY <2>3, <2>4, <2>6
  <1> QED
    BY <1>2, <1>3

(* Decoding gives back every text that the page quotes.                     *)
LEMMA UnquoteQuote ==
  ASSUME NEW t \in Text
  PROVE  url_unquote(Quote(t)) = t
  <1> DEFINE v  == Quote(t)
             ss == EscapesOf(t)
             N  == Len(t)
             f  == CHOOSE g : g = [i \in 1 .. Len(v) + 1 |-> Step(v, g, i)]
  <1>0. /\ N \in Nat /\ Len(ss) = N /\ v \in Text /\ Len(v) \in Nat
        /\ \A n \in 1 .. N : t[n] \in Symbol /\ ss[n] = Escaped(t[n]) /\ Len(ss[n]) \in Nat
    BY EscapesTyped, QuoteTyped DEF Text
  <1>1. PICK P \in [0 .. N -> Nat] : Laid(ss, v, P)
    BY EscapesTyped, Flattened
  <1>2. f = [i \in 1 .. Len(v) + 1 |-> Step(v, f, i)]
    BY <1>0, LoopExists
  <1>3. url_unquote(v) = f[1]
    BY UnquoteIsLoop
  <1> HIDE DEF f, v, ss, N
  <1> DEFINE Left(n) == f[P[n] + 1] = SubSeq(t, n + 1, N)
  <1>4. Left(N)
    <2>1. P[N] = Len(v)
      BY <1>0, <1>1 DEF Laid
    <2>2. Len(v) + 1 \in 1 .. Len(v) + 1 /\ Len(v) + 1 > Len(v)
      BY <1>0
    <2>3. f[Len(v) + 1] = <<>>
      BY <1>2, <2>2, Zenon DEF Step
    <2>4. SubSeq(t, N + 1, N) = <<>>
      BY <1>0, SubSeqEmpty
    <2> QED
      BY <2>1, <2>3, <2>4
  <1>5. ASSUME NEW n \in 1 .. N, Left(n)
        PROVE  Left(n - 1)
    <2> DEFINE o == P[n - 1]
               m == Len(Escaped(t[n]))
               p == o + 1
    <2>1. P[n] = o + m /\ P[n] <= Len(v) /\ o \in Nat /\ m \in Nat
      <3>1. n - 1 \in 0 .. N /\ n \in 1 .. Len(ss)
        BY <1>0
      <3> QED
        BY <1>0, <1>1, <3>1 DEF Laid
    <2>2. \A q \in 1 .. m : v[o + q] = Escaped(t[n])[q]
      BY <1>0, <1>1 DEF Laid
    <2> HIDE DEF o, m
    <2>3. p \in Nat \ {0} /\ p + m <= Len(v) + 1 /\ p \in 1 .. Len(v) + 1 /\ p - 1 = o
      BY <1>0, <2>1
    <2> HIDE DEF p
    <2>4. \A q \in 1 .. m : v[p - 1 + q] = Escaped(t[n])[q]
      BY <2>2, <2>3
    <2>5. Step(v, f, p) = <<t[n]>> \o f[p + m]
      BY <1>0, <2>3, <2>4, StepEscaped DEF m
    <2>6. f[p] = Step(v, f, p)
      BY <1>2, <2>3
    <2>7. p + m = P[n] + 1
      BY <2>1, <2>3
    <2>8. f[p + m] = SubSeq(t, n + 1, N)
      BY <1>5, <2>7
    <2>9. <<t[n]>> \o SubSeq(t, n + 1, N) = SubSeq(t, n, N)
      BY SubSeqFirst DEF N
    <2>10. p = P[n - 1] + 1 /\ n - 1 + 1 = n
      BY <2>1 DEF p, o
    <2> QED
      BY <2>5, <2>6, <2>8, <2>9, <2>10
  <1>6. Left(0)
    <2> DEFINE Bad == {d \in 0 .. N : ~ Left(N - d)}
    <2> HIDE DEF Left
    <2>1. SUFFICES ASSUME Bad # {} PROVE FALSE
      <3>1. N \in 0 .. N /\ N - N = 0
        BY <1>0
      <3> QED
        BY <3>1
    <2>2. PICK d \in Bad : \A e \in Bad : d <= e
      <3>1. Bad \in SUBSET Nat
        BY <1>0
      <3> HIDE DEF Bad
      <3> QED
        BY <3>1, <2>1, LeastViolation
    <2>3. d \in 0 .. N /\ ~ Left(N - d)
      BY <2>2
    <2>4. d # 0
      <3>1. N - 0 = N
        BY <1>0
      <3> QED
        BY <3>1, <2>3, <1>4
    <2>5. d - 1 \in 0 .. N /\ ~ (d <= d - 1) /\ N - (d - 1) \in 1 .. N
          /\ N - (d - 1) - 1 = N - d
      BY <1>0, <2>3, <2>4
    <2>6. Left(N - (d - 1))
      BY <2>2, <2>5
    <2> DEFINE n == N - (d - 1)
    <2>7. n \in 1 .. N /\ Left(n) /\ n - 1 = N - d
      BY <2>5, <2>6
    <2> HIDE DEF n
    <2>8. Left(n - 1)
      BY <2>7, <1>5
    <2> QED
      BY <2>3, <2>7, <2>8
  <1>7. P[0] = 0
    BY <1>1 DEF Laid
  <1>8. SubSeq(t, 1, N) = t
    <2>1. 1 \in 1 .. N + 1 /\ N \in 1 - 1 .. N /\ N - 1 + 1 = N /\ \A i \in 1 .. N : 1 + i - 1 = i
      BY <1>0
    <2>2. SubSeq(t, 1, N) \in Text /\ Len(SubSeq(t, 1, N)) = N
          /\ \A i \in 1 .. N : SubSeq(t, 1, N)[i] = t[i]
      BY <2>1, PartOf DEF N
    <2> QED
      BY <2>2, SeqEqual DEF Text, N
  <1>9. P[0] + 1 = 1 /\ 0 + 1 = 1
    BY <1>7
  <1>10. f[1] = SubSeq(t, 1, N)
    BY <1>6, <1>9
  <1> QED
    BY <1>3, <1>8, <1>10 DEF v

-----------------------------------------------------------------------------
(* The bytes of a text                                                     *)

LEMMA BytesTyped ==
  ASSUME NEW t \in Text
  PROVE  Bytes(t) \in Text
  <1> DEFINE ss == [i \in 1 .. Len(t) |-> BytesOf(t[i])]
  <1>1. Len(t) \in Nat /\ \A i \in 1 .. Len(t) : t[i] \in Symbol
    BY DEF Text
  <1>2. ASSUME NEW x \in Symbol
        PROVE  BytesOf(x) \in Text
    <2>1. CASE x \in DOMAIN Utf8
      <3>1. {Chr[xy] : xy \in Escape} \subseteq Symbol
        BY FormsAssumption DEF FormsAssumption, Escape
      <3>2. Utf8[x] \in Seq({Chr[xy] : xy \in Escape})
        BY <2>1, FormsAssumption DEF FormsAssumption
      <3>3. Utf8[x] \in Text
        <4> DEFINE C == {Chr[xy] : xy \in Escape}
        <4> HIDE DEF C
        <4>1. C \subseteq Symbol /\ Utf8[x] \in Seq(C)
          BY <3>1, <3>2 DEF C
        <4> QED
          BY <4>1 DEF Text
      <3> QED
        BY <2>1, <3>3 DEF BytesOf
    <2>2. CASE x \notin DOMAIN Utf8
      BY <2>2 DEF BytesOf, Text
    <2> QED
      BY <2>1, <2>2
  <1>3. ss \in Seq(Text)
    BY <1>1, <1>2
  <1>4. Bytes(t) = FlattenSeq(ss)
    BY DEF Bytes
  <1> HIDE DEF ss
  <1> QED
    BY <1>3, <1>4, Flattened

(* A text of one-byte characters is its bytes.                              *)
LEMMA BytesOfOneByte ==
  ASSUME NEW t \in Text, OneByte(t)
  PROVE  Bytes(t) = t
  <1> DEFINE N  == Len(t)
             ss == [i \in 1 .. N |-> BytesOf(t[i])]
             v  == Bytes(t)
  <1>1. N \in Nat /\ \A i \in 1 .. N : t[i] \in Symbol /\ t[i] \notin DOMAIN Utf8
    BY DEF Text, OneByte, ToSet
  <1>2. \A i \in 1 .. N : ss[i] = <<t[i]>>
    BY <1>1 DEF BytesOf
  <1>3. ss \in Seq(Text) /\ Len(ss) = N
    <2>1. \A x \in Symbol : <<x>> \in Text
      BY DEF Text
    <2>2. \A i \in 1 .. N : ss[i] \in Text
      <3> HIDE DEF ss
      <3> QED
        BY <1>1, <1>2, <2>1
    <2> QED
      BY <1>1, <2>2
  <1>4. v = FlattenSeq(ss)
    BY DEF Bytes
  <1> HIDE DEF ss, v
  <1>5. v \in Text /\ \E P \in [0 .. N -> Nat] : Laid(ss, v, P)
    BY <1>3, <1>4, Flattened
  <1>6. PICK P \in [0 .. N -> Nat] : Laid(ss, v, P)
    BY <1>5
  <1> HIDE DEF N
  <1>7. /\ P[0] = 0 /\ P[N] = Len(v)
        /\ \A n \in 1 .. N : P[n] = P[n - 1] + 1 /\ v[P[n - 1] + 1] = t[n]
    <2>1. P[0] = 0 /\ P[N] = Len(v)
      BY <1>3, <1>6 DEF Laid
    <2>2. ASSUME NEW n \in 1 .. N
          PROVE  P[n] = P[n - 1] + 1 /\ v[P[n - 1] + 1] = t[n]
      <3>1. Len(ss[n]) = 1 /\ ss[n][1] = t[n] /\ n \in 1 .. Len(ss)
        <4>1. ss[n] = <<t[n]>>
          BY <1>2
        <4>2. n \in 1 .. Len(ss)
          BY <1>3
        <4> QED
          BY <4>1, <4>2
      <3>2. P[n] = P[n - 1] + Len(ss[n])
        BY <3>1, <1>6, Zenon DEF Laid
      <3>3. \A q \in 1 .. Len(ss[n]) : v[P[n - 1] + q] = ss[n][q]
        BY <3>1, <1>6, Zenon DEF Laid
      <3>4. 1 \in 1 .. Len(ss[n])
        BY <3>1
      <3>5. v[P[n - 1] + 1] = t[n]
        BY <3>1, <3>3, <3>4, Zenon
      <3> QED
        BY <3>1, <3>2, <3>5
    <2> QED
      BY <2>1, <2>2
  <1>8. \A n \in 0 .. N : P[n] = n
    <2> DEFINE Off == {n \in 0 .. N : P[n] # n}
    <2>1. SUFFICES ASSUME Off # {} PROVE FALSE
      OBVIOUS
    <2>2. PICK n \in Off : \A m \in Off : n <= m
      <3>1. Off \in SUBSET Nat
        BY <1>1
      <3> HIDE DEF Off
      <3> QED
        BY <3>1, <2>1, LeastViolation
    <2>3. n \in 0 .. N /\ P[n] # n
      BY <2>2
    <2>4. n # 0
      BY <1>7, <2>3
    <2>5. n \in 1 .. N /\ n - 1 \in 0 .. N /\ ~ (n <= n - 1)
      BY <1>1, <2>3, <2>4
    <2>6. P[n - 1] = n - 1
      BY <2>2, <2>5
    <2> QED
      BY <1>7, <2>3, <2>5, <2>6
  <1>9. Len(v) = N /\ \A n \in 1 .. N : v[n] = t[n]
    <2>1. N \in 0 .. N /\ \A n \in 1 .. N : n - 1 \in 0 .. N /\ n - 1 + 1 = n
      BY <1>1
    <2> QED
      BY <1>7, <1>8, <2>1
  <1>10. v = t
    BY <1>5, <1>9, SeqEqual DEF N, Text
  <1> QED
    BY <1>10 DEF v

-----------------------------------------------------------------------------
(* A pair of a form, and its parts                                         *)

LEMMA MarksAreSymbols ==
  /\ Mark = {"%", "+", "&", "="} /\ Mark \subseteq Symbol
  /\ <<"&">> \in Text /\ <<"=">> \in Text
  <1>1. Mark = {"%", "+", "&", "="} /\ Mark \subseteq Symbol
    BY FormsAssumption DEF FormsAssumption, Escape, Mark
  <1> QED
    BY <1>1 DEF Text

\* A key and its value around the "=", after what divides them from the rest.
LEMMA Glued ==
  ASSUME NEW s \in Text, NEW k \in Text, NEW w \in Text
  PROVE  LET t == s \o k \o <<"=">> \o w IN
         /\ t \in Text /\ Len(t) = Len(s) + Len(k) + 1 + Len(w)
         /\ \A q \in 1 .. Len(s) : t[q] = s[q]
         /\ \A q \in 1 .. Len(k) : t[Len(s) + q] = k[q]
         /\ t[Len(s) + Len(k) + 1] = "="
         /\ \A q \in 1 .. Len(w) : t[Len(s) + Len(k) + 1 + q] = w[q]
  <1> DEFINE e  == <<"=">>
             t1 == s \o k
             t2 == t1 \o e
             t3 == t2 \o w
             a  == Len(s)
             b  == Len(k)
             c  == Len(w)
  <1>1. e \in Text /\ Len(e) = 1 /\ e[1] = "="
    BY MarksAreSymbols
  <1> HIDE DEF e
  <1>2. /\ t1 \in Text /\ a \in Nat /\ b \in Nat /\ Len(t1) = a + b
        /\ \A i \in 1 .. a : t1[i] = s[i]
        /\ \A q \in 1 .. b : t1[a + q] = k[q]
    BY Joins
  <1> HIDE DEF t1
  <1>3. /\ t2 \in Text /\ Len(t2) = Len(t1) + Len(e)
        /\ \A i \in 1 .. Len(t1) : t2[i] = t1[i]
        /\ \A q \in 1 .. Len(e) : t2[Len(t1) + q] = e[q]
    BY <1>1, <1>2, Joins
  <1> HIDE DEF t2
  <1>4. /\ t3 \in Text /\ c \in Nat /\ Len(t3) = Len(t2) + c
        /\ \A i \in 1 .. Len(t2) : t3[i] = t2[i]
        /\ \A q \in 1 .. c : t3[Len(t2) + q] = w[q]
    BY <1>3, Joins
  <1> HIDE DEF t3, a, b, c
  <1>5. Len(t2) = a + b + 1 /\ t2[a + b + 1] = "="
    BY <1>1, <1>2, <1>3
  <1>6. \A i \in 1 .. a + b : t3[i] = t1[i]
    BY <1>2, <1>3, <1>4, <1>5
  <1>7. \A q \in 1 .. a : t3[q] = s[q]
    BY <1>2, <1>6
  <1>8. \A q \in 1 .. b : t3[a + q] = k[q]
    <2> SUFFICES ASSUME NEW q \in 1 .. b PROVE t3[a + q] = k[q]
      OBVIOUS
    <2>1. a + q \in 1 .. a + b
      BY <1>2
    <2> QED
      BY <2>1, <1>2, <1>6
  <1>9. t3[a + b + 1] = "="
    BY <1>2, <1>4, <1>5
  <1>10. Len(t3) = a + b + 1 + c /\ \A q \in 1 .. c : t3[a + b + 1 + q] = w[q]
    BY <1>4, <1>5
  <1> QED
    BY <1>4, <1>7, <1>8, <1>9, <1>10 DEF t3, t2, t1, e, a, b, c

\* The item of a key and its value falls apart at its first "=".
LEMMA ItemFallsApart ==
  ASSUME NEW t \in Text, NEW k \in Text, NEW w \in Text,
         Len(t) = Len(k) + 1 + Len(w),
         \A q \in 1 .. Len(k) : t[q] = k[q] /\ k[q] # "=",
         t[Len(k) + 1] = "=",
         \A q \in 1 .. Len(w) : t[Len(k) + 1 + q] = w[q]
  PROVE  Before(t, "=") = k /\ After(t, "=") = w
  <1> DEFINE a == Len(k)
             b == Len(w)
             N == Len(t)
             i == Place(t, "=")
  <1>0. a \in Nat /\ b \in Nat /\ N = a + 1 + b
    BY DEF Text
  <1>1. /\ Before(t, "=") = IF i = 0 THEN t ELSE SubSeq(t, 1, i - 1)
        /\ After(t, "=") = IF i = 0 THEN <<>> ELSE SubSeq(t, i + 1, N)
    BY DEF Before, After, Place
  <1>2. /\ i \in 0 .. N /\ (i = 0 <=> \A j \in 1 .. N : t[j] # "=")
        /\ i # 0 => t[i] = "=" /\ \A j \in 1 .. i - 1 : t[j] # "="
    BY PlaceIs
  <1> HIDE DEF a, b, N, i
  <1>3. \A q \in 1 .. a : t[q] = k[q] /\ k[q] # "="
    BY DEF a
  <1>4. t[a + 1] = "="
    BY DEF a
  <1>5. i = a + 1
    <2>1. a + 1 \in 1 .. N
      BY <1>0
    <2>2. i # 0
      BY <2>1, <1>2, <1>4
    <2>3. ~ (a + 1 < i)
      <3>1. a + 1 < i => a + 1 \in 1 .. i - 1
        BY <1>0, <1>2
      <3> QED
        BY <3>1, <2>2, <1>2, <1>4
    <2>4. ~ (i < a + 1)
      <3>1. i < a + 1 => i \in 1 .. a
        BY <1>0, <1>2, <2>2
      <3> QED
        BY <3>1, <2>2, <1>2, <1>3
    <2> QED
      BY <2>3, <2>4, <1>0, <1>2
  <1>6. SubSeq(t, 1, i - 1) = k
    <2>1. i - 1 = a /\ 1 \in 1 .. N + 1 /\ a \in 1 - 1 .. N /\ a - 1 + 1 = a
          /\ \A q \in 1 .. a : 1 + q - 1 = q
      BY <1>0, <1>5
    <2> DEFINE u == SubSeq(t, 1, a)
    <2>2. u \in Text /\ Len(u) = a - 1 + 1 /\ \A q \in 1 .. a - 1 + 1 : u[q] = t[1 + q - 1]
      BY <2>1, PartOf DEF N
    <2> HIDE DEF u
    <2>3. Len(u) = Len(k) /\ \A q \in 1 .. Len(u) : u[q] = k[q]
      BY <2>1, <2>2, <1>3 DEF a
    <2>4. u = k
      BY <2>2, <2>3, SeqEqual DEF Text
    <2> QED
      BY <2>1, <2>4 DEF u
  <1>7. SubSeq(t, i + 1, N) = w
    <2> DEFINE m == a + 1 + 1
    <2>1. i + 1 = m /\ m \in 1 .. N + 1 /\ N \in m - 1 .. N /\ N - m + 1 = b
          /\ \A q \in 1 .. b : m + q - 1 = a + 1 + q
      BY <1>0, <1>5
    <2> HIDE DEF m
    <2> DEFINE u == SubSeq(t, m, N)
    <2>2. u \in Text /\ Len(u) = N - m + 1 /\ \A q \in 1 .. N - m + 1 : u[q] = t[m + q - 1]
      BY <2>1, PartOf DEF N
    <2> HIDE DEF u
    <2>3. \A q \in 1 .. b : t[a + 1 + q] = w[q]
      BY DEF a, b
    <2>4. Len(u) = Len(w) /\ \A q \in 1 .. Len(u) : u[q] = w[q]
      <3>1. Len(u) = b /\ \A q \in 1 .. b : u[q] = t[a + 1 + q]
        BY <2>1, <2>2
      <3> QED
        BY <3>1, <2>3 DEF b
    <2>5. u = w
      BY <2>2, <2>4, SeqEqual DEF Text
    <2> QED
      BY <2>1, <2>5 DEF u
  <1>8. i # 0
    BY <1>0, <1>5
  <1> QED
    BY <1>1, <1>6, <1>7, <1>8

-----------------------------------------------------------------------------
(* The items of what the page sends                                        *)

Pairs(form) == [i \in 1 .. Len(form) |-> Pair(form, i)]

\* How many symbols divide a pair from what is before it.
Divider(i) == IF i = 1 THEN 0 ELSE 1

\* A pair is its divider, the quoted key, "=" and the quoted value.
LEMMA PairIs ==
  ASSUME NEW form, Form(form), NEW i \in 1 .. Len(form)
  PROVE  LET t == Pair(form, i)
             d == Divider(i)
             k == Quote(Bytes(form[i][1]))
             w == Quote(Bytes(form[i][2]))
         IN
         /\ Bytes(form[i][1]) \in Text /\ Bytes(form[i][2]) \in Text
         /\ t \in Text /\ k \in Text /\ w \in Text
         /\ Len(t) = d + Len(k) + 1 + Len(w)
         /\ d = 1 => t[1] = "&"
         /\ \A q \in 1 .. Len(k) : t[d + q] = k[q]
         /\ t[d + Len(k) + 1] = "="
         /\ \A q \in 1 .. Len(w) : t[d + Len(k) + 1 + q] = w[q]
         /\ \A q \in d + 1 .. Len(t) : t[q] # "&"
  <1> DEFINE s == IF i = 1 THEN <<>> ELSE <<"&">>
             d == Divider(i)
             k == Quote(Bytes(form[i][1]))
             w == Quote(Bytes(form[i][2]))
             t == Pair(form, i)
  <1>1. form[i] \in Text \X Text
    BY DEF Form
  <1>0. Bytes(form[i][1]) \in Text /\ Bytes(form[i][2]) \in Text
    BY <1>1, BytesTyped
  <1>2. k \in Text /\ w \in Text
    BY <1>0, QuoteTyped
  <1>3. /\ \A q \in 1 .. Len(k) : k[q] \notin {"&", "="}
        /\ \A q \in 1 .. Len(w) : w[q] \notin {"&", "="}
    BY <1>0, QuoteTyped
  <1>4. t = s \o k \o <<"=">> \o w
    BY DEF Pair
  <1>5. s \in Text /\ Len(s) = d /\ d \in {0, 1} /\ (d = 1 => s[1] = "&")
    <2>1. CASE i = 1
      BY <2>1, EmptyIsText DEF Divider
    <2>2. CASE i # 1
      BY <2>2, MarksAreSymbols DEF Divider
    <2> QED
      BY <2>1, <2>2
  <1> HIDE DEF s, d, k, w, t
  <1>6. /\ t \in Text /\ Len(t) = Len(s) + Len(k) + 1 + Len(w)
        /\ \A q \in 1 .. Len(s) : t[q] = s[q]
        /\ \A q \in 1 .. Len(k) : t[Len(s) + q] = k[q]
        /\ t[Len(s) + Len(k) + 1] = "="
        /\ \A q \in 1 .. Len(w) : t[Len(s) + Len(k) + 1 + q] = w[q]
    <2> DEFINE u == s \o k \o <<"=">> \o w
    <2>1. /\ u \in Text /\ Len(u) = Len(s) + Len(k) + 1 + Len(w)
          /\ \A q \in 1 .. Len(s) : u[q] = s[q]
          /\ \A q \in 1 .. Len(k) : u[Len(s) + q] = k[q]
          /\ u[Len(s) + Len(k) + 1] = "="
          /\ \A q \in 1 .. Len(w) : u[Len(s) + Len(k) + 1 + q] = w[q]
      <3>1. s \in Text /\ k \in Text /\ w \in Text
        BY <1>2, <1>5
      <3> QED
        BY <3>1, Glued, Zenon
    <2>2. t = u
      BY <1>4
    <2> HIDE DEF u
    <2> QED
      BY <2>1, <2>2
  <1> DEFINE a == Len(k)
             b == Len(w)
             N == Len(t)
  <1>7. a \in Nat /\ b \in Nat /\ d \in Nat
    BY <1>2, <1>5 DEF Text
  <1>8. /\ N = d + a + 1 + b
        /\ \A q \in 1 .. a : t[d + q] = k[q]
        /\ t[d + a + 1] = "="
        /\ \A q \in 1 .. b : t[d + a + 1 + q] = w[q]
    BY <1>5, <1>6
  <1>9. d = 1 => t[1] = "&"
    BY <1>5, <1>6
  <1>10. \A q \in 1 .. a : k[q] # "&"
    BY <1>3
  <1>11. \A q \in 1 .. b : w[q] # "&"
    BY <1>3
  <1> HIDE DEF a, b, N
  <1>12. ASSUME NEW q \in d + 1 .. N
         PROVE  t[q] # "&"
    <2>1. CASE q <= d + a
      <3> DEFINE r == q - d
      <3>1. r \in 1 .. a /\ q = d + r
        BY <2>1, <1>7
      <3> HIDE DEF r
      <3>2. t[d + r] = k[r] /\ k[r] # "&"
        BY <3>1, <1>8, <1>10
      <3> QED
        BY <3>1, <3>2
    <2>2. CASE q = d + a + 1
      BY <2>2, <1>8
    <2>3. CASE q > d + a + 1
      <3> DEFINE r == q - (d + a + 1)
      <3>1. r \in 1 .. b /\ q = d + a + 1 + r
        BY <2>3, <1>7, <1>8
      <3> HIDE DEF r
      <3>2. t[d + a + 1 + r] = w[r] /\ w[r] # "&"
        BY <3>1, <1>8, <1>11
      <3> QED
        BY <3>1, <3>2
    <2> QED
      BY <2>1, <2>2, <2>3, <1>7
  <1> QED
    BY <1>0, <1>2, <1>6, <1>8, <1>9, <1>12 DEF a, b, N, t, k, w, d

LEMMA PairsTyped ==
  ASSUME NEW form, Form(form)
  PROVE  /\ Len(form) \in Nat /\ Pairs(form) \in Seq(Text) /\ Len(Pairs(form)) = Len(form)
         /\ \A n \in 1 .. Len(form) : Pairs(form)[n] = Pair(form, n)
         /\ Encode(form) = FlattenSeq(Pairs(form))
  <1>1. Len(form) \in Nat
    BY DEF Form
  <1>2. \A n \in 1 .. Len(form) : Pair(form, n) \in Text
    BY PairIs
  <1>3. Encode(form) = FlattenSeq(Pairs(form))
    BY DEF Encode, Pairs
  <1> QED
    BY <1>1, <1>2, <1>3 DEF Pairs

\* An item is a longest part without an "&".
LEMMA ItemIs ==
  ASSUME NEW v \in Text, NEW i \in 1 .. Len(v), NEW j \in 1 .. Len(v)
  PROVE  <<i, j>> \in Items(v) <=>
           /\ i <= j /\ \A p \in i .. j : v[p] # "&"
           /\ i = 1 \/ v[i - 1] = "&"
           /\ j = Len(v) \/ v[j + 1] = "&"
  <1>0. Len(v) \in Nat
    BY DEF Text
  <1>1. ASSUME i <= j
        PROVE  "&" \notin ToSet(SubSeq(v, i, j)) <=> \A p \in i .. j : v[p] # "&"
    <2> DEFINE u == SubSeq(v, i, j)
               M == j - i + 1
    <2>1. i \in 1 .. Len(v) + 1 /\ j \in i - 1 .. Len(v)
      BY <1>0, <1>1
    <2>2. u \in Text /\ Len(u) = M /\ \A q \in 1 .. M : u[q] = v[i + q - 1]
      BY <2>1, PartOf
    <2> HIDE DEF u
    <2>3. ToSet(u) = {u[q] : q \in 1 .. M}
      BY <2>2 DEF ToSet, Text
    <2>4. ASSUME NEW p \in i .. j, v[p] = "&"
          PROVE  "&" \in ToSet(u)
      <3> DEFINE q == p - i + 1
      <3>1. q \in 1 .. M /\ i + q - 1 = p
        BY <1>0
      <3> HIDE DEF q
      <3>2. u[q] = v[i + q - 1]
        BY <3>1, <2>2
      <3>3. u[q] = "&"
        BY <3>1, <3>2, <2>4
      <3> QED
        BY <3>1, <3>3, <2>3
    <2>5. ASSUME "&" \in ToSet(u)
          PROVE  \E p \in i .. j : v[p] = "&"
      <3>1. PICK q \in 1 .. M : u[q] = "&"
        BY <2>5, <2>3
      <3> DEFINE p == i + q - 1
      <3>2. p \in i .. j /\ u[q] = v[p]
        BY <3>1, <2>2
      <3> HIDE DEF p
      <3> QED
        BY <3>1, <3>2
    <2> QED
      BY <2>4, <2>5 DEF u
  <1> QED
    BY <1>1 DEF Items

\* The items that parse_kv_pairs finds are the pairs of the form.
LEMMA ItemsOfForm ==
  ASSUME NEW form, Form(form), NEW P, Laid(Pairs(form), Encode(form), P),
         P \in [0 .. Len(form) -> Nat]
  PROVE  Items(Encode(form)) =
           {<<P[n - 1] + Divider(n) + 1, P[n]>> : n \in 1 .. Len(form)}
  <1> DEFINE v  == Encode(form)
             ss == Pairs(form)
             N  == Len(form)
             M  == Len(v)
             from(n) == P[n - 1] + Divider(n) + 1
  <1>0. /\ N \in Nat /\ Len(ss) = N /\ v \in Text /\ M \in Nat
        /\ \A n \in 1 .. N : ss[n] = Pair(form, n)
    BY PairsTyped, Flattened DEF Text
  <1> HIDE DEF v, ss, N, M
  <1>1. ASSUME NEW n \in 1 .. N
        PROVE  /\ P[n - 1] \in Nat /\ P[n] \in Nat /\ Divider(n) \in {0, 1}
               /\ from(n) <= P[n] /\ P[n] <= M
               /\ \A p \in from(n) .. P[n] : v[p] # "&"
               /\ n # 1 => v[P[n - 1] + 1] = "&"
               /\ n = 1 => P[n - 1] = 0
    <2> DEFINE t == Pair(form, n)
               d == Divider(n)
               o == P[n - 1]
               m == Len(t)
               e == P[n]
    <2>1. d \in {0, 1} /\ (n # 1 => d = 1)
      BY DEF Divider
    <2>2. o \in Nat /\ e \in Nat
      <3>1. n - 1 \in 0 .. N /\ n \in 0 .. N
        BY <1>0
      <3> QED
        BY <3>1 DEF N
    <2>3. /\ t \in Text /\ (d = 1 => t[1] = "&")
          /\ \A q \in d + 1 .. Len(t) : t[q] # "&"
      BY PairIs DEF N
    <2>4. m \in Nat /\ m >= d + 1
      <3> DEFINE a == Len(Quote(Bytes(form[n][1])))
                 b == Len(Quote(Bytes(form[n][2])))
      <3>1. a \in Nat /\ b \in Nat
        <4>1. Quote(Bytes(form[n][1])) \in Text /\ Quote(Bytes(form[n][2])) \in Text
          BY PairIs DEF N
        <4> QED
          BY <4>1 DEF Text
      <3>2. m = d + a + 1 + b
        BY PairIs DEF N
      <3> HIDE DEF a, b, m, d
      <3> QED
        BY <2>1, <3>1, <3>2
    <2>5. e = o + m /\ e <= M /\ \A q \in 1 .. m : v[o + q] = t[q]
      BY <1>0 DEF Laid, v, ss, M
    <2>6. n = 1 => o = 0
      BY DEF Laid
    <2> HIDE DEF t, d, o, m, e
    <2>7. d = 1 => v[o + 1] = "&"
      BY <2>3, <2>4, <2>5
    <2>8. ASSUME NEW p \in o + d + 1 .. e
          PROVE  v[p] # "&"
      <3> DEFINE q == p - o
      <3>1. q \in 1 .. m /\ q \in d + 1 .. m /\ p = o + q
        BY <2>1, <2>2, <2>4, <2>5
      <3> HIDE DEF q
      <3>2. v[o + q] = t[q]
        BY <3>1, <2>5
      <3>3. t[q] # "&"
        BY <3>1, <2>3 DEF m
      <3> QED
        BY <3>1, <3>2, <3>3
    <2>9. o + d + 1 <= e
      BY <2>1, <2>2, <2>4, <2>5
    <2> QED
      BY <2>1, <2>2, <2>5, <2>6, <2>7, <2>8, <2>9 DEF o, d, e
  <1>2. P[0] = 0 /\ P[N] = M
    BY <1>0 DEF Laid, ss, v, M
  <1>3. ASSUME NEW p \in 1 .. M, v[p] = "&"
        PROVE  \E n \in 1 .. N : n # 1 /\ p = P[n - 1] + 1
    <2>1. PICK n \in 1 .. N : p - P[n - 1] \in 1 .. Len(ss[n])
      BY <1>0 DEF Laid, ss, v, M
    <2> DEFINE o == P[n - 1]
               e == P[n]
               d == Divider(n)
    <2>2. o \in Nat /\ e \in Nat /\ d \in {0, 1} /\ \A r \in o + d + 1 .. e : v[r] # "&"
      BY <1>1
    <2>3. e = o + Len(ss[n])
      BY <1>0 DEF Laid, ss, v
    <2>4. Len(ss[n]) \in Nat
      <3>1. ss[n] \in Text
        BY <1>0, PairIs DEF N
      <3> QED
        BY <3>1 DEF Text
    <2>5. d = 1 => n # 1
      BY DEF Divider
    <2> DEFINE l == Len(ss[n])
    <2>6. p - o \in 1 .. l
      BY <2>1
    <2> HIDE DEF o, e, d, l
    <2>7. p \notin o + d + 1 .. e
      BY <1>3, <2>2
    <2>8. d = 1 /\ p = o + 1
      BY <2>2, <2>3, <2>4, <2>6, <2>7 DEF l
    <2> QED
      BY <2>5, <2>8 DEF o
  <1>4. ASSUME NEW n \in 1 .. N
        PROVE  <<from(n), P[n]>> \in Items(v)
    <2> DEFINE i == from(n)
               j == P[n]
    <2>1. /\ P[n - 1] \in Nat /\ j \in Nat /\ Divider(n) \in {0, 1}
          /\ i <= j /\ j <= M
          /\ \A p \in i .. j : v[p] # "&"
      BY <1>1
    <2>2. i \in 1 .. M /\ j \in 1 .. M
      BY <1>0, <2>1
    <2>3. i = 1 \/ v[i - 1] = "&"
      <3>1. CASE n = 1
        BY <3>1, <1>1 DEF Divider
      <3>2. CASE n # 1
        <4>1. v[P[n - 1] + 1] = "&" /\ i = P[n - 1] + 1 + 1
          BY <3>2, <1>1 DEF Divider
        <4>2. i - 1 = P[n - 1] + 1
          BY <4>1, <2>1
        <4> QED
          BY <4>1, <4>2
      <3> QED
        BY <3>1, <3>2
    <2>4. j = M \/ v[j + 1] = "&"
      <3>1. CASE n = N
        BY <3>1, <1>2
      <3>2. CASE n # N
        <4> DEFINE m == n + 1
        <4>1. m \in 1 .. N /\ m # 1 /\ m - 1 = n
          BY <3>2, <1>0
        <4> HIDE DEF m
        <4>2. v[P[m - 1] + 1] = "&"
          BY <4>1, <1>1
        <4> QED
          BY <4>1, <4>2
      <3> QED
        BY <3>1, <3>2
    <2> HIDE DEF i, j
    <2>5. <<i, j>> \in Items(v)
      BY <1>0, <2>1, <2>2, <2>3, <2>4, ItemIs DEF M
    <2> QED
      BY <2>5 DEF i, j
  <1>5. ASSUME NEW ij \in Items(v)
        PROVE  \E n \in 1 .. N : ij = <<from(n), P[n]>>
    <2>1. PICK i \in 1 .. M, j \in 1 .. M : ij = <<i, j>>
      BY DEF Items, M
    <2>2. /\ i <= j /\ \A p \in i .. j : v[p] # "&"
          /\ i = 1 \/ v[i - 1] = "&"
          /\ j = M \/ v[j + 1] = "&"
      BY <2>1, <1>0, <1>5, ItemIs DEF M
    <2>3. PICK n \in 1 .. N : i = from(n)
      <3>1. CASE i = 1
        <4>1. N # 0
          BY <1>0, <1>2
        <4>2. 1 \in 1 .. N
          BY <4>1, <1>0
        <4>3. from(1) = 1
          BY <4>2, <1>1 DEF Divider
        <4> QED
          BY <3>1, <4>2, <4>3
      <3>2. CASE i # 1
        <4>1. i - 1 \in 1 .. M /\ v[i - 1] = "&"
          BY <3>2, <2>2, <1>0
        <4>2. PICK n \in 1 .. N : n # 1 /\ i - 1 = P[n - 1] + 1
          BY <4>1, <1>3
        <4>3. P[n - 1] \in Nat /\ from(n) = P[n - 1] + 1 + 1
          BY <4>2, <1>1 DEF Divider
        <4>4. i = from(n)
          BY <4>2, <4>3
        <4> QED
          BY <4>4
      <3> QED
        BY <3>1, <3>2
    <2> DEFINE e == P[n]
    <2>4. e \in Nat /\ i <= e /\ e <= M /\ \A p \in i .. e : v[p] # "&"
      BY <2>3, <1>1
    <2>5. e = M \/ v[e + 1] = "&"
      <3>1. CASE n = N
        BY <3>1, <1>2
      <3>2. CASE n # N
        <4> DEFINE m == n + 1
        <4>1. m \in 1 .. N /\ m # 1 /\ m - 1 = n
          BY <3>2, <1>0
        <4> HIDE DEF m
        <4>2. v[P[m - 1] + 1] = "&"
          BY <4>1, <1>1
        <4> QED
          BY <4>1, <4>2
      <3> QED
        BY <3>1, <3>2
    <2> HIDE DEF e
    <2>6. ~ (j < e)
      <3>1. j < e => j + 1 \in i .. e /\ j # M
        BY <1>0, <2>2, <2>4
      <3> QED
        BY <3>1, <2>2, <2>4
    <2>7. ~ (e < j)
      <3>1. e < j => e + 1 \in i .. j /\ e # M
        BY <1>0, <2>2, <2>4
      <3> QED
        BY <3>1, <2>2, <2>5
    <2>8. j = e
      BY <2>4, <2>6, <2>7
    <2> QED
      BY <2>1, <2>3, <2>8 DEF e
  <1> QED
    BY <1>4, <1>5 DEF v, N

-----------------------------------------------------------------------------
(* What the handlers get                                                   *)

(* Whatever a form holds, parsing what the page sends gives the bytes of    *)
(* each of its keys the bytes of the value that was typed.                  *)
LEMMA ParsedAsBytes ==
  ASSUME NEW form, Form(form), NEW i \in 1 .. Len(form)
  PROVE  /\ Bytes(form[i][1]) \in DOMAIN parse_kv_pairs(Encode(form))
         /\ parse_kv_pairs(Encode(form))[Bytes(form[i][1])] = Bytes(form[i][2])
  <1> DEFINE v == Encode(form)
             N == Len(form)
             M == Len(v)
             Item(ij) == SubSeq(v, ij[1], ij[2])
             Key(ij)  == url_unquote(Before(Item(ij), "="))
             Value(ij) == url_unquote(After(Item(ij), "="))
             Of(k)    == {ij \in Items(v) : Key(ij) = k}
             LastOf(k) == CHOOSE ij \in Of(k) : \A other \in Of(k) : other[1] <= ij[1]
  <1>0. N \in Nat /\ v \in Text /\ M \in Nat
    BY PairsTyped, Flattened DEF Text
  <1>1. parse_kv_pairs(v) = [k \in {Key(ij) : ij \in Items(v)} |-> Value(LastOf(k))]
    BY DEF parse_kv_pairs
  <1>2. PICK P \in [0 .. Len(form) -> Nat] : Laid(Pairs(form), v, P)
    BY PairsTyped, Flattened
  <1> DEFINE at(n) == <<P[n - 1] + Divider(n) + 1, P[n]>>
  <1>3. Items(v) = {at(n) : n \in 1 .. N}
    BY <1>2, ItemsOfForm
  <1>4. ASSUME NEW n \in 1 .. N
        PROVE  Key(at(n)) = Bytes(form[n][1]) /\ Value(at(n)) = Bytes(form[n][2])
    <2> DEFINE t == Pair(form, n)
               d == Divider(n)
               o == P[n - 1]
               k == Quote(Bytes(form[n][1]))
               w == Quote(Bytes(form[n][2]))
               a == Len(k)
               b == Len(w)
               u == SubSeq(v, o + d + 1, P[n])
    <2>1. /\ Bytes(form[n][1]) \in Text /\ Bytes(form[n][2]) \in Text
          /\ t \in Text /\ k \in Text /\ w \in Text
          /\ Len(t) = d + a + 1 + b
          /\ \A q \in 1 .. a : t[d + q] = k[q]
          /\ t[d + a + 1] = "="
          /\ \A q \in 1 .. b : t[d + a + 1 + q] = w[q]
      BY PairIs
    <2>2. o \in Nat /\ P[n] \in Nat
      <3>1. n - 1 \in 0 .. N /\ n \in 0 .. N
        BY <1>0
      <3> QED
        BY <3>1
    <2>3. /\ P[n] = o + Len(t) /\ P[n] <= M
          /\ \A q \in 1 .. Len(t) : v[o + q] = t[q]
      <3>1. n \in 1 .. Len(Pairs(form)) /\ Pairs(form)[n] = t
        BY PairsTyped
      <3> HIDE DEF t, v, M
      <3>2. /\ P[n] = o + Len(Pairs(form)[n]) /\ P[n] <= M
            /\ \A q \in 1 .. Len(Pairs(form)[n]) : v[o + q] = Pairs(form)[n][q]
        BY <1>2, <3>1 DEF Laid, M
      <3> QED
        BY <3>1, <3>2
    <2>4. a \in Nat /\ b \in Nat /\ d \in {0, 1}
      BY <2>1 DEF Text, Divider
    <2>5. \A q \in 1 .. a : k[q] # "="
      BY <2>1, QuoteTyped
    <2> DEFINE e == P[n]
               f == o + d + 1
               m == a + 1 + b
    <2>6. u \in Text /\ Len(u) = m /\ \A q \in 1 .. m : u[q] = t[d + q]
      <3> HIDE DEF t, d, o, k, w, a, b, u, e, v, M
      <3>1. e = o + (d + m) /\ e <= M /\ Len(t) = d + m
        BY <2>1, <2>3, <2>4 DEF e
      <3>2. f \in 1 .. M + 1 /\ e \in f - 1 .. M /\ e - f + 1 = m
        BY <3>1, <1>0, <2>2, <2>4 DEF e
      <3>3. SubSeq(v, f, e) \in Text /\ Len(SubSeq(v, f, e)) = e - f + 1
            /\ \A q \in 1 .. e - f + 1 : SubSeq(v, f, e)[q] = v[f + q - 1]
        BY <3>2, <1>0, PartOf DEF M
      <3>4. u = SubSeq(v, f, e)
        BY DEF u, e
      <3>5. ASSUME NEW q \in 1 .. m
            PROVE  v[f + q - 1] = t[d + q]
        <4> DEFINE r == d + q
        <4>1. r \in 1 .. d + m /\ f + q - 1 = o + r
          BY <2>2, <2>4
        <4> HIDE DEF r
        <4>2. v[o + r] = t[r]
          BY <4>1, <3>1, <2>3
        <4> QED
          BY <4>1, <4>2 DEF r
      <3> HIDE DEF f, m
      <3> QED
        BY <3>2, <3>3, <3>4, <3>5
    <2>7. /\ \A q \in 1 .. a : u[q] = k[q] /\ k[q] # "="
          /\ u[a + 1] = "="
          /\ \A q \in 1 .. b : u[a + 1 + q] = w[q]
      <3> HIDE DEF t, d, o, k, w, a, b, u, e, v, M, f
      <3>1. \A q \in 1 .. a : q \in 1 .. m
        BY <2>4
      <3>2. a + 1 \in 1 .. m /\ d + (a + 1) = d + a + 1
        BY <2>4
      <3>3. \A q \in 1 .. b : a + 1 + q \in 1 .. m /\ d + (a + 1 + q) = d + a + 1 + q
        BY <2>4
      <3> HIDE DEF m
      <3>4. \A q \in 1 .. a : u[q] = k[q]
        BY <3>1, <2>1, <2>6
      <3>5. u[a + 1] = "="
        BY <3>2, <2>1, <2>6
      <3>6. \A q \in 1 .. b : u[a + 1 + q] = w[q]
        BY <3>3, <2>1, <2>6
      <3> QED
        BY <3>4, <3>5, <3>6, <2>5
    <2>8. Before(u, "=") = k /\ After(u, "=") = w
      <3> HIDE DEF k, w, u
      <3> QED
        BY <2>1, <2>6, <2>7, ItemFallsApart
    <2>9. url_unquote(k) = Bytes(form[n][1]) /\ url_unquote(w) = Bytes(form[n][2])
      BY <2>1, UnquoteQuote
    <2>10. Item(at(n)) = u
      OBVIOUS
    <2> HIDE DEF u, k, w, at, Item
    <2> QED
      BY <2>8, <2>9, <2>10
  <1>5. \A ij \in Items(v) : ij[1] \in 1 .. M
    BY DEF Items
  <1> DEFINE key == Bytes(form[i][1])
  <1>6. at(i) \in Of(key)
    BY <1>3, <1>4
  <1>7. LastOf(key) \in Of(key)
    <2> DEFINE T == {ij[1] : ij \in Of(key)}
    <2>1. T \in SUBSET (1 .. M) /\ T # {}
      BY <1>5, <1>6
    <2>2. PICK x \in T : \A y \in T : y <= x
      <3> HIDE DEF T
      <3> QED
        BY <1>0, <2>1, Greatest
    <2>3. \E ij \in Of(key) : \A other \in Of(key) : other[1] <= ij[1]
      BY <2>2
    <2> HIDE DEF Of
    <2> QED
      BY <2>3
  <1>8. PICK n \in 1 .. N : LastOf(key) = at(n)
    <2> HIDE DEF LastOf, at
    <2> QED
      BY <1>3, <1>7
  <1>9. n = i
    <2>1. Key(at(n)) = key
      <3> HIDE DEF LastOf, at, Key
      <3> QED
        BY <1>7, <1>8
    <2>2. Bytes(form[n][1]) = Bytes(form[i][1])
      BY <2>1, <1>4
    <2> QED
      BY <2>2 DEF Form
  <1>10. key \in {Key(ij) : ij \in Items(v)}
    BY <1>6
  <1>11. Value(LastOf(key)) = Bytes(form[i][2])
    BY <1>4, <1>8, <1>9
  <1> HIDE DEF Key, Value, LastOf
  <1> QED
    BY <1>1, <1>10, <1>11

LEMMA QueriedAsTyped ==
  ASSUME conn \in Request, conn.form # Nothing, body = conn.body, NEW i \in DOMAIN conn.form,
         OneByte(conn.form[i][1]), OneByte(conn.form[i][2])
  PROVE  Get(params, conn.form[i][1], <<>>) = conn.form[i][2]
  <1>1. Form(conn.form) /\ body = Encode(conn.form)
    BY RequestAssumption DEF RequestAssumption
  <1>2. i \in 1 .. Len(conn.form) /\ conn.form[i][1] \in Text /\ conn.form[i][2] \in Text
    BY <1>1 DEF Form
  <1> DEFINE new == parse_kv_pairs(Encode(conn.form))
             key == conn.form[i][1]
  <1>3. key \in DOMAIN new /\ new[key] = conn.form[i][2]
    <2>1. Bytes(key) = key /\ Bytes(conn.form[i][2]) = conn.form[i][2]
      BY <1>2, BytesOfOneByte
    <2>2. Bytes(key) \in DOMAIN new /\ new[Bytes(key)] = Bytes(conn.form[i][2])
      BY <1>1, <1>2, ParsedAsBytes
    <2> HIDE DEF new, key
    <2> QED
      BY <2>1, <2>2
  <1>4. params = Updated(parse_kv_pairs(conn.query), new)
    BY <1>1 DEF params
  <1> HIDE DEF new, key
  <1>5. key \in DOMAIN params /\ params[key] = new[key]
    BY <1>3, <1>4 DEF Updated
  <1> QED
    BY <1>3, <1>5 DEF Get, key

(* Whatever characters are in the page's form, those of several bytes and   *)
(* the marks of the encoding included, its parameters in one-byte           *)
(* characters reach the handlers as they were typed: the escapes of the     *)
(* page and url_unquote undo each other.                                    *)
THEOREM AlwaysDecodedAsEncoded == Spec => []DecodedAsEncoded
  <1>1. Kept /\ Serving => DecodedAsEncoded
    <2> SUFFICES ASSUME Serving, pc = "handle", conn.form # Nothing, body = conn.body,
                        NEW i \in DOMAIN conn.form,
                        OneByte(conn.form[i][1]), OneByte(conn.form[i][2])
                 PROVE  Get(params, conn.form[i][1], <<>>) = conn.form[i][2]
      BY Zenon DEF DecodedAsEncoded
    <2>1. conn \in Request
      BY DEF Serving
    <2> QED
      BY <2>1, QueriedAsTyped
  <1> QED
    BY <1>1, Typed, PTL

=============================================================================
